---- MODULE TunnelPool ----
(***************************************************************************)
(* The client's pool of tunnels to one server (core/src/client.rs) and the *)
(* driver of each tunnel's stream multiplexer (core/src/mux.rs).           *)
(*                                                                         *)
(* A slot has a supervisor task that dials, publishes a control handle,    *)
(* drives the multiplexer until the tunnel drops, withdraws the handle,    *)
(* backs off and dials again.  A forward is one local connection: its task *)
(* probes the slots round robin with a counter all forwards share, asks    *)
(* the driver behind the handle it cloned for a stream, exchanges the      *)
(* connect request and relays.  A handle can outlive its tunnel: sessions  *)
(* of a slot are numbered, and a forward remembers which one it asked.     *)
(***************************************************************************)
EXTENDS Integers, Sequences, FiniteSets

CONSTANTS
    PoolSize,       \* slots.len(), at least 1 (build_pool)
    Forwards,       \* local connections
    GraceRounds,    \* OPEN_GRACE_ATTEMPTS
    Backlog,        \* OPEN_BACKLOG: capacity of a driver's request channel
    StreamLimit,    \* yamux max_num_streams of one tunnel
    BackoffMax,     \* BACKOFF_MAX, in units of BACKOFF_INITIAL
    MaxSessions     \* bound: sessions of a slot; the last one does not drop

NoOne == "none"

ASSUME PoolAssumption ==
    /\ PoolSize \in Nat \ {0}
    /\ GraceRounds \in Nat \ {0}
    /\ Backlog \in Nat \ {0}
    /\ StreamLimit \in Nat
    /\ BackoffMax \in Nat \ {0}
    /\ MaxSessions \in Nat \ {0}
    /\ NoOne \notin Forwards

Slots == 0..(PoolSize - 1)

VARIABLES
    sup,        \* slot -> what its supervisor is doing
    gen,        \* slot -> number of its latest session
    control,    \* slot -> session whose handle is published, 0 for None
    backoff,    \* slot -> next delay, in units of BACKOFF_INITIAL
    queue,      \* slot -> forwards whose requests wait in the driver's channel
    pending,    \* slot -> the forward whose request the driver has taken
    next,       \* SupervisedPool.next, modulo the number of slots
    st,         \* forward -> where its task stands
    slot,       \* forward -> slot it probes or holds a stream of
    held,       \* forward -> session it cloned the handle of
    tries,      \* forward -> slots probed in this round
    round,      \* forward -> round of the grace loop
    steady      \* history: forward -> slots live, and with room for its stream,
                \*   ever since its open began

supervisors == <<sup, gen, control, backoff>>
drivers == <<queue, pending>>
tasks == <<next, st, slot, held, tries, round>>
vars == <<supervisors, drivers, tasks, steady>>

TypeOK ==
    /\ sup \in [Slots -> {"dialing", "driving", "ended", "backoff"}]
    /\ gen \in [Slots -> 0..MaxSessions]
    /\ control \in [Slots -> 0..MaxSessions]
    /\ backoff \in [Slots -> 1..BackoffMax]
    /\ queue \in [Slots -> Seq(Forwards)]
    /\ \A i \in Slots : Len(queue[i]) <= Backlog
    /\ pending \in [Slots -> Forwards \cup {NoOne}]
    /\ next \in Slots
    /\ st \in [Forwards -> {"idle", "fetch", "look", "send", "waiting", "sleep",
                            "failed", "exchange", "relay", "closed"}]
    /\ slot \in [Forwards -> Slots]
    /\ held \in [Forwards -> 0..MaxSessions]
    /\ tries \in [Forwards -> 0..PoolSize]
    /\ round \in [Forwards -> 1..GraceRounds]
    /\ steady \in [Forwards -> SUBSET Slots]

Live == {i \in Slots : sup[i] = "driving"}

\* The session a forward cloned the handle of still has a driver.
SessionAlive(f) == slot[f] \in Live /\ gen[slot[f]] = held[f]

Requests(i) == {queue[i][k] : k \in DOMAIN queue[i]} \cup ({pending[i]} \ {NoOne})

\* Streams of the slot's current session.
Streams(i) ==
    {f \in Forwards : /\ st[f] \in {"exchange", "relay"}
                      /\ slot[f] = i
                      /\ held[f] = gen[i]}

Init ==
    /\ sup = [i \in Slots |-> "dialing"]
    /\ gen = [i \in Slots |-> 0]
    /\ control = [i \in Slots |-> 0]
    /\ backoff = [i \in Slots |-> 1]
    /\ queue = [i \in Slots |-> <<>>]
    /\ pending = [i \in Slots |-> NoOne]
    /\ next = 0
    /\ st = [f \in Forwards |-> "idle"]
    /\ slot = [f \in Forwards |-> 0]
    /\ held = [f \in Forwards |-> 0]
    /\ tries = [f \in Forwards |-> 0]
    /\ round = [f \in Forwards |-> 1]
    /\ steady = [f \in Forwards |-> {}]

----------------------------------------------------------------------------
(* supervise *)

\* dial succeeds: the handle is published and the backoff starts over.
DialOk(i) ==
    /\ sup[i] = "dialing"
    /\ gen[i] < MaxSessions
    /\ sup' = [sup EXCEPT ![i] = "driving"]
    /\ gen' = [gen EXCEPT ![i] = @ + 1]
    /\ control' = [control EXCEPT ![i] = gen[i] + 1]
    /\ backoff' = [backoff EXCEPT ![i] = 1]
    /\ UNCHANGED <<drivers, tasks, steady>>

\* The knock cannot be sent, every connect fails, or the handshake does.
DialFailed(i) ==
    /\ sup[i] = "dialing"
    /\ sup' = [sup EXCEPT ![i] = "backoff"]
    /\ UNCHANGED <<gen, control, backoff, drivers, tasks, steady>>

\* Defect: requests outlive the driver that was to answer them.
DriverEnds_KeepsRequests(i) ==
    /\ sup[i] = "driving"
    /\ gen[i] < MaxSessions
    /\ sup' = [sup EXCEPT ![i] = "ended"]
    /\ steady' = [f \in Forwards |-> steady[f] \ {i}]
    /\ UNCHANGED <<gen, control, backoff, drivers, tasks>>

\* The tunnel drops: run returns and drops its channel and the request it had
\* taken.  The handle stays published until the supervisor's next step.
DriverEnds(i) ==
    /\ sup[i] = "driving"
    /\ gen[i] < MaxSessions
    /\ sup' = [sup EXCEPT ![i] = "ended"]
    /\ queue' = [queue EXCEPT ![i] = <<>>]
    /\ pending' = [pending EXCEPT ![i] = NoOne]
    /\ steady' = [f \in Forwards |-> steady[f] \ {i}]
    /\ UNCHANGED <<gen, control, backoff, tasks>>

\* Defect: the supervisor returns when its tunnel drops instead of looping.
ClearSlot_GivesUp(i) ==
    /\ sup[i] = "ended"
    /\ control[i] # 0
    /\ control' = [control EXCEPT ![i] = 0]
    /\ UNCHANGED <<sup, gen, backoff, drivers, tasks, steady>>

\* The supervisor withdraws the handle.
ClearSlot(i) ==
    /\ sup[i] = "ended"
    /\ sup' = [sup EXCEPT ![i] = "backoff"]
    /\ control' = [control EXCEPT ![i] = 0]
    /\ UNCHANGED <<gen, backoff, drivers, tasks, steady>>

\* Defect: the backoff grows without limit.
Doubled_Unbounded(b) == 2 * b

\* (backoff * 2).min(BACKOFF_MAX)
Doubled(b) == IF 2 * b > BackoffMax THEN BackoffMax ELSE 2 * b

BackoffOver(i) ==
    /\ sup[i] = "backoff"
    /\ sup' = [sup EXCEPT ![i] = "dialing"]
    /\ backoff' = [backoff EXCEPT ![i] = Doubled(backoff[i])]
    /\ UNCHANGED <<gen, control, drivers, tasks, steady>>

----------------------------------------------------------------------------
(* SupervisedPool::open and MuxControl::open, one forward's side *)

\* The slot failed the forward: on to the next probe, or, when the round has
\* probed as many slots as there are, to the pause.
NextProbe(f) ==
    st' = [st EXCEPT ![f] = IF tries[f] < PoolSize THEN "fetch" ELSE "sleep"]

\* A local connection is accepted.
Accept(f) ==
    /\ st[f] = "idle"
    /\ st' = [st EXCEPT ![f] = "fetch"]
    /\ steady' = [steady EXCEPT ![f] = Live]
    /\ UNCHANGED <<supervisors, drivers, next, slot, held, tries, round>>

\* Defect: every probe of a forward goes to the first slot.
Fetch_FirstSlot(f) ==
    /\ st[f] = "fetch"
    /\ slot' = [slot EXCEPT ![f] = 0]
    /\ tries' = [tries EXCEPT ![f] = @ + 1]
    /\ st' = [st EXCEPT ![f] = "look"]
    /\ UNCHANGED <<supervisors, drivers, next, held, round, steady>>

\* next.fetch_add(1) % slots.len()
Fetch(f) ==
    /\ st[f] = "fetch"
    /\ slot' = [slot EXCEPT ![f] = next]
    /\ next' = (next + 1) % PoolSize
    /\ tries' = [tries EXCEPT ![f] = @ + 1]
    /\ st' = [st EXCEPT ![f] = "look"]
    /\ UNCHANGED <<supervisors, drivers, held, round, steady>>

\* The forward locks the slot and finds no handle.
LookEmpty(f) ==
    /\ st[f] = "look"
    /\ control[slot[f]] = 0
    /\ NextProbe(f)
    /\ UNCHANGED <<supervisors, drivers, next, slot, held, tries, round, steady>>

\* The forward clones the published handle.
LookHandle(f) ==
    /\ st[f] = "look"
    /\ control[slot[f]] # 0
    /\ held' = [held EXCEPT ![f] = control[slot[f]]]
    /\ st' = [st EXCEPT ![f] = "send"]
    /\ UNCHANGED <<supervisors, drivers, next, slot, tries, round, steady>>

\* The request enters the driver's channel once there is room.
Send(f) ==
    /\ st[f] = "send"
    /\ SessionAlive(f)
    /\ Len(queue[slot[f]]) < Backlog
    /\ queue' = [queue EXCEPT ![slot[f]] = Append(@, f)]
    /\ st' = [st EXCEPT ![f] = "waiting"]
    /\ UNCHANGED <<supervisors, pending, next, slot, held, tries, round, steady>>

\* "mux driver stopped": the channel is closed.
SendFailed(f) ==
    /\ st[f] = "send"
    /\ ~SessionAlive(f)
    /\ NextProbe(f)
    /\ UNCHANGED <<supervisors, drivers, next, slot, held, tries, round, steady>>

\* "mux driver stopped": the request was dropped unanswered.
WaitFailed(f) ==
    /\ st[f] = "waiting"
    /\ f \notin Requests(slot[f])
    /\ NextProbe(f)
    /\ UNCHANGED <<supervisors, drivers, next, slot, held, tries, round, steady>>

\* Defect: the grace loop does not count its rounds.
RoundOver_Uncounted(f) ==
    /\ st[f] = "sleep"
    /\ tries' = [tries EXCEPT ![f] = 0]
    /\ st' = [st EXCEPT ![f] = "fetch"]
    /\ UNCHANGED <<supervisors, drivers, next, slot, held, round, steady>>

\* The pause of the grace loop is over: another round, or "no live tunnel to
\* server" after the last.
RoundOver(f) ==
    /\ st[f] = "sleep"
    /\ tries' = [tries EXCEPT ![f] = 0]
    /\ \/ /\ round[f] < GraceRounds
          /\ round' = [round EXCEPT ![f] = @ + 1]
          /\ st' = [st EXCEPT ![f] = "fetch"]
       \/ /\ round[f] = GraceRounds
          /\ st' = [st EXCEPT ![f] = "failed"]
          /\ UNCHANGED round
    /\ UNCHANGED <<supervisors, drivers, next, slot, held, steady>>

\* forward_one's exchange: the server says Ok, or it says Denied or
\* Unreachable, or CONNECT_EXCHANGE_TIMEOUT passes, or the tunnel drops.
Exchange(f) ==
    /\ st[f] = "exchange"
    /\ \/ SessionAlive(f) /\ st' = [st EXCEPT ![f] = "relay"]
       \/ st' = [st EXCEPT ![f] = "closed"]
    /\ UNCHANGED <<supervisors, drivers, next, slot, held, tries, round, steady>>

\* copy_bidirectional returns.
RelayEnds(f) ==
    /\ st[f] = "relay"
    /\ st' = [st EXCEPT ![f] = "closed"]
    /\ UNCHANGED <<supervisors, drivers, next, slot, held, tries, round, steady>>

----------------------------------------------------------------------------
(* mux::run, the driver *)

\* One request at a time leaves the channel.
TakeRequest(i) ==
    /\ sup[i] = "driving"
    /\ pending[i] = NoOne
    /\ queue[i] # <<>>
    /\ pending' = [pending EXCEPT ![i] = Head(queue[i])]
    /\ queue' = [queue EXCEPT ![i] = Tail(@)]
    /\ UNCHANGED <<supervisors, tasks, steady>>

\* poll_new_outbound yields a stream.
Grant(i) ==
    /\ sup[i] = "driving"
    /\ pending[i] # NoOne
    /\ Cardinality(Streams(i)) < StreamLimit
    /\ st' = [st EXCEPT ![pending[i]] = "exchange"]
    /\ pending' = [pending EXCEPT ![i] = NoOne]
    /\ steady' = [steady EXCEPT ![pending[i]] = {}]
    /\ UNCHANGED <<supervisors, queue, next, slot, held, tries, round>>

\* poll_new_outbound yields an error: the tunnel has all the streams it may.
Reject(i) ==
    /\ sup[i] = "driving"
    /\ pending[i] # NoOne
    /\ Cardinality(Streams(i)) >= StreamLimit
    /\ NextProbe(pending[i])
    /\ pending' = [pending EXCEPT ![i] = NoOne]
    /\ steady' = [steady EXCEPT ![pending[i]] = @ \ {i}]
    /\ UNCHANGED <<supervisors, queue, next, slot, held, tries, round>>

----------------------------------------------------------------------------
Supervisor(i) == DialOk(i) \/ DialFailed(i) \/ ClearSlot(i) \/ BackoffOver(i)
Driver(i) == TakeRequest(i) \/ Grant(i) \/ Reject(i)
Opening(f) ==
    \/ Fetch(f) \/ LookEmpty(f) \/ LookHandle(f) \/ Send(f) \/ SendFailed(f)
    \/ WaitFailed(f) \/ RoundOver(f) \/ Exchange(f)

Next ==
    \/ \E i \in Slots : Supervisor(i) \/ Driver(i) \/ DriverEnds(i)
    \/ \E f \in Forwards : Accept(f) \/ Opening(f) \/ RelayEnds(f)

Spec == Init /\ [][Next]_vars

\* The runtime runs every task that can run, timers fire, a dial ends one way
\* or the other (the keepalive ends a silent handshake) and the peer's side
\* of the multiplexer acknowledges streams.
FairSpec ==
    /\ Spec
    /\ \A i \in Slots : WF_vars(Supervisor(i)) /\ WF_vars(Driver(i))
    /\ \A f \in Forwards : WF_vars(Opening(f))

\* The server can be reached: not every dial fails.
Reachable == \A i \in Slots : SF_vars(DialOk(i))

----------------------------------------------------------------------------
(* Properties. *)

\* A driver only ever holds requests of forwards that wait for this session
\* of its slot, each once: a request never survives the tunnel it was made
\* on, to be answered by the next one.
RequestsMatchSession ==
    \A i \in Slots :
        /\ \A f \in Requests(i) :
              sup[i] = "driving" /\ st[f] = "waiting" /\ slot[f] = i /\ held[f] = gen[i]
        /\ Cardinality(Requests(i)) =
              Len(queue[i]) + (IF pending[i] = NoOne THEN 0 ELSE 1)

\* "no live tunnel to server" (client.rs:171): a forward gives up with this
\* error only if no slot has been live all the time it was trying.
GiveUpMeansNoLiveTunnel ==
    \A f \in Forwards : st[f] = "failed" => steady[f] = {}

\* Every accepted connection is relayed, answered or given up, even when the
\* tunnel it asked drops under it and even when the server never comes back.
OpenTerminates ==
    \A f \in Forwards :
        st[f] = "fetch" ~> st[f] \in {"relay", "closed", "failed"}

\* tests pool_recovers_after_server_restart: once the server can be reached
\* and tunnels stop dropping, every slot has a published live tunnel for good.
Recovers == Reachable => \A i \in Slots : <>[](i \in Live /\ control[i] = gen[i])

====
