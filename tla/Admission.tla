---- MODULE Admission ----
(***************************************************************************)
(* How a client gets a tunnel: one dial of a supervisor (knock, TCP        *)
(* connect, Noise handshake; dial and connect_tcp in core/src/client.rs,   *)
(* connect in core/src/noise.rs) against the server's side of it (accept   *)
(* in noise.rs, serve_connection in core/src/server.rs).  The firewall is  *)
(* what KnockGate implements: an instance of SpaGate.                      *)
(*                                                                         *)
(* Every dial has a connection of its own.  Its two ends are the client's  *)
(* dial and the server's task; each learns of the other only through the   *)
(* network path between them, which may die without a word.                *)
(*                                                                         *)
(* Not every party that connects runs the client.  One on the path may     *)
(* send again what it recorded: a knock, from any address (SpaGate), and   *)
(* the first handshake message of a listed client to this server, which    *)
(* accept does not recognise as old.                                       *)
(***************************************************************************)
EXTENDS Naturals, FiniteSets

CONSTANTS
    Clients,        \* supervisors of tunnels to the one server, and pretenders
    Others,         \* knocks for this server sealed by clients elsewhere
    Addresses,      \* source addresses
    Address,        \* client -> the address the server sees it under
    Knocking,       \* is knock.enabled, at the clients and for the firewall?
    RetryAttempts,  \* KNOCK_RETRY_ATTEMPTS
    MaxDials        \* bound: dials of a client

Conns == Clients \X (1..MaxDials)
Knocks == Conns \cup Others

ASSUME AdmissionAssumption ==
    /\ Address \in [Clients -> Addresses]
    /\ Others \cap Conns = {}
    /\ Knocking \in BOOLEAN
    /\ RetryAttempts \in Nat \ {0}
    /\ MaxDials \in Nat

\* What a client may hold: the server's public key and protocol version, the
\* pre-shared key, an own static key that is on the server's list.
Credentials == {"server key", "psk", "listed key"}
Recording == "recorded hello"

VARIABLES
    holds,      \* client -> its credentials, or a recording; never changes
    dial,       \* client -> how far its dial has come
    dials,      \* client -> number of its latest dial
    tries,      \* client -> TCP connects of this dial so far
    task,       \* connection -> the server's task for it
    answered,   \* connections whose second handshake message was sent
    dead,       \* connections whose path carries no packets any more
    issued,     \* SpaGate: knocks sealed for this server
    spent,      \* SpaGate: how often a knock was used up
    open        \* SpaGate: addresses the firewall admits

gate == <<issued, spent, open>>
client == <<dial, dials, tries>>
server == <<task, answered>>
admission == <<holds, client, server, dead, gate>>

Gate == INSTANCE SpaGate WITH Sources <- Addresses, Budget <- 1

TypeOK ==
    /\ holds \in [Clients -> SUBSET (Credentials \cup {Recording})]
    /\ dial \in [Clients -> {"backoff", "connecting", "pause", "hello", "up"}]
    /\ dials \in [Clients -> 0..MaxDials]
    /\ tries \in [Clients -> 0..RetryAttempts]
    /\ task \in [Conns -> {"none", "accept", "tunnel", "over"}]
    /\ answered \subseteq Conns
    /\ dead \subseteq Conns
    /\ issued \subseteq Knocks
    /\ spent \in [Knocks -> 0..1]
    /\ open \subseteq Addresses
    /\ \A c \in Clients : dial[c] # "backoff" => dials[c] > 0

Conn(c) == <<c, dials[c]>>

\* A party with a recording sends that instead of a message of its own.
Replays(c) == Recording \in holds[c]

\* Sealing a knock takes the server's key and the pre-shared key.
Seals(c) == {"server key", "psk"} \subseteq holds[c]

\* A first message that accept reads and finds on the list of admins: nothing
\* in it tells a recording of one from the client's own.
Listed(c) == Replays(c) \/ {"server key", "listed key"} \subseteq holds[c]

\* The ends of connection k that are still there.
ClientSide(k) == dials[k[1]] = k[2] /\ dial[k[1]] \in {"hello", "up"}
ServerSide(k) == task[k] \in {"accept", "tunnel"}

AdmissionInit ==
    /\ holds \in [Clients -> SUBSET (Credentials \cup {Recording})]
    /\ dial = [c \in Clients |-> "backoff"]
    /\ dials = [c \in Clients |-> 0]
    /\ tries = [c \in Clients |-> 0]
    /\ task = [k \in Conns |-> "none"]
    /\ answered = {}
    /\ dead = {}
    /\ Gate!Init

----------------------------------------------------------------------------
(* dial *)

DialState(c, state) == dial' = [dial EXCEPT ![c] = state]

\* Defect: the public key in a knock's associated data stands in for the
\* pre-shared key it is sealed under.
Knock_NoPsk(c) ==
    /\ dial[c] = "backoff"
    /\ dials[c] < MaxDials
    /\ dials' = [dials EXCEPT ![c] = @ + 1]
    /\ tries' = [tries EXCEPT ![c] = 1]
    /\ DialState(c, "connecting")
    /\ IF Knocking /\ "server key" \in holds[c]
       THEN Gate!Issue(<<c, dials[c] + 1>>)
       ELSE UNCHANGED gate
    /\ UNCHANGED <<holds, server, dead>>

\* The backoff is over.  The knock is a knock to this server only when sealed
\* under its pre-shared key for its public key.
Knock(c) ==
    /\ dial[c] = "backoff"
    /\ dials[c] < MaxDials
    /\ dials' = [dials EXCEPT ![c] = @ + 1]
    /\ tries' = [tries EXCEPT ![c] = 1]
    /\ DialState(c, "connecting")
    /\ IF Knocking /\ Seals(c)
       THEN Gate!Issue(<<c, dials[c] + 1>>)
       ELSE UNCHANGED gate
    /\ UNCHANGED <<holds, server, dead>>

\* The datagram cannot be sent: no connect is tried.
KnockFailed(c) ==
    /\ Knocking
    /\ dial[c] = "backoff"
    /\ dials[c] < MaxDials
    /\ dials' = [dials EXCEPT ![c] = @ + 1]
    /\ UNCHANGED <<holds, dial, tries, server, dead, gate>>

\* let attempts = if knocked { KNOCK_RETRY_ATTEMPTS } else { 1 }
Attempts == IF Knocking THEN RetryAttempts ELSE 1

\* Defect: one attempt too many, i <= attempts.
ConnectFails_OneMore(c) ==
    /\ dial[c] = "connecting"
    /\ DialState(c, IF tries[c] <= Attempts THEN "pause" ELSE "backoff")
    /\ UNCHANGED <<holds, dials, tries, server, dead, gate>>

\* Refused, or given up by the kernel: another attempt after a pause, or the
\* dial has failed.
ConnectFails(c) ==
    /\ dial[c] = "connecting"
    /\ DialState(c, IF tries[c] < Attempts THEN "pause" ELSE "backoff")
    /\ UNCHANGED <<holds, dials, tries, server, dead, gate>>

PauseOver(c) ==
    /\ dial[c] = "pause"
    /\ tries' = [tries EXCEPT ![c] = @ + 1]
    /\ DialState(c, "connecting")
    /\ UNCHANGED <<holds, dials, server, dead, gate>>

\* Defect: the firewall admits an address that is not in the set.
Connects_Ungated(c) ==
    /\ dial[c] = "connecting"
    /\ DialState(c, "hello")
    /\ task' = [task EXCEPT ![Conn(c)] = "accept"]
    /\ UNCHANGED <<holds, dials, tries, answered, dead, gate>>

\* The firewall lets the connect through; the server spawns a task for the
\* connection, the client sends its first handshake message.
Connects(c) ==
    /\ dial[c] = "connecting"
    /\ Knocking => Address[c] \in open
    /\ DialState(c, "hello")
    /\ task' = [task EXCEPT ![Conn(c)] = "accept"]
    /\ UNCHANGED <<holds, dials, tries, answered, dead, gate>>

\* Defect: the client takes the second message for good without opening it.
ReadReply_Unopened(c) ==
    /\ dial[c] = "hello"
    /\ Conn(c) \in answered \ dead
    /\ DialState(c, "up")
    /\ UNCHANGED <<holds, dials, tries, server, dead, gate>>

\* The second message arrives.  The pre-shared key is mixed into it, and it can
\* be opened only with the ephemeral key behind the first message.
ReadReply(c) ==
    /\ dial[c] = "hello"
    /\ Conn(c) \in answered \ dead
    /\ DialState(c, IF "psk" \in holds[c] /\ ~Replays(c) THEN "up" ELSE "backoff")
    /\ UNCHANGED <<holds, dials, tries, server, dead, gate>>

\* The server has closed the connection, before or after its second message,
\* or under an established tunnel, whose driver ends.
SeesClose(c) ==
    /\ dial[c] \in {"hello", "up"}
    /\ Conn(c) \notin dead
    /\ ~ServerSide(Conn(c))
    /\ DialState(c, "backoff")
    /\ UNCHANGED <<holds, dials, tries, server, dead, gate>>

\* Defect: the keepalive is set once the tunnel is up.
KeepaliveFails_OnceUp(c) ==
    /\ dial[c] = "up"
    /\ Conn(c) \in dead
    /\ DialState(c, "backoff")
    /\ UNCHANGED <<holds, dials, tries, server, dead, gate>>

\* TCP keepalive, set on the client's socket before the handshake, gives up
\* on a dead path.
KeepaliveFails(c) ==
    /\ dial[c] \in {"hello", "up"}
    /\ Conn(c) \in dead
    /\ DialState(c, "backoff")
    /\ UNCHANGED <<holds, dials, tries, server, dead, gate>>

----------------------------------------------------------------------------
(* serve_connection: accept within handshake_timeout, then the driver *)

TaskState(k, state) == task' = [task EXCEPT ![k] = state]

\* The first message names no listed key, or does not decrypt.
Refuse(k) ==
    /\ task[k] = "accept"
    /\ k \notin dead
    /\ ~Listed(k[1])
    /\ TaskState(k, "over")
    /\ UNCHANGED <<holds, client, answered, dead, gate>>

\* Defect: the list of admins is not consulted.
Answer_Anyone(k) ==
    /\ task[k] = "accept"
    /\ k \notin dead
    /\ "server key" \in holds[k[1]]
    /\ answered' = answered \cup {k}
    /\ TaskState(k, "tunnel")
    /\ UNCHANGED <<holds, client, dead, gate>>

\* The server sends the second message and has a tunnel: whether the other end
\* holds the pre-shared key, or has only replayed a first message, it does not
\* know yet.
Answer(k) ==
    /\ task[k] = "accept"
    /\ k \notin dead
    /\ Listed(k[1])
    /\ answered' = answered \cup {k}
    /\ TaskState(k, "tunnel")
    /\ UNCHANGED <<holds, client, dead, gate>>

\* Defect: the timeout covers the second message only.
HandshakeTimeout_AfterHello(k) ==
    /\ task[k] = "accept"
    /\ k \notin dead
    /\ TaskState(k, "over")
    /\ UNCHANGED <<holds, client, answered, dead, gate>>

\* handshake_timeout passes.
HandshakeTimeout(k) ==
    /\ task[k] = "accept"
    /\ TaskState(k, "over")
    /\ UNCHANGED <<holds, client, answered, dead, gate>>

\* The client's end is gone, and the path says so.
TaskSeesClose(k) ==
    /\ ServerSide(k)
    /\ ~ClientSide(k)
    /\ k \notin dead
    /\ TaskState(k, "over")
    /\ UNCHANGED <<holds, client, answered, dead, gate>>

\* The connection is reset, or a frame does not decrypt: the driver returns.
TaskFails(k) ==
    /\ ServerSide(k)
    /\ TaskState(k, "over")
    /\ UNCHANGED <<holds, client, answered, dead, gate>>

----------------------------------------------------------------------------
(* The network. *)

PathDies(k) ==
    /\ ClientSide(k) \/ ServerSide(k)
    /\ k \notin dead
    /\ dead' = dead \cup {k}
    /\ UNCHANGED <<holds, client, server, gate>>

\* The sniffer and the firewall, as SpaGate has them: any knock that was sealed
\* opens the port to any one address, and to all that are behind it.
GateStep ==
    /\ \/ \E j \in Others : Gate!Issue(j)
       \/ \E j \in Knocks, s \in Addresses : Gate!Open(j, s)
       \/ \E j \in Knocks : Gate!Waste(j)
       \/ \E s \in open : Gate!Lapse({s})
    /\ UNCHANGED <<holds, client, server, dead>>

----------------------------------------------------------------------------
Dialing(c) ==
    \/ ConnectFails(c) \/ PauseOver(c) \/ Connects(c)
    \/ ReadReply(c) \/ SeesClose(c) \/ KeepaliveFails(c)

Serving(k) ==
    \/ Refuse(k) \/ Answer(k) \/ HandshakeTimeout(k) \/ TaskSeesClose(k)

AdmissionStep ==
    \/ \E c \in Clients : Knock(c) \/ KnockFailed(c) \/ Dialing(c)
    \/ \E k \in Conns : Serving(k) \/ TaskFails(k) \/ PathDies(k)
    \/ GateStep

----------------------------------------------------------------------------
(* Properties. *)

\* THREAT_MODEL.md: "An on-path attacker who suppresses the original can
\* re-deliver it from their own IP within the window - they still face the Noise
\* gate".  With knock gating on, whoever gets as far as a task of the server got
\* there on a knock that a holder of the server's key and the pre-shared key
\* sealed, if not for them; and the server drives a tunnel only for a listed
\* client's first message, which may be a replayed one.
AdmittedByKnock ==
    \A k \in Conns : task[k] # "none" =>
        /\ Knocking =>
              \E j \in issued : spent[j] > 0 /\ (j \in Conns => Seals(j[1]))
        /\ task[k] = "tunnel" => Listed(k[1])

\* THREAT_MODEL.md: "cannot complete the Noise handshake".  A client that
\* believes it has a tunnel holds all three credentials, and the server's side
\* did complete; for one that replayed a first message it never comes to that.
MutuallyAuthenticated ==
    \A c \in Clients : dial[c] = "up" =>
        holds[c] = Credentials /\ Conn(c) \in answered

\* No dial of a client goes on for ever, although neither the connect nor the client's
\* handshake has a timeout: attempts are counted, the server's timeout closes
\* the connection, and a dead path is found out by the keepalive.
DialsEnd ==
    \A c \in Clients :
        dial[c] \in {"connecting", "pause", "hello"} /\ ~Replays(c)
            ~> dial[c] \in {"backoff", "up"}

\* The server does not keep a connection whose client is gone while packets
\* still pass, nor one that is stuck in its handshake, path or no path.
TasksEnd ==
    \A k \in Conns :
        /\ ~ClientSide(k) ~> ~ServerSide(k) \/ k \in dead
        /\ task[k] = "accept" ~> task[k] # "accept"

\* ARCHITECTURE.md: "Keepalive ping/pong keeps conntrack warm and detects dead
\* paths fast": both ends let go of a connection whose path has died.
DeadPathDetected ==
    \A k \in Conns : k \in dead ~> ~ClientSide(k) /\ ~ServerSide(k)

====
