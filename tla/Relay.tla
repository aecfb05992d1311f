---- MODULE Relay ----
(***************************************************************************)
(* What travels through a tunnel: a local connection is a forward, asks    *)
(* for a port at the server and is relayed to it (forward_one in           *)
(* core/src/client.rs; handle_stream in core/src/server.rs; the exchange   *)
(* in core/src/protocol.rs).  Tunnels come and go as in Admission, which   *)
(* the forwards use and never change.                                      *)
(*                                                                         *)
(* Both ends run copy_bidirectional and both are tasks of their own: they  *)
(* outlive the drivers of the tunnel and learn of its end, or of the other *)
(* end's, from their half of the multiplexed stream.  The end of input     *)
(* travels up as app, sent, passed and down as target, returned, told.     *)
(***************************************************************************)
EXTENDS Admission

CONSTANTS
    Forwards,       \* local connections
    Ports,          \* ports that are asked for
    Egress,         \* Egress.ports: those the server may dial
    MaxBytes        \* bound: bytes an application sends

ASSUME RelayAssumption ==
    /\ Egress \subseteq Ports
    /\ MaxBytes \in Nat

VARIABLES
    fwd,        \* forward -> what forward_one is doing; gone: ended early
    via,        \* forward -> the connection its stream is on
    port,       \* forward -> the port it asks for
    hnd,        \* forward -> what handle_stream is doing, or about to answer
    reply,      \* forward -> the answer that reaches the client
    target,     \* forward -> the server's connection to the port
    ends,       \* forward -> how far the ends of input have travelled
    put,        \* forward -> bytes the application has sent
    wrote,      \* forward -> of these, written to the stream by the client
    got         \* forward -> of these, written to the target by the server

copies == <<ends, put, wrote, got>>
relay == <<fwd, via, port, hnd, reply, target, copies>>
vars == <<admission, relay>>

Responses == {"ok", "denied", "unreachable"}
Nobody == <<>>

RelayTypeOK ==
    /\ TypeOK
    /\ fwd \in [Forwards -> {"idle", "asked", "relaying", "done", "gone"}]
    /\ via \in [Forwards -> Conns \cup {Nobody}]
    /\ \A f \in Forwards : via[f] = Nobody => fwd[f] = "idle" /\ hnd[f] = "none"
    /\ port \in [Forwards -> Ports]
    /\ hnd \in [Forwards -> {"none", "reading", "dialing", "relaying", "done", "gone"}
                            \cup Responses]
    /\ reply \in [Forwards -> Responses \cup {"none"}]
    /\ target \in [Forwards -> {"none", "open", "closed"}]
    /\ ends \in [Forwards -> SUBSET {"app", "sent", "passed", "target", "returned", "told"}]
    /\ put \in [Forwards -> 0..MaxBytes]
    /\ wrote \in [Forwards -> 0..MaxBytes]
    /\ got \in [Forwards -> 0..MaxBytes]
    /\ \A f \in Forwards : got[f] <= wrote[f] /\ wrote[f] <= put[f]

Init ==
    /\ AdmissionInit
    /\ fwd = [f \in Forwards |-> "idle"]
    /\ via = [f \in Forwards |-> Nobody]
    /\ port \in [Forwards -> Ports]
    /\ hnd = [f \in Forwards |-> "none"]
    /\ reply = [f \in Forwards |-> "none"]
    /\ target = [f \in Forwards |-> "none"]
    /\ ends = [f \in Forwards |-> {}]
    /\ put = [f \in Forwards |-> 0]
    /\ wrote = [f \in Forwards |-> 0]
    /\ got = [f \in Forwards |-> 0]

\* An end of the tunnel is gone: the driver on that side closes its streams.
ClientLost(f) == ~(dial[via[f][1]] = "up" /\ Conn(via[f][1]) = via[f])
ServerLost(f) == task[via[f]] # "tunnel"

\* The stream is closed under the client, or the server: its driver ended, or
\* the other end dropped the stream and the path lets that be known.  Reads
\* come to an end, writes fail, shutdown is a success without effect.
ClientCut(f) ==
    \/ ClientLost(f)
    \/ hnd[f] \in {"done", "gone"} /\ "returned" \notin ends[f] /\ via[f] \notin dead
ServerCut(f) ==
    \/ ServerLost(f)
    \/ fwd[f] \in {"done", "gone"} /\ "sent" \notin ends[f] /\ via[f] \notin dead

FwdState(f, state) == fwd' = [fwd EXCEPT ![f] = state]
HndState(f, state) == hnd' = [hnd EXCEPT ![f] = state]
End(f, mark) == mark \notin ends[f] /\ ends' = [ends EXCEPT ![f] = @ \cup {mark}]

\* The handler returns early: it drops its stream and its target.
HandlerGone(f) ==
    /\ HndState(f, "gone")
    /\ target' = [target EXCEPT ![f] = IF @ = "open" THEN "closed" ELSE @]

----------------------------------------------------------------------------
(* forward_one: ask, within CONNECT_EXCHANGE_TIMEOUT *)

\* The pool yields a stream of a live tunnel; the request is written to it.
Ask(f) ==
    /\ fwd[f] = "idle"
    /\ \E c \in Clients : dial[c] = "up" /\ via' = [via EXCEPT ![f] = Conn(c)]
    /\ FwdState(f, "asked")
    /\ UNCHANGED <<port, hnd, reply, target, copies>>

ReadAnswer(f) ==
    /\ fwd[f] = "asked"
    /\ reply[f] # "none"
    /\ FwdState(f, IF reply[f] = "ok" THEN "relaying" ELSE "gone")
    /\ UNCHANGED <<via, port, hnd, reply, target, copies>>

\* The stream ends before an answer was read.
AnswerLost(f) ==
    /\ fwd[f] = "asked"
    /\ ClientCut(f)
    /\ reply[f] = "none" \/ ClientLost(f)
    /\ FwdState(f, "gone")
    /\ UNCHANGED <<via, port, hnd, reply, target, copies>>

ExchangeTimeout(f) ==
    /\ fwd[f] = "asked"
    /\ FwdState(f, "gone")
    /\ UNCHANGED <<via, port, hnd, reply, target, copies>>

----------------------------------------------------------------------------
(* handle_stream: read the request, dial the target, answer *)

\* The driver hands the stream to the accept loop, which spawns a handler.
Spawn(f) ==
    /\ fwd[f] # "idle"
    /\ hnd[f] = "none"
    /\ ~ServerLost(f)
    /\ via[f] \notin dead
    /\ HndState(f, "reading")
    /\ UNCHANGED <<fwd, via, port, reply, target, copies>>

\* Defect: the port is not looked up in the egress list.
ReadRequest_AnyPort(f) ==
    /\ hnd[f] = "reading"
    /\ via[f] \notin dead
    /\ HndState(f, "dialing")
    /\ UNCHANGED <<fwd, via, port, reply, target, copies>>

ReadRequest(f) ==
    /\ hnd[f] = "reading"
    /\ via[f] \notin dead
    /\ HndState(f, IF port[f] \in Egress THEN "dialing" ELSE "denied")
    /\ UNCHANGED <<fwd, via, port, reply, target, copies>>

RequestCut(f) ==
    /\ hnd[f] = "reading"
    /\ ServerCut(f)
    /\ HandlerGone(f)
    /\ UNCHANGED <<fwd, via, port, reply, copies>>

TargetAccepts(f) ==
    /\ hnd[f] = "dialing"
    /\ target' = [target EXCEPT ![f] = "open"]
    /\ HndState(f, "ok")
    /\ UNCHANGED <<fwd, via, port, reply, copies>>

TargetRefuses(f) ==
    /\ hnd[f] = "dialing"
    /\ HndState(f, "unreachable")
    /\ UNCHANGED <<fwd, via, port, reply, target, copies>>

\* Defect: the answer to a refused dial is the one to an accepted one.
Reply_AlwaysOk(f) ==
    /\ hnd[f] \in Responses
    /\ ~ServerLost(f)
    /\ reply' = [reply EXCEPT ![f] = IF via[f] \in dead THEN @ ELSE "ok"]
    /\ HndState(f, IF hnd[f] = "ok" THEN "relaying" ELSE "gone")
    /\ UNCHANGED <<fwd, via, port, target, copies>>

\* The answer is written; on a dead path it never arrives.
Reply(f) ==
    /\ hnd[f] \in Responses
    /\ ~ServerLost(f)
    /\ reply' = [reply EXCEPT ![f] = IF via[f] \in dead THEN @ ELSE hnd[f]]
    /\ HndState(f, IF hnd[f] = "ok" THEN "relaying" ELSE "gone")
    /\ UNCHANGED <<fwd, via, port, target, copies>>

ReplyFails(f) ==
    /\ hnd[f] \in Responses
    /\ ServerCut(f)
    /\ HandlerGone(f)
    /\ UNCHANGED <<fwd, via, port, reply, copies>>

----------------------------------------------------------------------------
(* copy_bidirectional at the client *)

AppSends(f) ==
    /\ fwd[f] \in {"asked", "relaying"}
    /\ "app" \notin ends[f]
    /\ put[f] < MaxBytes
    /\ put' = [put EXCEPT ![f] = @ + 1]
    /\ UNCHANGED <<fwd, via, port, hnd, reply, target, ends, wrote, got>>

AppEnds(f) ==
    /\ fwd[f] \in {"asked", "relaying"}
    /\ End(f, "app")
    /\ UNCHANGED <<fwd, via, port, hnd, reply, target, put, wrote, got>>

ClientCopies(f) ==
    /\ fwd[f] = "relaying"
    /\ wrote[f] < put[f]
    /\ ~ClientCut(f)
    /\ wrote' = [wrote EXCEPT ![f] = @ + 1]
    /\ UNCHANGED <<fwd, via, port, hnd, reply, target, ends, put, got>>

\* The application's input has ended and all of it was copied.
ClientEnds(f) ==
    /\ fwd[f] = "relaying"
    /\ "app" \in ends[f]
    /\ wrote[f] = put[f]
    /\ End(f, "sent")
    /\ UNCHANGED <<fwd, via, port, hnd, reply, target, put, wrote, got>>

\* The stream's input has ended; the application is told.
ClientTells(f) ==
    /\ fwd[f] = "relaying"
    /\ \/ ClientCut(f)
       \/ "returned" \in ends[f] /\ via[f] \notin dead
    /\ End(f, "told")
    /\ UNCHANGED <<fwd, via, port, hnd, reply, target, put, wrote, got>>

\* Defect: the relay is over with the first direction that ends.
ClientDone_EitherEnd(f) ==
    /\ fwd[f] = "relaying"
    /\ ends[f] \cap {"sent", "told"} # {}
    /\ FwdState(f, "done")
    /\ UNCHANGED <<via, port, hnd, reply, target, copies>>

ClientDone(f) ==
    /\ fwd[f] = "relaying"
    /\ {"sent", "told"} \subseteq ends[f]
    /\ FwdState(f, "done")
    /\ UNCHANGED <<via, port, hnd, reply, target, copies>>

\* A write to the closed stream.
ClientWriteFails(f) ==
    /\ fwd[f] = "relaying"
    /\ wrote[f] < put[f]
    /\ ClientCut(f)
    /\ FwdState(f, "gone")
    /\ UNCHANGED <<via, port, hnd, reply, target, copies>>

\* The application's connection is reset.
AppResets(f) ==
    /\ fwd[f] = "relaying"
    /\ FwdState(f, "gone")
    /\ UNCHANGED <<via, port, hnd, reply, target, copies>>

----------------------------------------------------------------------------
(* copy_bidirectional at the server *)

\* Defect: a write to the target is repeated after it was taken.
HandlerCopies_Again(f) ==
    /\ hnd[f] = "relaying"
    /\ got[f] <= wrote[f]
    /\ via[f] \notin dead
    /\ got' = [got EXCEPT ![f] = @ + 1]
    /\ UNCHANGED <<fwd, via, port, hnd, reply, target, ends, put, wrote>>

HandlerCopies(f) ==
    /\ hnd[f] = "relaying"
    /\ got[f] < wrote[f]
    /\ via[f] \notin dead
    /\ got' = [got EXCEPT ![f] = @ + 1]
    /\ UNCHANGED <<fwd, via, port, hnd, reply, target, ends, put, wrote>>

\* Defect: only the client's orderly end of input is passed on.
HandlerEnds_OrderlyOnly(f) ==
    /\ hnd[f] = "relaying"
    /\ "sent" \in ends[f] /\ got[f] = wrote[f] /\ via[f] \notin dead
    /\ End(f, "passed")
    /\ UNCHANGED <<fwd, via, port, hnd, reply, target, put, wrote, got>>

\* The stream's input has ended, by the client's will or with the tunnel.
HandlerEnds(f) ==
    /\ hnd[f] = "relaying"
    /\ \/ ServerCut(f)
       \/ "sent" \in ends[f] /\ got[f] = wrote[f] /\ via[f] \notin dead
    /\ End(f, "passed")
    /\ UNCHANGED <<fwd, via, port, hnd, reply, target, put, wrote, got>>

TargetEnds(f) ==
    /\ target[f] = "open"
    /\ End(f, "target")
    /\ UNCHANGED <<fwd, via, port, hnd, reply, target, put, wrote, got>>

HandlerReturns(f) ==
    /\ hnd[f] = "relaying"
    /\ "target" \in ends[f]
    /\ End(f, "returned")
    /\ UNCHANGED <<fwd, via, port, hnd, reply, target, put, wrote, got>>

HandlerDone(f) ==
    /\ hnd[f] = "relaying"
    /\ {"passed", "returned"} \subseteq ends[f]
    /\ HndState(f, "done")
    /\ target' = [target EXCEPT ![f] = "closed"]
    /\ UNCHANGED <<fwd, via, port, reply, copies>>

\* The target resets its connection, or sends something that the closed
\* stream does not take.
HandlerFails(f) ==
    /\ hnd[f] = "relaying"
    /\ HandlerGone(f)
    /\ UNCHANGED <<fwd, via, port, reply, copies>>

----------------------------------------------------------------------------
Forwarding(f) ==
    \/ ReadAnswer(f) \/ AnswerLost(f) \/ ExchangeTimeout(f)
    \/ ClientCopies(f) \/ ClientEnds(f) \/ ClientTells(f) \/ ClientDone(f)
    \/ ClientWriteFails(f)

Handling(f) ==
    \/ Spawn(f) \/ ReadRequest(f) \/ RequestCut(f) \/ Reply(f) \/ ReplyFails(f)
    \/ HandlerCopies(f) \/ HandlerEnds(f) \/ HandlerReturns(f) \/ HandlerDone(f)

RelayStep ==
    \E f \in Forwards :
        \/ Ask(f) \/ AppSends(f) \/ AppEnds(f) \/ AppResets(f) \/ Forwarding(f)
        \/ TargetAccepts(f) \/ TargetRefuses(f) \/ TargetEnds(f) \/ HandlerFails(f)
        \/ Handling(f)

Next ==
    \/ AdmissionStep /\ UNCHANGED relay
    \/ RelayStep /\ UNCHANGED admission

Spec == Init /\ [][Next]_vars

\* The runtimes run every task that can run and their timers fire; the kernel
\* gives up a connect and a keepalive that stay unanswered.  An application
\* and a target end their side once they are told that the other has ended.
\* A party that replays messages does as it likes.
\* Nothing makes a path die, a connection fail, a target answer a dial, the
\* gate open or close, or an application send.
FairSpec ==
    /\ Spec
    /\ \A c \in Clients : WF_vars(~Replays(c) /\ Dialing(c) /\ UNCHANGED relay)
    /\ \A k \in Conns : WF_vars(Serving(k) /\ UNCHANGED relay)
    /\ \A f \in Forwards :
          /\ WF_vars(Forwarding(f) /\ UNCHANGED admission)
          /\ WF_vars(Handling(f) /\ UNCHANGED admission)
          /\ WF_vars("told" \in ends[f] /\ AppEnds(f) /\ UNCHANGED admission)
          /\ WF_vars("passed" \in ends[f] /\ TargetEnds(f) /\ UNCHANGED admission)

----------------------------------------------------------------------------
(* Properties. *)

\* ARCHITECTURE.md: "the server dials only its own loopback on the explicitly
\* listed ports".  What handle_stream dials was listed, and was asked for on
\* the tunnel of a client with all three credentials.
DialsPermittedOnly ==
    \A f \in Forwards : target[f] # "none" =>
        port[f] \in Egress /\ holds[via[f][1]] = Credentials

\* What forward_one takes for a connection is one: it relays only after the
\* server has reached the target, whatever answers were lost or late.
RelaysWhatIsConnected ==
    \A f \in Forwards : fwd[f] = "relaying" => target[f] # "none"

\* Half-closed connections: while the tunnel stands and neither relay broke
\* off, a target sees the end of its input only after the application ended
\* its own and every byte of it has come through; and the application sees
\* the end only after the target ended.  (When the tunnel breaks, a
\* truncated transfer does look like an orderly one.)
EndsAreReal ==
    \A f \in Forwards :
        /\ "passed" \in ends[f] /\ ~ServerLost(f) /\ fwd[f] # "gone" =>
              "app" \in ends[f] /\ got[f] = put[f]
        /\ "told" \in ends[f] /\ ~ClientLost(f) /\ hnd[f] # "gone" =>
              "target" \in ends[f]

\* Handlers are detached from the driver of their tunnel.  Still none is left
\* behind with an open target once its stream is closed (unless the path died
\* and the server has not noticed), nor a forward with its local connection.
RelaysEnd ==
    \A f \in Forwards :
        /\ (hnd[f] \in Responses \cup {"relaying"} /\ ServerCut(f))
              ~> \/ hnd[f] \in {"done", "gone"} /\ target[f] # "open"
                 \/ via[f] \in dead /\ ~ServerLost(f)
        /\ (fwd[f] = "relaying" /\ ClientCut(f)) ~> fwd[f] # "relaying"

====
