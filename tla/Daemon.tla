---- MODULE Daemon ----
(***************************************************************************)
(* The background daemon and the commands that manage it: up and down      *)
(* (client/src/daemon.rs, server/src/daemon.rs), the pid file they share   *)
(* (cli-common/src/lib.rs), and the life of the process they start: its    *)
(* start, its serving loop and what a TERM signal does to it               *)
(* (server/src/serve.rs, client/src/tunmode.rs).  The model is of Linux.   *)
(*                                                                         *)
(* The client has no signal handler.  The server waits for TERM beside     *)
(* accept, with a receiver made afresh in every turn of its loop, and its  *)
(* runtime cannot be dropped while the blocking sniffer thread runs.       *)
(***************************************************************************)
EXTENDS Integers, FiniteSets

CONSTANTS
    Pids,       \* process ids; none is used twice
    Clis,       \* invocations of up and down
    MaxActive   \* how many invocations may run at a time

NoPid == "nopid"

ASSUME DaemonAssumption ==
    /\ IsFiniteSet(Clis)
    /\ MaxActive \in Nat \ {0}
    /\ NoPid \notin Pids

VARIABLES
    program,    \* which of the two programs all this is about
    knock,      \* is knock gating enabled in the configuration?
    ignores,    \* do the commands run with SIGCHLD ignored, as inherited?
    file,       \* the pid in the pid file, or NoPid
    port,       \* owner of the listening port (server) or TUN device (client)
    proc,       \* pid -> state of the process
    sniffing,   \* pid -> is its blocking sniffer thread in its loop?
    handler,    \* pid -> has it replaced the default action of TERM?
    heard,      \* pid -> has the present receiver seen a TERM?
    signalled,  \* history: pid -> was it ever sent a TERM?
    cli,        \* invocation -> how far it has come
    target      \* invocation -> the pid it spawned or read, or NoPid

processes == <<port, proc, sniffing, handler, heard, signalled>>
commands == <<file, cli, target>>
settings == <<program, knock, ignores>>
vars == <<settings, processes, commands>>

Active == {"checked", "spawned", "written", "read", "judged", "killed", "stale"}
Ended == {"refused", "up", "upfailed", "aborted", "nofile", "down", "downfailed",
          "cleaned"}

\* Types, and the owner of the port is a daemon in its serving loop.
TypeOK ==
    /\ program \in {"client", "server"}
    /\ knock \in BOOLEAN
    /\ ignores \in BOOLEAN
    /\ file \in Pids \cup {NoPid}
    /\ port \in Pids \cup {NoPid}
    /\ proc \in [Pids -> {"free", "starting", "binding", "serving", "accepting",
                          "leaving", "zombie", "gone"}]
    /\ sniffing \in [Pids -> BOOLEAN]
    /\ handler \in [Pids -> BOOLEAN]
    /\ heard \in [Pids -> BOOLEAN]
    /\ signalled \in [Pids -> BOOLEAN]
    /\ cli \in [Clis -> {"idle"} \cup Active \cup Ended]
    /\ target \in [Clis -> Pids \cup {NoPid}]
    /\ port # NoPid => proc[port] \in {"serving", "accepting"}

\* is_alive looks for /proc/<pid>, which a zombie still has.
Alive(p) == proc[p] \notin {"free", "zombie", "gone"}
HasProcEntry(p) == Alive(p) \/ proc[p] = "zombie"

\* running_pid: the file names a process that is_alive finds.
RunningPid == {p \in Pids : p = file /\ HasProcEntry(p)}

Init ==
    /\ program \in {"client", "server"}
    /\ knock \in {k \in BOOLEAN : k => program = "server"}
    /\ ignores \in BOOLEAN
    /\ file = NoPid
    /\ port = NoPid
    /\ proc = [p \in Pids |-> "free"]
    /\ sniffing = [p \in Pids |-> FALSE]
    /\ handler = [p \in Pids |-> FALSE]
    /\ heard = [p \in Pids |-> FALSE]
    /\ signalled = [p \in Pids |-> FALSE]
    /\ cli = [c \in Clis |-> "idle"]
    /\ target = [c \in Clis |-> NoPid]

----------------------------------------------------------------------------
(* The daemon process. *)

\* The configuration does not load.
LoadFailed(p) ==
    /\ proc[p] = "starting"
    /\ proc' = [proc EXCEPT ![p] = "leaving"]
    /\ UNCHANGED <<settings, commands, port, sniffing, handler, heard, signalled>>

\* The server starts the sniffer before it binds; the sniffer may find that it
\* cannot open its raw socket and return.
Loaded(p) ==
    /\ proc[p] = "starting"
    /\ proc' = [proc EXCEPT ![p] = "binding"]
    /\ \E works \in BOOLEAN :
          sniffing' = [sniffing EXCEPT ![p] = works /\ knock]
    /\ UNCHANGED <<settings, commands, port, handler, heard, signalled>>

\* The listener is bound, or the TUN device created.
BindOk(p) ==
    /\ proc[p] = "binding"
    /\ port = NoPid
    /\ port' = p
    /\ proc' = [proc EXCEPT ![p] = "serving"]
    /\ UNCHANGED <<settings, commands, sniffing, handler, heard, signalled>>

BindFailed(p) ==
    /\ proc[p] = "binding"
    /\ port # NoPid
    /\ proc' = [proc EXCEPT ![p] = "leaving"]
    /\ UNCHANGED <<settings, commands, port, sniffing, handler, heard, signalled>>

\* select! polls shutdown_signal for the first time, which installs the handler;
\* it may have come to the accept branch before.
Polls(p) ==
    /\ program = "server"
    /\ proc[p] = "serving"
    /\ ~handler[p]
    /\ handler' = [handler EXCEPT ![p] = TRUE]
    /\ UNCHANGED <<settings, commands, port, proc, sniffing, heard, signalled>>

\* select! takes the accept branch and drops the signal receiver, with the
\* TERM it may have seen.
Accepted(p) ==
    /\ program = "server"
    /\ proc[p] = "serving"
    /\ proc' = [proc EXCEPT ![p] = "accepting"]
    /\ heard' = [heard EXCEPT ![p] = FALSE]
    /\ UNCHANGED <<settings, commands, port, sniffing, handler, signalled>>

\* The loop comes round with a new receiver.
AcceptDone(p) ==
    /\ proc[p] = "accepting"
    /\ proc' = [proc EXCEPT ![p] = "serving"]
    /\ UNCHANGED <<settings, commands, port, sniffing, handler, heard, signalled>>

Shutdown_KeepsPort(p) ==
    /\ proc[p] = "serving"
    /\ heard[p]
    /\ proc' = [proc EXCEPT ![p] = "leaving"]
    /\ UNCHANGED <<settings, commands, port, sniffing, handler, heard, signalled>>

\* select! takes the signal branch: run returns and drops the listener.
Shutdown(p) ==
    /\ proc[p] = "serving"
    /\ heard[p]
    /\ proc' = [proc EXCEPT ![p] = "leaving"]
    /\ port' = NoPid
    /\ UNCHANGED <<settings, commands, sniffing, handler, heard, signalled>>

\* What an exit leaves: a zombie, unless SIGCHLD is ignored.
Remains == IF ignores THEN "gone" ELSE "zombie"

\* main has returned; the runtime waits for its blocking threads, then the
\* process exits.
Exit(p) ==
    /\ proc[p] = "leaving"
    /\ ~sniffing[p]
    /\ proc' = [proc EXCEPT ![p] = Remains]
    /\ UNCHANGED <<settings, commands, port, sniffing, handler, heard, signalled>>

\* An exited process is reaped once the up that spawned it is no more: up
\* itself never waits for its child.
Reap(p) ==
    /\ proc[p] = "zombie"
    /\ \A c \in Clis : cli[c] \in {"spawned", "written"} => target[c] # p
    /\ proc' = [proc EXCEPT ![p] = "gone"]
    /\ UNCHANGED <<settings, commands, port, sniffing, handler, heard, signalled>>

\* What a TERM does to p: the default action ends the process; a handler wakes
\* the present receiver, if there is one.
Terminate(p) ==
    /\ signalled' = [signalled EXCEPT ![p] = TRUE]
    /\ IF Alive(p) /\ ~handler[p]
       THEN /\ proc' = [proc EXCEPT ![p] = Remains]
            /\ sniffing' = [sniffing EXCEPT ![p] = FALSE]
            /\ port' = IF port = p THEN NoPid ELSE port
            /\ UNCHANGED heard
       ELSE /\ heard' = [heard EXCEPT ![p] = proc[p] = "serving"]
            /\ UNCHANGED <<proc, sniffing, port>>
    /\ UNCHANGED handler

----------------------------------------------------------------------------
(* up *)

Idle(c) ==
    /\ cli[c] = "idle"
    /\ Cardinality({d \in Clis : cli[d] \in Active}) < MaxActive

Enter(c, state) == cli' = [cli EXCEPT ![c] = state]

\* running_pid finds a live process of the right name: "already up".
UpRefused(c) ==
    /\ Idle(c)
    /\ RunningPid # {}
    /\ Enter(c, "refused")
    /\ UNCHANGED <<settings, processes, file, target>>

UpChecked_Unconditional(c) ==
    /\ Idle(c)
    /\ Enter(c, "checked")
    /\ UNCHANGED <<settings, processes, file, target>>

\* running_pid finds none; a passphrase prompt may follow.
UpChecked(c) ==
    /\ Idle(c)
    /\ RunningPid = {}
    /\ Enter(c, "checked")
    /\ UNCHANGED <<settings, processes, file, target>>

UpSpawn(c) ==
    /\ cli[c] = "checked"
    /\ \E p \in Pids :
          /\ proc[p] = "free"
          /\ proc' = [proc EXCEPT ![p] = "starting"]
          /\ target' = [target EXCEPT ![c] = p]
    /\ Enter(c, "spawned")
    /\ UNCHANGED <<settings, file, port, sniffing, handler, heard, signalled>>

UpWritePid(c) ==
    /\ cli[c] = "spawned"
    /\ file' = target[c]
    /\ Enter(c, "written")
    /\ UNCHANGED <<settings, processes, target>>

\* After 800 ms the child is still there, as far as is_alive can tell.
UpReports(c) ==
    /\ cli[c] = "written"
    /\ HasProcEntry(target[c])
    /\ Enter(c, "up")
    /\ UNCHANGED <<settings, processes, file, target>>

\* "daemon exited immediately": the pid file is removed, whatever it holds.
UpGivesUp(c) ==
    /\ cli[c] = "written"
    /\ ~HasProcEntry(target[c])
    /\ file' = NoPid
    /\ Enter(c, "upfailed")
    /\ UNCHANGED <<settings, processes, target>>

\* up is interrupted, or cannot write the pid file; its child, a process
\* group of its own, lives on.
UpAborted(c) ==
    /\ cli[c] \in {"checked", "spawned", "written"}
    /\ Enter(c, "aborted")
    /\ UNCHANGED <<settings, processes, file, target>>

----------------------------------------------------------------------------
(* down *)

DownNoFile(c) ==
    /\ Idle(c)
    /\ file = NoPid
    /\ Enter(c, "nofile")
    /\ UNCHANGED <<settings, processes, file, target>>

DownRead(c) ==
    /\ Idle(c)
    /\ file # NoPid
    /\ target' = [target EXCEPT ![c] = file]
    /\ Enter(c, "read")
    /\ UNCHANGED <<settings, processes, file>>

\* is_alive and process_name_matches agree that it runs.
DownJudged(c) ==
    /\ cli[c] = "read"
    /\ HasProcEntry(target[c])
    /\ Enter(c, "judged")
    /\ UNCHANGED <<settings, processes, file, target>>

DownKill_Unsent(c) ==
    /\ cli[c] = "judged"
    /\ Enter(c, "killed")
    /\ UNCHANGED <<settings, processes, file, target>>

\* With SIGCHLD ignored, waiting for kill(1) fails although it did its work:
\* down stops with an error.
DownKill(c) ==
    /\ cli[c] = "judged"
    /\ HasProcEntry(target[c])
    /\ Terminate(target[c])
    /\ Enter(c, IF ignores THEN "downfailed" ELSE "killed")
    /\ UNCHANGED <<settings, file, target>>

\* It has gone since: kill fails, and the pid file stays.
DownKillFailed(c) ==
    /\ cli[c] = "judged"
    /\ ~HasProcEntry(target[c])
    /\ Enter(c, "downfailed")
    /\ UNCHANGED <<settings, processes, file, target>>

DownStale(c) ==
    /\ cli[c] = "read"
    /\ ~HasProcEntry(target[c])
    /\ Enter(c, "stale")
    /\ UNCHANGED <<settings, processes, file, target>>

\* stop_daemon removes the pid file without waiting for the process, and
\* without another look at what the file holds.
DownRemove(c) ==
    /\ cli[c] \in {"killed", "stale"}
    /\ file' = NoPid
    /\ Enter(c, IF cli[c] = "killed" THEN "down" ELSE "cleaned")
    /\ UNCHANGED <<settings, processes, target>>

----------------------------------------------------------------------------
Process(p) ==
    \/ LoadFailed(p) \/ Loaded(p) \/ BindOk(p) \/ BindFailed(p)
    \/ Polls(p) \/ AcceptDone(p) \/ Shutdown(p) \/ Exit(p) \/ Reap(p)

Command(c) ==
    \/ UpSpawn(c) \/ UpWritePid(c) \/ UpReports(c) \/ UpGivesUp(c)
    \/ DownJudged(c) \/ DownKill(c) \/ DownKillFailed(c) \/ DownStale(c)
    \/ DownRemove(c)

Invoke(c) == UpRefused(c) \/ UpChecked(c) \/ DownNoFile(c) \/ DownRead(c)

Next ==
    \/ \E p \in Pids : Process(p) \/ Accepted(p)
    \/ \E c \in Clis : Command(c) \/ Invoke(c) \/ UpAborted(c)

Spec == Init /\ [][Next]_vars

\* Processes and commands that can go on do go on; nobody has to connect to
\* the server or to type a command.
FairSpec ==
    /\ Spec
    /\ \A p \in Pids : WF_vars(Process(p))
    /\ \A c \in Clis : WF_vars(Command(c))

\* The same while nobody connects to the server.
QuietSpec ==
    /\ Init
    /\ [][Next /\ \A p \in Pids : ~Accepted(p)]_vars
    /\ \A p \in Pids : WF_vars(Process(p))
    /\ \A c \in Clis : WF_vars(Command(c))

----------------------------------------------------------------------------
(* Properties. *)

\* When no command is under way and none was interrupted, a daemon that holds
\* the port, or is about to ask for it, is the one the pid file names, unless
\* it has been told to stop: up and down do not lose track of a daemon.
Tracked ==
    (\A c \in Clis : cli[c] \notin Active \cup {"aborted"}) =>
        \A p \in Pids :
            proc[p] \in {"starting", "binding", "serving", "accepting"}
                => file = p \/ signalled[p]

\* "hyperion down (stopped pid ..)" is true of the client: the process it
\* names does go away.
ClientStops ==
    \A c \in Clis, p \in Pids :
        (program = "client" /\ cli[c] = "down" /\ target[c] = p) ~> proc[p] = "gone"

\* The same sentence of the server: "down (stopped pid ..)".
StoppedMeansGone ==
    \A c \in Clis, p \in Pids : (cli[c] = "down" /\ target[c] = p) ~> proc[p] = "gone"

\* "daemon exited immediately": up does not report a daemon up that has
\* already exited.
UpMeansRunning ==
    [][\A c \in Clis : (cli[c] = "written" /\ cli'[c] = "up") => Alive(target[c])]_vars

====
