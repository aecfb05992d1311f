---- MODULE PolicyRoutes ----
(***************************************************************************)
(* The routing of the real-address TUN mode (client/src/routes.rs): the    *)
(* shell script that print-routes emits, run by sh -e against the kernel's *)
(* policy rules and routing table, beside a client (tunmode.rs) that comes *)
(* and goes with its device, and a configuration that is edited.  IPv4.    *)
(***************************************************************************)
EXTENDS Naturals, SequencesExt

CONSTANTS
    Entries,    \* [[server]] sections
    Ips         \* addresses of servers

ASSUME PolicyAssumption == IsFiniteSet(Entries)

VARIABLES
    real,       \* section -> its address, for the sections that are there
    device,     \* is the TUN device there?
    table,      \* addresses with a route via the device in our table
    rules,      \* addresses with a rule that looks up our table
    script,     \* the script that was started last
    todo,       \* its commands still to be run
    exit,       \* how it ended, or running
    lost        \* history: did the device go away since the script began?

policy == <<real, device, table, rules, script, todo, exit, lost>>

PolicyInit ==
    /\ real = <<>>
    /\ device = FALSE
    /\ table = {} /\ rules = {}
    /\ script = "none" /\ todo = <<>> /\ exit = "none"
    /\ lost = FALSE

----------------------------------------------------------------------------
(* print-routes: the servers in the order of a hash map *)

Cmd(op, on, ip) == [op |-> op, on |-> on, ip |-> ip]

\* Two commands for each server in turn.
Script(down, order) ==
    [k \in 1..(2 * Len(order)) |->
        LET ip == real[order[(k + 1) \div 2]]
            first == k % 2 = 1
        IN  Cmd(IF down THEN "del" ELSE "add",
                IF first = down THEN "rule" ELSE "route", ip)]

Start(down) ==
    /\ exit # "running"
    /\ \E order \in SetToSeqs(DOMAIN real) : todo' = Script(down, order)
    /\ script' = IF down THEN "down" ELSE "up"
    /\ exit' = "running"
    /\ lost' = FALSE
    /\ UNCHANGED <<real, device, table, rules>>

\* ip refuses to add what is there and to delete what is not, and routes need
\* their device.
Succeeds(c) ==
    LET present == c.ip \in (IF c.on = "rule" THEN rules ELSE table)
    IN  present = (c.op = "del") /\ (c.on = "route" => device)

Change(set, op, ip) == IF op = "add" THEN set \cup {ip} ELSE set \ {ip}

Run(c) ==
    /\ table' = IF c.on = "route" THEN Change(table, c.op, c.ip) ELSE table
    /\ rules' = IF c.on = "rule" THEN Change(rules, c.op, c.ip) ELSE rules

\* Defect: the script lacks set -e.
Command_NoSetE ==
    /\ todo # <<>>
    /\ todo' = Tail(todo)
    /\ IF Succeeds(Head(todo)) THEN Run(Head(todo)) ELSE UNCHANGED <<table, rules>>
    /\ UNCHANGED <<real, device, script, exit, lost>>

\* set -e: the first command that fails ends the script.
Command ==
    /\ todo # <<>>
    /\ IF Succeeds(Head(todo))
       THEN Run(Head(todo)) /\ todo' = Tail(todo) /\ UNCHANGED exit
       ELSE todo' = <<>> /\ exit' = "failed" /\ UNCHANGED <<table, rules>>
    /\ UNCHANGED <<real, device, script, lost>>

Finish ==
    /\ exit = "running" /\ todo = <<>>
    /\ exit' = "ok"
    /\ UNCHANGED <<real, device, table, rules, script, todo, lost>>

----------------------------------------------------------------------------
(* The client in TUN mode, and the operator. *)

TunUp ==
    /\ ~device
    /\ DOMAIN real # {}
    /\ device' = TRUE
    /\ UNCHANGED <<real, table, rules, script, todo, exit, lost>>

\* The process ends; the kernel removes the device and all routes via it, and
\* leaves the rules.
TunDown ==
    /\ device
    /\ device' = FALSE
    /\ table' = {}
    /\ lost' = TRUE
    /\ UNCHANGED <<real, rules, script, todo, exit>>

\* The configuration changes; what the last script did no longer counts.
Edit ==
    /\ exit # "running"
    /\ \E S \in SUBSET Entries : real' \in [S -> Ips]
    /\ exit' = "none"
    /\ UNCHANGED <<device, table, rules, script, todo, lost>>

PolicyScript == (\E down \in BOOLEAN : Start(down)) \/ Command \/ Finish
PolicyNext == PolicyScript \/ TunUp \/ TunDown \/ Edit

PolicySpec == PolicyInit /\ [][PolicyNext]_policy

\* Nothing disturbs a script, and the configuration stays what the first one
\* was printed from.
QuietPolicySpec ==
    /\ PolicyInit
    /\ [][ \/ PolicyScript
           \/ exit # "running" /\ (TunUp \/ TunDown \/ (script = "none" /\ Edit)) ]_policy

----------------------------------------------------------------------------
(* Properties. *)

\* A script that reports success did all of its work, whatever was there
\* before it, in whichever order it took the servers, and although the client
\* may end while it runs: after up every server address has its rule, and its
\* route as long as the device stayed; after down none has either.
SuccessIsComplete ==
    exit = "ok" =>
        \A e \in DOMAIN real :
            /\ script = "up" => real[e] \in rules /\ (lost \/ real[e] \in table)
            /\ script = "down" => real[e] \notin rules \cup table

\* README.md: "tear down later: hyperion-client print-routes ... --down | sudo
\* sh".  Once the teardown has ended no server address is left with a rule.
TearsDown ==
    script = "down" /\ exit \in {"ok", "failed"} =>
        \A e \in DOMAIN real : real[e] \notin rules

====
