---- MODULE FakeIps ----
(***************************************************************************)
(* The client's configuration file as the table of servers and their fake  *)
(* addresses (client/src/config.rs), the add-server and rm-server commands *)
(* that change it, the operator's own editor, and the table the running    *)
(* daemon loaded (client/src/tunmode.rs).                                  *)
(*                                                                         *)
(* A command reads the file, computes the new one and writes it; writing   *)
(* truncates the file first, and nothing locks it; a write that is cut off *)
(* may leave a file that parses and has less in it.  An address is its     *)
(* offset from the first of the TUN subnet.                                *)
(***************************************************************************)
EXTENDS Integers, Sequences, FiniteSets

CONSTANTS
    Names,      \* server names
    HostCount,  \* 2 ^ (32 - prefix)
    FirstHost,  \* VIRTUAL_HOST_START
    TunHost,    \* the host number of the TUN device itself
    Outside,    \* addresses behind the TUN subnet that an operator may pin
    Clis,       \* terminals that run add-server and rm-server
    MaxEdits    \* bound: sections the operator writes by hand

ASSUME FakeIpsAssumption ==
    /\ HostCount \in Nat \ {0} /\ FirstHost \in Nat /\ TunHost \in 0..(HostCount - 1)
    /\ Outside \subseteq Nat /\ Outside \cap 0..(HostCount - 1) = {}
    /\ MaxEdits \in Nat

VARIABLES
    file,       \* the [[server]] sections
    forwards,   \* servers that [[forward]] sections name
    torn,       \* is the file truncated, to be written in full by a command?
    routes,     \* pairs <<name, address>> of the running daemon, {} when down
    cli,        \* terminal -> how its last command ended, or how far it is
    plan,       \* terminal -> what its command is about to write
    edits,      \* sections written by hand so far
    told        \* history: name -> address add-server printed, or None;
                \* None again when the server is removed, or lost in a cut write

vars == <<file, forwards, torn, routes, cli, plan, edits, told>>

Addrs == 0..(HostCount - 1)
\* What virtual_ip may name: any address, of the subnet or not.
Pins == Addrs \cup Outside
\* What is not a host number.
Absent == -1        \* no virtual_ip in the section
Bad == -2           \* a virtual_ip that does not parse
None == -3
NoName == "none"

Sections == [name : Names, vip : Pins \cup {Absent, Bad}]
Plans == [file : Seq(Sections), forwards : SUBSET Names,
          name : Names, vip : Addrs \cup {None}]
NoPlan == [file |-> <<>>, forwards |-> {}, name |-> NoName, vip |-> None]

TypeOK ==
    /\ file \in Seq(Sections)
    /\ forwards \subseteq Names
    /\ torn \in BOOLEAN
    /\ routes \subseteq Names \X Pins
    /\ cli \in [Clis -> {"ok", "failed", "planned", "writing"}]
    /\ plan \in [Clis -> Plans \cup {NoPlan}]
    /\ edits \in 0..MaxEdits
    /\ told \in [Names -> Addrs \cup {None}]

----------------------------------------------------------------------------
(* Assignment and resolution of addresses. *)

\* Defect: the range of hosts ends two too late.
Candidates_Inclusive == {h \in FirstHost..HostCount : h # TunHost}

\* Hosts assign_virtual_ip tries: not the device, not the broadcast address.
Candidates == {h \in FirstHost..(HostCount - 2) : h # TunHost}

\* Defect: the first candidate, used or not.
Assigned_Blind(used) == {h \in Candidates : \A g \in Candidates : h <= g}

\* assign_virtual_ip: the first candidate not used, if there is one.
Assigned(used) ==
    {h \in Candidates \ used : \A g \in Candidates \ used : h <= g}

NamesIn(f) == {f[i].name : i \in DOMAIN f}
Pinned(f) == {f[i].vip : i \in DOMAIN f} \ {Absent, Bad}
AutoAt(f, i) == f[i].vip = Absent

\* Defect: an address assigned at load is not marked as used.
UsedUpTo_Forgotten(f, i) == Pinned(f)

\* The addresses used when resolve_virtual_ips has seen the first i sections.
UsedUpTo(f, i) ==
    LET used[k \in 0..Len(f)] ==
          IF k = 0 THEN Pinned(f)
          ELSE IF AutoAt(f, k) THEN used[k - 1] \cup Assigned(used[k - 1])
          ELSE used[k - 1]
    IN  used[i]

\* Defect: two sections may pin one address.
Resolves_Duplicates(f) ==
    /\ \A i \in DOMAIN f : f[i].vip # Bad
    /\ \A i \in DOMAIN f : AutoAt(f, i) => Assigned(UsedUpTo(f, i - 1)) # {}

\* resolve_virtual_ips fails on an address that does not parse, on two
\* sections with one address, and when it runs out of addresses.
Resolves(f) ==
    /\ \A i \in DOMAIN f : f[i].vip # Bad
    /\ \A i, j \in DOMAIN f : f[i].vip = f[j].vip /\ ~AutoAt(f, i) => i = j
    /\ \A i \in DOMAIN f : AutoAt(f, i) => Assigned(UsedUpTo(f, i - 1)) # {}

Resolved(f) ==
    [i \in DOMAIN f |->
        IF AutoAt(f, i) THEN CHOOSE h \in Assigned(UsedUpTo(f, i - 1)) : TRUE
        ELSE f[i].vip]

\* load: names are unique and forwards name servers there are.
Loads(f) ==
    /\ \A i, j \in DOMAIN f : f[i].name = f[j].name => i = j
    /\ forwards \subseteq NamesIn(f)
    /\ Resolves(f)

Table(f) == {<<f[i].name, Resolved(f)[i]>> : i \in DOMAIN f}

----------------------------------------------------------------------------
\* init writes a file without servers.
Init ==
    /\ file = <<>>
    /\ forwards = {}
    /\ torn = FALSE
    /\ routes = {}
    /\ cli = [c \in Clis |-> "ok"]
    /\ plan = [c \in Clis |-> NoPlan]
    /\ edits = 0
    /\ told = [n \in Names |-> None]

CanStart(c) == cli[c] \in {"ok", "failed"}

\* The file does not parse, the name is taken, or no address is free.
AddFailed(c, n) ==
    /\ CanStart(c)
    /\ torn \/ n \in NamesIn(file) \/ Assigned(Pinned(file)) = {}
    /\ cli' = [cli EXCEPT ![c] = "failed"]
    /\ UNCHANGED <<file, forwards, torn, routes, plan, edits, told>>

\* Defect: the address is printed but not written down.
AddPlanned_Unpinned(c, n) ==
    /\ CanStart(c)
    /\ ~torn
    /\ n \notin NamesIn(file)
    /\ \E h \in Assigned(Pinned(file)) :
          plan' = [plan EXCEPT ![c] =
                     [file |-> Append(file, [name |-> n, vip |-> Absent]),
                      forwards |-> forwards, name |-> n, vip |-> h]]
    /\ cli' = [cli EXCEPT ![c] = "planned"]
    /\ UNCHANGED <<file, forwards, torn, routes, edits, told>>

\* add_server up to write_file.  Only pinned addresses count as used.
AddPlanned(c, n) ==
    /\ CanStart(c)
    /\ ~torn
    /\ n \notin NamesIn(file)
    /\ \E h \in Assigned(Pinned(file)) :
          plan' = [plan EXCEPT ![c] =
                     [file |-> Append(file, [name |-> n, vip |-> h]),
                      forwards |-> forwards, name |-> n, vip |-> h]]
    /\ cli' = [cli EXCEPT ![c] = "planned"]
    /\ UNCHANGED <<file, forwards, torn, routes, edits, told>>

\* The sections that remove_server leaves, in their order.
Without(f, n) ==
    LET kept[k \in 0..Len(f)] ==
          IF k = 0 THEN <<>>
          ELSE IF f[k].name = n THEN kept[k - 1] ELSE Append(kept[k - 1], f[k])
    IN  kept[Len(f)]

\* The file does not parse, or there is no such server.
RemoveFailed(c, n) ==
    /\ CanStart(c)
    /\ torn \/ n \notin NamesIn(file)
    /\ cli' = [cli EXCEPT ![c] = "failed"]
    /\ UNCHANGED <<file, forwards, torn, routes, plan, edits, told>>

\* remove_server up to write_file.  Sections of that name go; forwards stay.
RemovePlanned(c, n) ==
    /\ CanStart(c)
    /\ ~torn
    /\ n \in NamesIn(file)
    /\ plan' = [plan EXCEPT ![c] =
                   [file |-> Without(file, n), forwards |-> forwards,
                    name |-> n, vip |-> None]]
    /\ cli' = [cli EXCEPT ![c] = "planned"]
    /\ UNCHANGED <<file, forwards, torn, routes, edits, told>>

\* fs::write opens the file with truncation.
Truncate(c) ==
    /\ cli[c] = "planned"
    /\ torn' = TRUE
    /\ cli' = [cli EXCEPT ![c] = "writing"]
    /\ UNCHANGED <<file, forwards, routes, plan, edits, told>>

\* The contents follow, and the command prints what it did.
Fill(c) ==
    /\ cli[c] = "writing"
    /\ file' = plan[c].file
    /\ forwards' = plan[c].forwards
    /\ torn' = FALSE
    /\ told' = [told EXCEPT ![plan[c].name] = plan[c].vip]
    /\ cli' = [cli EXCEPT ![c] = "ok"]
    /\ plan' = [plan EXCEPT ![c] = NoPlan]
    /\ UNCHANGED <<routes, edits>>

\* What a part of a file may still parse to: its first sections, of which the
\* last may have been cut off behind its key and before its virtual_ip.
Readable(f) ==
    {SubSeq(f, 1, k) : k \in 0..Len(f)}
    \cup {[SubSeq(f, 1, k) EXCEPT ![k].vip = Absent] : k \in 1..Len(f)}

Has(f, n, h) == \E i \in DOMAIN f : f[i] = [name |-> n, vip |-> h]

\* The command is interrupted, or the disk is full, where what was written
\* parses.  The forwards are written behind all of the sections.
Cut(c) ==
    /\ cli[c] = "writing"
    /\ file' \in Readable(plan[c].file)
    /\ forwards' \in SUBSET (IF file' = plan[c].file THEN plan[c].forwards ELSE {})
    /\ torn' = FALSE
    /\ told' = [n \in Names |-> IF Has(file', n, told[n]) THEN told[n] ELSE None]
    /\ cli' = [cli EXCEPT ![c] = "failed"]
    /\ plan' = [plan EXCEPT ![c] = NoPlan]
    /\ UNCHANGED <<routes, edits>>

\* It is interrupted before it writes, or where what was written does not parse.
Abort(c) ==
    /\ cli[c] \in {"planned", "writing"}
    /\ cli' = [cli EXCEPT ![c] = "failed"]
    /\ plan' = [plan EXCEPT ![c] = NoPlan]
    /\ UNCHANGED <<file, forwards, torn, routes, edits, told>>

\* The operator writes a section by hand, with or without virtual_ip.
EditServer(s) ==
    /\ edits < MaxEdits
    /\ ~torn
    /\ edits' = edits + 1
    /\ file' = Append(file, s)
    /\ UNCHANGED <<forwards, torn, routes, cli, plan, told>>

EditForward(n) ==
    /\ edits < MaxEdits
    /\ ~torn
    /\ edits' = edits + 1
    /\ forwards' = forwards \cup {n}
    /\ UNCHANGED <<file, torn, routes, cli, plan, told>>

\* The daemon starts: it loads the file, and never looks at it again.
Up ==
    /\ routes = {}
    /\ ~torn
    /\ file # <<>>
    /\ Loads(file)
    /\ routes' = Table(file)
    /\ UNCHANGED <<file, forwards, torn, cli, plan, edits, told>>

Down ==
    /\ routes # {}
    /\ routes' = {}
    /\ UNCHANGED <<file, forwards, torn, cli, plan, edits, told>>

Next ==
    \/ \E c \in Clis, n \in Names :
          \/ AddFailed(c, n) \/ AddPlanned(c, n)
          \/ RemoveFailed(c, n) \/ RemovePlanned(c, n)
    \/ \E c \in Clis : Truncate(c) \/ Fill(c) \/ Cut(c) \/ Abort(c)
    \/ \E s \in Sections : EditServer(s)
    \/ \E n \in Names : EditForward(n)
    \/ Up
    \/ Down

Spec == Init /\ [][Next]_vars

----------------------------------------------------------------------------
(* Properties. *)

\* The running daemon never has two servers at one address, nor one server at
\* two: HashMap::insert would silently replace a pool by another.
RoutesDistinct == \A p, q \in routes : p[1] = q[1] <=> p[2] = q[2]

\* README.md: "each gets a stable fake IP".  The address add-server printed is
\* the one every later load gives that server until it is removed, or until a
\* write that was cut off loses its section or its pin, whatever other commands
\* and the operator's sections do to the file meanwhile.
AddressesKept ==
    \A n \in Names :
        told[n] # None /\ ~torn /\ Loads(file) => <<n, told[n]>> \in Table(file)

\* A command that succeeds on a file that loads leaves a file that loads,
\* apart from what the code leaves to the operator: a forward that names a
\* removed server, and addresses left to be assigned at load.
KeepsLoadable ==
    [][(/\ \E c \in Clis : Fill(c)
        /\ Loads(file)
        /\ \A i \in DOMAIN file : ~AutoAt(file, i)
        /\ forwards' \subseteq NamesIn(file'))
            => Loads(file)']_vars

\* tests resolve_mixes_explicit_and_auto_ips, virtual_ip_assignment_is_
\* sequential_and_skips_used: the k-th section without an address gets the
\* k-th host that no section anywhere in the file pins.
SequentialAssignment ==
    \A i \in DOMAIN file : AutoAt(file, i) /\ Resolves(file) =>
        LET free == Candidates \ Pinned(file)
            h == Resolved(file)[i]
        IN  /\ h \in free
            /\ Cardinality({g \in free : g < h}) =
               Cardinality({k \in 1..(i - 1) : AutoAt(file, k)})

====
