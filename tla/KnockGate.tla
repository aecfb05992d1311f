---- MODULE KnockGate ----
(***************************************************************************)
(* The server side of single packet authorisation: the knock verifier with *)
(* its replay cache (core/src/knock.rs), the sniffer loop with its per     *)
(* source cooldown (server/src/sniffer.rs) and the nftables set the loop   *)
(* feeds through the nft command (server/src/firewall.rs).                 *)
(*                                                                         *)
(* The sniffer is one blocking thread.  One iteration is two steps here:   *)
(* a Sniff step, from recv to the decision, and, when the decision is to   *)
(* open the port, an Allow step for the nft process that then runs while   *)
(* the clock moves on.  Datagrams are never removed from the network: one  *)
(* that is delivered twice is a duplicate, one that never is was lost, and *)
(* one that is delivered late was delayed.  Nothing in a knock names the   *)
(* address it comes from, and nothing else authenticates that address: a   *)
(* datagram may be delivered from any of them, the sealer's own or that of *)
(* someone on the path (THREAT_MODEL.md:37).                               *)
(***************************************************************************)
EXTENDS Integers, FiniteSets

CONSTANTS
    Src,            \* source addresses datagrams arrive from
    Nonces,         \* 96-bit AEAD nonces; seal never draws one twice
    Window,         \* window_secs: freshness window, also the cache retention
    Ttl,            \* ttl_secs: timeout of an element of the nftables set
    ReplayCap,      \* REPLAY_CAP: entries of the replay cache
    RecentCap,      \* RECENT_ALLOW_CAP: size at which recent_allows is pruned
    MaxTime,        \* bound: the server's clock stops here
    MaxAhead,       \* how far a client's clock may run ahead of the server's
    MaxBehind,      \* how far a client's clock may run behind the server's
    MaxRestarts,    \* bound: restarts of the server process
    MaxSteps,       \* bound: jumps of the server's wall clock
    NftRefreshes    \* does "add element" restart the timer of a live element?

ASSUME GateAssumption ==
    /\ IsFiniteSet(Nonces)
    /\ Window \in Nat
    /\ Ttl \in Nat \ {0}
    /\ ReplayCap \in Nat
    /\ RecentCap \in Nat
    /\ MaxTime \in Nat
    /\ MaxAhead \in Nat
    /\ MaxBehind \in Nat
    /\ MaxRestarts \in Nat
    /\ MaxSteps \in Nat
    /\ NftRefreshes \in BOOLEAN

\* serve.rs: (ttl_secs / 2).max(1)
Cooldown == IF Ttl \div 2 > 1 THEN Ttl \div 2 ELSE 1

VARIABLES
    now,        \* the server's wall clock, in seconds
    net,        \* every datagram ever sent to the knock port
    seen,       \* ReplayGuard.seen: nonce -> time recorded, or NoTime
    recent,     \* recent_allows: source -> time of its last allow, or NoTime
    pending,    \* the nft call the sniffer waits for, or NoAllow
    fw,         \* seconds left of the set element of a source, 0 when absent
    restarts,   \* restarts of the server process so far
    steps,      \* jumps of the wall clock so far
    total,      \* history: acceptances of a nonce by the verifier, ever
    count,      \* history: acceptances of a nonce since the last restart
    last,       \* history: time of the last of those, or NoTime
    granted,    \* history: sniff time of a source's last allow since restart
    timed       \* history: when the timer of a source's element was last started

histories == <<total, count, last, granted, timed>>
vars == <<now, net, seen, recent, pending, fw, restarts, steps, histories>>

NoTime == -1
Times == Nat \cup {NoTime}

\* What a datagram of knock length is to this server: sealed for its tunnel
\* port, sealed for another port, or sealed for another server (which fails
\* to decrypt, like any garbage: wrong length, magic, key or version).
Kinds == {"good", "otherport", "foreign"}

Datagrams == [nonce : Nonces, ts : Nat, kind : Kinds]
Allows == [nonce : Nonces, src : Src, at : Nat]
NoAllow == [nonce |-> "none", src |-> "none", at |-> NoTime]

TypeOK ==
    /\ now \in Nat
    /\ net \subseteq Datagrams
    /\ seen \in [Nonces -> Times]
    /\ recent \in [Src -> Times]
    /\ pending \in Allows \cup {NoAllow}
    /\ fw \in [Src -> 0..Ttl]
    /\ restarts \in 0..MaxRestarts
    /\ steps \in 0..MaxSteps
    /\ total \in [Nonces -> Nat]
    /\ count \in [Nonces -> Nat]
    /\ last \in [Nonces -> Times]
    /\ granted \in [Src -> Times]
    /\ timed \in [Src -> Times]

----------------------------------------------------------------------------
(* The two tables. *)

\* now.saturating_sub(t)
Age(t) == IF now > t THEN now - t ELSE 0

Entries(table) == {x \in DOMAIN table : table[x] # NoTime}

\* HashMap::retain on the entries whose time satisfies Keep.
Retain(table, Keep(_)) ==
    [x \in DOMAIN table |->
        IF table[x] # NoTime /\ Keep(table[x]) THEN table[x] ELSE NoTime]

\* Defect: an entry exactly one window old is dropped.
WithinWindow_Strict(t) == Age(t) < Window

WithinWindow(t) == Age(t) <= Window
InCooldown(t) == Age(t) < Cooldown

\* now.abs_diff(timestamp) > window rejects.
Fresh(ts) == now - ts <= Window /\ ts - now <= Window

\* check_and_record first drops what is older than the window.
Retained == Retain(seen, WithinWindow)

\* Defect: the cache is bounded but never consulted.
Refused_NoLookup(n) == Cardinality(Entries(Retained)) >= ReplayCap

\* check_and_record's two refusals: a nonce in the cache, and a full cache.
Refused(n) ==
    \/ Retained[n] # NoTime
    \/ Cardinality(Entries(Retained)) >= ReplayCap

\* Defect: recent_allows is emptied at capacity.
Pruned_Cleared ==
    IF Cardinality(Entries(recent)) >= RecentCap
    THEN [s \in Src |-> NoTime]
    ELSE recent

\* Defect: recent_allows is pruned one entry too late.
Pruned_Late ==
    IF Cardinality(Entries(recent)) > RecentCap
    THEN Retain(recent, InCooldown)
    ELSE recent

\* recent_allows is pruned only when it has reached its nominal capacity.
Pruned ==
    IF Cardinality(Entries(recent)) >= RecentCap
    THEN Retain(recent, InCooldown)
    ELSE recent

CoolingDown(s) == recent[s] # NoTime /\ InCooldown(recent[s])

\* Defect: the timeouts of repeated additions accumulate.
Added_Accumulated(s) == [fw EXCEPT ![s] = @ + Ttl]

\* The set after "add element { s timeout Ttl }".
StartsTimer(s) == fw[s] = 0 \/ NftRefreshes
Added(s) == IF StartsTimer(s) THEN [fw EXCEPT ![s] = Ttl] ELSE fw

\* nft has added s to the set.
SetAdds(s) ==
    /\ fw' = Added(s)
    /\ timed' = IF StartsTimer(s) THEN [timed EXCEPT ![s] = now] ELSE timed

----------------------------------------------------------------------------
Init ==
    /\ now = 0
    /\ net = {}
    /\ seen = [n \in Nonces |-> NoTime]
    /\ recent = [s \in Src |-> NoTime]
    /\ pending = NoAllow
    /\ fw = [s \in Src |-> 0]
    /\ restarts = 0
    /\ steps = 0
    /\ total = [n \in Nonces |-> 0]
    /\ count = [n \in Nonces |-> 0]
    /\ last = [n \in Nonces |-> NoTime]
    /\ granted = [s \in Src |-> NoTime]
    /\ timed = [s \in Src |-> NoTime]

\* send_knock: a client seals a knock under a fresh nonce, stamped by its own
\* clock, and sends it off.
Seal(n, kind, ts) ==
    /\ \A d \in net : d.nonce # n
    /\ ts - now <= MaxAhead
    /\ now - ts <= MaxBehind
    /\ net' = net \cup {[nonce |-> n, ts |-> ts, kind |-> kind]}
    /\ UNCHANGED <<now, seen, recent, pending, fw, restarts, steps, histories>>

\* KnockVerifier::open decrypts d, finds it fresh and consults the cache.
\* Datagrams that fail earlier (foreign, stale) change nothing at all.
Examined(d) ==
    /\ pending = NoAllow
    /\ d \in net
    /\ d.kind # "foreign"
    /\ Fresh(d.ts)

\* The cache refuses the nonce; the entries it dropped stay dropped.
SniffRefused(d) ==
    /\ Examined(d)
    /\ Refused(d.nonce)
    /\ seen' = Retained
    /\ UNCHANGED <<now, net, recent, pending, fw, restarts, steps, histories>>

\* The verifier accepts d and burns its nonce, whatever the sniffer does next.
Record(d) ==
    /\ Examined(d)
    /\ ~Refused(d.nonce)
    /\ seen' = [Retained EXCEPT ![d.nonce] = now]
    /\ total' = [total EXCEPT ![d.nonce] = @ + 1]
    /\ count' = [count EXCEPT ![d.nonce] = @ + 1]
    /\ last' = [last EXCEPT ![d.nonce] = now]
    /\ UNCHANGED <<now, net, fw, restarts, steps, granted, timed>>

\* The knock names another port, or the address s it came from is still
\* cooling down.
SniffIgnored(d, s) ==
    /\ Record(d)
    /\ d.kind = "otherport" \/ CoolingDown(s)
    /\ UNCHANGED <<recent, pending>>

\* Defect: the sniffer ignores the port a knock names.
SniffHonoured_AnyPort(d, s) ==
    /\ Record(d)
    /\ ~CoolingDown(s)
    /\ recent' = Pruned
    /\ pending' = [nonce |-> d.nonce, src |-> s, at |-> now]

\* The sniffer prunes recent_allows if need be and starts nft.
SniffHonoured(d, s) ==
    /\ Record(d)
    /\ d.kind = "good"
    /\ ~CoolingDown(s)
    /\ recent' = Pruned
    /\ pending' = [nonce |-> d.nonce, src |-> s, at |-> now]

\* nft succeeds.  recent_allows gets the time read before nft ran.
AllowOk ==
    /\ pending # NoAllow
    /\ SetAdds(pending.src)
    /\ recent' = [recent EXCEPT ![pending.src] = pending.at]
    /\ granted' = [granted EXCEPT ![pending.src] = pending.at]
    /\ pending' = NoAllow
    /\ UNCHANGED <<now, net, seen, restarts, steps, total, count, last>>

\* Defect: a source is put in recent_allows before nft is known to succeed.
AllowFailed_Recorded ==
    /\ pending # NoAllow
    /\ recent' = [recent EXCEPT ![pending.src] = pending.at]
    /\ pending' = NoAllow
    /\ UNCHANGED <<now, net, seen, fw, restarts, steps, histories>>

\* nft fails: logged, nothing else.
AllowFailed ==
    /\ pending # NoAllow
    /\ pending' = NoAllow
    /\ UNCHANGED <<now, net, seen, recent, fw, restarts, steps, histories>>

\* The server process ends and is started again: its tables are gone, the
\* kernel's set is not, and an nft child it was waiting for may finish.
Restart ==
    /\ restarts < MaxRestarts
    /\ restarts' = restarts + 1
    /\ \/ UNCHANGED <<fw, timed>>
       \/ pending # NoAllow /\ SetAdds(pending.src)
    /\ pending' = NoAllow
    /\ seen' = [n \in Nonces |-> NoTime]
    /\ recent' = [s \in Src |-> NoTime]
    /\ count' = [n \in Nonces |-> 0]
    /\ last' = [n \in Nonces |-> NoTime]
    /\ granted' = [s \in Src |-> NoTime]
    /\ UNCHANGED <<now, net, steps, total>>

\* A second passes; the kernel counts the set's timeouts down.
Tick ==
    /\ now < MaxTime
    /\ now' = now + 1
    /\ fw' = [s \in Src |-> IF fw[s] > 0 THEN fw[s] - 1 ELSE 0]
    /\ UNCHANGED <<net, seen, recent, pending, restarts, steps, histories>>

\* The wall clock is set; the kernel's timeouts do not notice.
StepClock(t) ==
    /\ steps < MaxSteps
    /\ steps' = steps + 1
    /\ now' = t
    /\ UNCHANGED <<net, seen, recent, pending, fw, restarts, histories>>

Next ==
    \/ \E n \in Nonces, kind \in Kinds, ts \in 0..(MaxTime + MaxAhead) :
            Seal(n, kind, ts)
    \/ \E d \in net : SniffRefused(d)
    \/ \E d \in net, s \in Src : SniffIgnored(d, s) \/ SniffHonoured(d, s)
    \/ AllowOk
    \/ AllowFailed
    \/ Restart
    \/ Tick
    \/ \E t \in 0..MaxTime : StepClock(t)

Spec == Init /\ [][Next]_vars

----------------------------------------------------------------------------
(* Properties. *)

\* THREAT_MODEL.md: "Timestamp window + bounded nonce cache reject replays".
\* How often the verifier can accept one knock: once per life of the server
\* process when no client clock runs ahead, since a nonce then outlives its
\* timestamp in the cache; twice when one does, since the cache keeps a nonce
\* for one window and a timestamp ahead of the server stays fresh for two.
PerLife == IF MaxAhead = 0 THEN 1 ELSE 2
ReplayBudget ==
    steps = 0 => \A n \in Nonces : total[n] <= PerLife * (restarts + 1)

\* The verifier accepts no knock twice, as the sentence reads, as long as the
\* wall clock does not jump.
NeverReplayed == steps = 0 => \A n \in Nonces : total[n] <= 1

\* Two acceptances of one nonce by one server process are more than a window
\* apart: within the window check_and_record always recognises the nonce.
ReplaySpacing ==
    [][\A n \in Nonces :
        (steps = 0 /\ count[n] > 0 /\ count'[n] > count[n])
            => now - last[n] > Window]_vars

\* The replay cache never outgrows REPLAY_CAP, across retain and insert.
CacheBounded == Cardinality(Entries(seen)) <= ReplayCap

\* README.md: "On a valid knock it adds the admin's source IP to the set".
\* A knock the verifier accepts for the tunnel port and the sniffer then drops
\* because of the cooldown finds the port open to its source, for the rest of
\* the cooldown at the least.  Only a kernel that lets a live element's timer
\* run when it is added again may have closed the port under the cooldown; it
\* is then less than a cooldown until the sniffer would open it again.
IgnoredMeansOpen ==
    [][\A d \in net, s \in Src :
        steps = 0 /\ d.kind = "good" /\ SniffIgnored(d, s) =>
            \/ fw[s] > Ttl - Cooldown
            \/ ~NftRefreshes /\ timed[s] # NoTime /\ now - timed[s] < Ttl + Cooldown]_vars

\* THREAT_MODEL.md: "per-source-IP cooldown caps nft invocations".  Successful
\* calls for one source are a cooldown apart, whatever pruning recent_allows
\* went through between them.
AllowSpacing ==
    [][\A s \in Src :
        (/\ steps = 0
         /\ granted[s] # NoTime
         /\ granted'[s] # granted[s]
         /\ granted'[s] # NoTime)
            => granted'[s] - granted[s] >= Cooldown]_vars

\* recent_allows may pass RECENT_ALLOW_CAP, but only by an entry added while
\* all the others were in their cooldown at the time the knock was read.
RecentOverflow ==
    [][\A s \in Src :
        (/\ recent[s] = NoTime
         /\ recent'[s] # NoTime
         /\ Cardinality(Entries(recent)) >= RecentCap)
            => \A r \in Entries(recent) :
                  recent'[s] - recent[r] < Cooldown]_vars

----------------------------------------------------------------------------
(* What the gate promises: SpaGate, a knock being spent when the sniffer is *)
(* done with it.                                                            *)

Issued == {d.nonce : d \in {e \in net : e.kind = "good"}}

Spent ==
    [n \in Nonces |->
        IF pending # NoAllow /\ pending.nonce = n THEN total[n] - 1 ELSE total[n]]

Gate == INSTANCE SpaGate WITH
    Knocks <- Nonces,
    Sources <- Src,
    Budget <- PerLife * (MaxRestarts + 1),
    issued <- Issued,
    spent <- Spent,
    open <- {s \in Src : fw[s] > 0}

\* THREAT_MODEL.md: "SPA is stealth, not authentication".  Until the wall clock
\* jumps every step of the gate is a step of SpaGate or none, restarts of the
\* server included: whichever addresses a knock is delivered from, it opens the
\* port within its budget only, and only a knock for this port opens it.
ImplementsSpaGate == Gate!Init /\ [][steps' = 0 => Gate!Next]_(Gate!vars)

====
