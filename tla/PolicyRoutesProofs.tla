---- MODULE PolicyRoutesProofs ----
(***************************************************************************)
(* What the routing scripts leave behind: proof, for every number of       *)
(* servers, that a script which reports success did all of its work.       *)
(***************************************************************************)
EXTENDS PolicyRoutes, FiniteSetTheorems, TLAPS

Commands == [op : {"add", "del"}, on : {"rule", "route"}, ip : Ips]

\* One of the commands still to be run is c.
Ahead(c) == \E k \in DOMAIN todo : todo[k] = c

PolicyTypeOK ==
    /\ real \in UNION {[S -> Ips] : S \in SUBSET Entries}
    /\ device \in BOOLEAN /\ lost \in BOOLEAN
    /\ script \in {"none", "up", "down"}
    /\ exit \in {"none", "running", "ok", "failed"}
    /\ todo \in Seq(Commands)

\* An idle shell has nothing left to run; a script is of one kind.
OneKind ==
    /\ exit # "running" => todo = <<>>
    /\ \A k \in DOMAIN todo : todo[k].op = (IF script = "up" THEN "add" ELSE "del")

\* What each server is to get has been done, or is still ahead.
UpDue ==
    script = "up" /\ exit \in {"running", "ok"} =>
        \A e \in DOMAIN real :
            /\ real[e] \in rules \/ Ahead(Cmd("add", "rule", real[e]))
            /\ lost \/ real[e] \in table \/ Ahead(Cmd("add", "route", real[e]))

DownDue ==
    script = "down" /\ exit \in {"running", "ok"} =>
        \A e \in DOMAIN real :
            /\ real[e] \notin rules \/ Ahead(Cmd("del", "rule", real[e]))
            /\ real[e] \notin table \/ Ahead(Cmd("del", "route", real[e]))

PolicyInv == PolicyTypeOK /\ OneKind /\ UpDue /\ DownDue /\ (exit = "ok" => todo = <<>>)

----------------------------------------------------------------------------
(* The script that is printed. *)

\* An order of the servers, in which the hash map may give them, leaves none
\* out.
LEMMA OrderIsComplete ==
    ASSUME PolicyAssumption, NEW S \in SUBSET Entries,
           NEW order \in SetToSeqs(S)
    PROVE  /\ order \in Seq(S)
           /\ \A e \in S : \E i \in 1..Len(order) : order[i] = e
<1>1. IsFiniteSet(S)
  BY FS_Subset DEF PolicyAssumption
<1>2. Cardinality(S) \in Nat
  BY <1>1, FS_CardinalityType
<1> DEFINE D == 1..Cardinality(S)
<1>3. /\ order \in [D -> S]
      /\ \A i, j \in D : i # j => order[i] # order[j]
  BY DEF SetToSeqs
<1>4. order \in Seq(S) /\ Len(order) = Cardinality(S)
  BY <1>2, <1>3
<1>5. order \in Injection(D, S)
  BY <1>3 DEF Injection, IsInjective
<1>6. IsFiniteSet(D) /\ Cardinality(D) = Cardinality(S)
  BY <1>2, FS_Interval
<1>7. order \in Surjection(D, S)
  BY <1>1, <1>5, <1>6, FS_Injection
<1> QED
  BY <1>4, <1>7 DEF Surjection

\* What print-routes prints: commands of one kind, and for every server both
\* its rule and its route.
LEMMA ScriptIsComplete ==
    ASSUME PolicyAssumption, PolicyTypeOK, NEW down \in BOOLEAN,
           NEW order \in SetToSeqs(DOMAIN real),
           NEW op, op = IF down THEN "del" ELSE "add"
    PROVE  /\ Script(down, order) \in Seq(Commands)
           /\ \A k \in DOMAIN Script(down, order) : Script(down, order)[k].op = op
           /\ \A e \in DOMAIN real, on \in {"rule", "route"} :
                 \E k \in DOMAIN Script(down, order) :
                    Script(down, order)[k] = Cmd(op, on, real[e])
<1> DEFINE n == Len(order)
           On(first) == IF first = down THEN "rule" ELSE "route"
           At(k) == Cmd(op, On(k % 2 = 1), real[order[(k + 1) \div 2]])
<1>1. PICK S \in SUBSET Entries : real \in [S -> Ips]
  BY DEF PolicyTypeOK
<1>2. DOMAIN real = S
  BY <1>1
<1>3. order \in Seq(S) /\ \A e \in S : \E i \in 1..n : order[i] = e
  BY <1>2, OrderIsComplete
<1>4. n \in Nat /\ \A i \in 1..n : order[i] \in S
  BY <1>3
<1>5. Script(down, order) = [k \in 1..(2 * n) |-> At(k)]
  BY DEF Script
<1>6. \A k \in 1..(2 * n) : (k + 1) \div 2 \in 1..n
  BY <1>4
<1>7. \A k \in 1..(2 * n) : At(k) \in Commands /\ At(k).op = op
  <2> SUFFICES ASSUME NEW k \in 1..(2 * n)
               PROVE  At(k) \in Commands /\ At(k).op = op
    OBVIOUS
  <2>1. real[order[(k + 1) \div 2]] \in Ips
    BY <1>1, <1>4, <1>6
  <2> QED
    BY <2>1 DEF Commands, Cmd
<1>8. Script(down, order) \in Seq(Commands)
  <2> HIDE DEF At
  <2> QED
    BY <1>4, <1>5, <1>7
<1>9. ASSUME NEW e \in DOMAIN real, NEW on \in {"rule", "route"}
      PROVE  \E k \in 1..(2 * n) : At(k) = Cmd(op, on, real[e])
  <2>1. PICK i \in 1..n : order[i] = e
    BY <1>2, <1>3
  <2>2. /\ 2 * i - 1 \in 1..(2 * n) /\ 2 * i \in 1..(2 * n)
        /\ (2 * i - 1 + 1) \div 2 = i /\ (2 * i + 1) \div 2 = i
        /\ (2 * i - 1) % 2 = 1 /\ (2 * i) % 2 = 0
    BY <1>4
  <2>3. CASE on = On(TRUE)
    BY <2>1, <2>2, <2>3
  <2>4. CASE on = On(FALSE)
    BY <2>1, <2>2, <2>4
  <2> QED
    BY <2>3, <2>4
<1> HIDE DEF At
<1> QED
  BY <1>5, <1>7, <1>8, <1>9

----------------------------------------------------------------------------
(* The steps. *)

LEMMA InitPolicyInv == PolicyInit => PolicyInv
<1> SUFFICES ASSUME PolicyInit PROVE PolicyInv
  OBVIOUS
<1>1. real \in [{} -> Ips] /\ DOMAIN real = {}
  BY DEF PolicyInit
<1>2. real \in UNION {[S -> Ips] : S \in SUBSET Entries}
  BY <1>1, {} \in SUBSET Entries
<1>3. todo \in Seq(Commands) /\ DOMAIN todo = {}
  BY DEF PolicyInit
<1>4. PolicyTypeOK
  BY <1>2, <1>3 DEF PolicyInit, PolicyTypeOK
<1> QED
  BY <1>1, <1>3, <1>4 DEF PolicyInit, PolicyInv, OneKind, UpDue, DownDue

LEMMA StartPolicyInv ==
    ASSUME PolicyAssumption, PolicyInv, NEW down \in BOOLEAN, Start(down)
    PROVE  PolicyInv'
<1> DEFINE op == IF down THEN "del" ELSE "add"
<1>1. PICK order \in SetToSeqs(DOMAIN real) : todo' = Script(down, order)
  BY DEF Start
<1>2. /\ todo' \in Seq(Commands)
      /\ \A k \in DOMAIN todo' : todo'[k].op = op
      /\ \A e \in DOMAIN real, on \in {"rule", "route"} :
            \E k \in DOMAIN todo' : todo'[k] = Cmd(op, on, real[e])
  BY <1>1, ScriptIsComplete DEF PolicyInv
<1>3. /\ script' = IF down THEN "down" ELSE "up"
      /\ exit' = "running" /\ lost' = FALSE
      /\ UNCHANGED <<real, device, table, rules>>
  BY DEF Start
<1>4. PolicyTypeOK'
  BY <1>2, <1>3 DEF PolicyInv, PolicyTypeOK, Commands
<1>5. OneKind' /\ (exit = "ok" => todo = <<>>)'
  BY <1>2, <1>3 DEF OneKind
<1>6. UpDue'
  BY <1>2, <1>3 DEF UpDue, Ahead
<1>7. DownDue'
  BY <1>2, <1>3 DEF DownDue, Ahead
<1> QED
  BY <1>4, <1>5, <1>6, <1>7 DEF PolicyInv

\* A command that is still to be run is the first, or is left when the first
\* is done.
LEMMA AheadOfFirst ==
    ASSUME PolicyTypeOK, todo # <<>>, todo' = Tail(todo), NEW c, Ahead(c)
    PROVE  c = Head(todo) \/ \E k \in DOMAIN todo' : todo'[k] = c
<1>1. PICK k \in DOMAIN todo : todo[k] = c
  BY DEF Ahead
<1>2. todo \in Seq(Commands)
  BY DEF PolicyTypeOK, Commands
<1>3. CASE k = 1
  BY <1>1, <1>2, <1>3
<1>4. CASE k # 1
  <2>1. k - 1 \in DOMAIN Tail(todo) /\ Tail(todo)[k - 1] = todo[k]
    BY <1>2, <1>4
  <2> QED
    BY <1>1, <2>1
<1> QED
  BY <1>3, <1>4

LEMMA CommandPolicyInv ==
    ASSUME PolicyInv, Command
    PROVE  PolicyInv'
<1> DEFINE c == Head(todo)
<1>1. /\ todo # <<>> /\ exit = "running"
      /\ UNCHANGED <<real, device, script, lost>>
  BY DEF Command, PolicyInv, OneKind
<1>2. todo \in Seq(Commands)
  BY DEF PolicyInv, PolicyTypeOK, Commands
<1>3. CASE todo' = <<>> /\ exit' = "failed" /\ UNCHANGED <<table, rules>>
  BY <1>1, <1>3 DEF PolicyInv, PolicyTypeOK, OneKind, UpDue, DownDue
<1>4. CASE Run(c) /\ todo' = Tail(todo) /\ UNCHANGED exit
  <2>1. todo' \in Seq(Commands) /\ \A k \in DOMAIN todo' : todo'[k] = todo[k + 1] /\ k + 1 \in DOMAIN todo
    BY <1>1, <1>2, <1>4
  <2>2. c \in Commands /\ c = todo[1] /\ 1 \in DOMAIN todo
    BY <1>1, <1>2
  <2>3. PolicyTypeOK'
    BY <1>1, <1>4, <2>1 DEF PolicyInv, PolicyTypeOK, Commands
  <2>4. OneKind' /\ (exit = "ok" => todo = <<>>)'
    BY <1>1, <1>4, <2>1 DEF PolicyInv, OneKind
  <2>5. \A d : Ahead(d) => d = c \/ \E k \in DOMAIN todo' : todo'[k] = d
    BY <1>1, <1>4, AheadOfFirst DEF PolicyInv
  <2>6. UpDue'
    <3> SUFFICES ASSUME script = "up", NEW e \in DOMAIN real
                 PROVE  /\ real[e] \in rules' \/ \E k \in DOMAIN todo' : todo'[k] = Cmd("add", "rule", real[e])
                        /\ lost \/ real[e] \in table' \/ \E k \in DOMAIN todo' : todo'[k] = Cmd("add", "route", real[e])
      BY <1>1, <1>4 DEF UpDue, Ahead
    <3>1. c.op = "add"
      BY <2>2 DEF PolicyInv, OneKind
    <3>2. rules \subseteq rules' /\ table \subseteq table'
      BY <1>4, <3>1 DEF Run, Change
    <3>3. /\ real[e] \in rules \/ Ahead(Cmd("add", "rule", real[e]))
          /\ lost \/ real[e] \in table \/ Ahead(Cmd("add", "route", real[e]))
      BY <1>1 DEF PolicyInv, UpDue
    <3>4. c = Cmd("add", "rule", real[e]) => real[e] \in rules'
      BY <1>4 DEF Run, Change, Cmd
    <3>5. c = Cmd("add", "route", real[e]) => real[e] \in table'
      BY <1>4 DEF Run, Change, Cmd
    <3> QED
      BY <2>5, <3>2, <3>3, <3>4, <3>5
  <2>7. DownDue'
    <3> SUFFICES ASSUME script = "down", NEW e \in DOMAIN real
                 PROVE  /\ real[e] \notin rules' \/ \E k \in DOMAIN todo' : todo'[k] = Cmd("del", "rule", real[e])
                        /\ real[e] \notin table' \/ \E k \in DOMAIN todo' : todo'[k] = Cmd("del", "route", real[e])
      BY <1>1, <1>4 DEF DownDue, Ahead
    <3>1. c.op = "del"
      BY <2>2 DEF PolicyInv, OneKind
    <3>2. rules' \subseteq rules /\ table' \subseteq table
      BY <1>4, <3>1 DEF Run, Change
    <3>3. /\ real[e] \notin rules \/ Ahead(Cmd("del", "rule", real[e]))
          /\ real[e] \notin table \/ Ahead(Cmd("del", "route", real[e]))
      BY <1>1 DEF PolicyInv, DownDue
    <3>4. c = Cmd("del", "rule", real[e]) => real[e] \notin rules'
      BY <1>4 DEF Run, Change, Cmd
    <3>5. c = Cmd("del", "route", real[e]) => real[e] \notin table'
      BY <1>4 DEF Run, Change, Cmd
    <3> QED
      BY <2>5, <3>2, <3>3, <3>4, <3>5
  <2> QED
    BY <2>3, <2>4, <2>6, <2>7 DEF PolicyInv
<1> QED
  BY <1>3, <1>4 DEF Command

LEMMA FinishPolicyInv ==
    ASSUME PolicyInv, Finish
    PROVE  PolicyInv'
BY DEF Finish, PolicyInv, PolicyTypeOK, OneKind, UpDue, DownDue, Ahead

\* The client and its device come and go beside the script.
LEMMA TunPolicyInv ==
    ASSUME PolicyInv, TunUp \/ TunDown
    PROVE  PolicyInv'
<1>1. CASE TunUp
  BY <1>1 DEF TunUp, PolicyInv, PolicyTypeOK, OneKind, UpDue, DownDue, Ahead
<1>2. CASE TunDown
  BY <1>2 DEF TunDown, PolicyInv, PolicyTypeOK, OneKind, UpDue, DownDue, Ahead
<1> QED
  BY <1>1, <1>2

LEMMA EditPolicyInv ==
    ASSUME PolicyInv, Edit
    PROVE  PolicyInv'
BY DEF Edit, PolicyInv, PolicyTypeOK, OneKind, UpDue, DownDue, Ahead

LEMMA StutterPolicyInv ==
    ASSUME PolicyInv, UNCHANGED policy
    PROVE  PolicyInv'
BY DEF policy, PolicyInv, PolicyTypeOK, OneKind, UpDue, DownDue, Ahead

LEMMA PolicyInvariant == ASSUME PolicyAssumption PROVE PolicySpec => []PolicyInv
<1>1. PolicyInv /\ [PolicyNext]_policy => PolicyInv'
  BY StartPolicyInv, CommandPolicyInv, FinishPolicyInv, TunPolicyInv,
     EditPolicyInv, StutterPolicyInv DEF PolicyNext, PolicyScript
<1> QED
  BY InitPolicyInv, <1>1, PTL DEF PolicySpec

\* A routing script that exits with success has done all of its work, for any
\* number of servers, whichever shared addresses they have, in whichever order
\* the hash map gave them, with any rules and routes there before it, and with
\* clients that come and go: set -e stops it at the first command that fails.
THEOREM ScriptsComplete ==
    ASSUME PolicyAssumption PROVE PolicySpec => []SuccessIsComplete
<1>1. PolicyInv => SuccessIsComplete
  BY DEF PolicyInv, UpDue, DownDue, Ahead, SuccessIsComplete
<1> QED
  BY PolicyInvariant, <1>1, PTL

====
