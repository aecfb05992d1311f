---- MODULE DaemonProofs ----
(***************************************************************************)
(* Theorems about Daemon, for any number of processes and invocations.     *)
(***************************************************************************)
EXTENDS Daemon, FiniteSetTheorems, TLAPS

----------------------------------------------------------------------------
(* The inductive invariant. *)

\* A daemon that is not leaving and has not been told to.
Untold(p) ==
    /\ proc[p] \in {"starting", "binding", "serving", "accepting"}
    /\ ~signalled[p]

\* Commands do not overlap.
Alone == \A c, d \in Clis : cli[c] \in Active /\ cli[d] \in Active => c = d

\* Between its reading or writing the pid file and its last use of what it
\* read or wrote, a command has the file's pid.
TargetIsFile == \A c \in Clis : cli[c] \in {"written", "read", "judged"} => target[c] = file

\* There is no daemon to lose while an up is about to start one or a down is
\* about to remove the file, and the one an up has just started is its target.
NothingToLose ==
    \A c \in Clis, p \in Pids :
        /\ cli[c] \in {"checked", "killed", "stale"} => ~Untold(p)
        /\ cli[c] = "spawned" /\ Untold(p) => target[c] = p

FileNamesDaemon ==
    (\A c \in Clis : cli[c] # "spawned") => \A p \in Pids : Untold(p) => file = p

Uninterrupted == \A c \in Clis : cli[c] # "aborted"

TrackInv ==
    /\ TypeOK
    /\ Alone
    /\ Uninterrupted => TargetIsFile /\ NothingToLose /\ FileNamesDaemon

----------------------------------------------------------------------------
(* Types. *)

ProcessTypes ==
    /\ port \in Pids \cup {NoPid}
    /\ proc \in [Pids -> {"free", "starting", "binding", "serving", "accepting",
                          "leaving", "zombie", "gone"}]
    /\ sniffing \in [Pids -> BOOLEAN]
    /\ handler \in [Pids -> BOOLEAN]
    /\ heard \in [Pids -> BOOLEAN]
    /\ signalled \in [Pids -> BOOLEAN]
    /\ port # NoPid => proc[port] \in {"serving", "accepting"}

CommandTypes ==
    /\ file \in Pids \cup {NoPid}
    /\ cli \in [Clis -> {"idle"} \cup Active \cup Ended]
    /\ target \in [Clis -> Pids \cup {NoPid}]

SettingTypes == program \in {"client", "server"} /\ knock \in BOOLEAN /\ ignores \in BOOLEAN

LEMMA TypeParts == TypeOK <=> ProcessTypes /\ CommandTypes /\ SettingTypes
BY DEF TypeOK, ProcessTypes, CommandTypes, SettingTypes

LEMMA TypesStart == Init => TypeOK
BY DEF Init, TypeOK

LEMMA ProcessStepTyped ==
    ASSUME TypeOK, NEW p \in Pids, Process(p) \/ Accepted(p)
    PROVE  ProcessTypes' /\ UNCHANGED <<settings, commands>>
<1>1. ProcessTypes /\ SettingTypes
  BY TypeParts
<1> USE <1>1, DaemonAssumption DEF ProcessTypes
<1>2. CASE LoadFailed(p)
  BY <1>2 DEF LoadFailed
<1>3. CASE Loaded(p)
  BY <1>3 DEF Loaded, SettingTypes
<1>4. CASE BindOk(p)
  BY <1>4 DEF BindOk
<1>5. CASE BindFailed(p)
  BY <1>5 DEF BindFailed
<1>6. CASE Accepted(p)
  BY <1>6 DEF Accepted
<1>7. CASE AcceptDone(p)
  BY <1>7 DEF AcceptDone
<1>8. CASE Shutdown(p)
  BY <1>8 DEF Shutdown
<1>9. CASE Exit(p)
  BY <1>9 DEF Exit, Remains
<1>10. CASE Reap(p)
  BY <1>10 DEF Reap
<1>11. CASE Polls(p)
  BY <1>11 DEF Polls
<1> QED
  BY <1>2, <1>3, <1>4, <1>5, <1>6, <1>7, <1>8, <1>9, <1>10, <1>11 DEF Process

LEMMA TerminateTyped ==
    ASSUME TypeOK, NEW p, Terminate(p)
    PROVE  ProcessTypes'
<1>1. ProcessTypes
  BY TypeParts
<1> USE <1>1, DaemonAssumption DEF ProcessTypes
<1>2. signalled' \in [Pids -> BOOLEAN] /\ handler' \in [Pids -> BOOLEAN]
  BY DEF Terminate
<1>3. CASE Alive(p) /\ ~handler[p]
  <2>1. /\ proc' = [proc EXCEPT ![p] = Remains]
        /\ sniffing' = [sniffing EXCEPT ![p] = FALSE]
        /\ port' = IF port = p THEN NoPid ELSE port
        /\ UNCHANGED heard
    BY <1>3 DEF Terminate
  <2>2. Remains \in {"gone", "zombie"}
    BY DEF Remains
  <2>3. /\ proc' \in [Pids -> {"free", "starting", "binding", "serving", "accepting",
                               "leaving", "zombie", "gone"}]
        /\ sniffing' \in [Pids -> BOOLEAN]
        /\ port' \in Pids \cup {NoPid}
    BY <2>1, <2>2
  <2>4. port' # NoPid => proc'[port'] \in {"serving", "accepting"}
    BY <2>1
  <2> QED BY <1>2, <2>1, <2>3, <2>4
<1>4. CASE ~(Alive(p) /\ ~handler[p])
  <2>1. UNCHANGED <<proc, sniffing, port>>
    BY <1>4 DEF Terminate
  <2>2. heard' = [heard EXCEPT ![p] = (proc[p] = "serving")]
    BY <1>4 DEF Terminate
  <2>3. heard' \in [Pids -> BOOLEAN]
    BY <2>2
  <2> QED BY <1>2, <2>1, <2>3
<1> QED BY <1>3, <1>4

LEMMA CommandStepTyped ==
    ASSUME TypeOK, NEW c \in Clis, Command(c) \/ Invoke(c) \/ UpAborted(c)
    PROVE  CommandTypes' /\ UNCHANGED settings
<1>1. CommandTypes
  BY TypeParts
<1> USE <1>1 DEF CommandTypes, Active, Ended, Enter
<1>2. CASE UpSpawn(c)
  BY <1>2 DEF UpSpawn
<1>3. CASE UpWritePid(c)
  BY <1>3 DEF UpWritePid
<1>4. CASE UpReports(c) \/ UpGivesUp(c)
  BY <1>4 DEF UpReports, UpGivesUp
<1>5. CASE DownJudged(c) \/ DownKillFailed(c) \/ DownStale(c)
  BY <1>5 DEF DownJudged, DownKillFailed, DownStale
<1>6. CASE DownKill(c)
  <2>1. UNCHANGED <<settings, file, target>>
    BY <1>6 DEF DownKill
  <2>2. Enter(c, "downfailed") \/ Enter(c, "killed")
    BY <1>6 DEF DownKill
  <2> QED BY <2>1, <2>2
<1>7. CASE DownRemove(c)
  BY <1>7 DEF DownRemove
<1>8. CASE Invoke(c)
  BY <1>8 DEF Invoke, UpRefused, UpChecked, DownNoFile, DownRead
<1>9. CASE UpAborted(c)
  BY <1>9 DEF UpAborted
<1> QED BY <1>2, <1>3, <1>4, <1>5, <1>6, <1>7, <1>8, <1>9 DEF Command

LEMMA CommandProcessTyped ==
    ASSUME TypeOK, NEW c \in Clis, Command(c) \/ Invoke(c) \/ UpAborted(c)
    PROVE  ProcessTypes'
<1>1. ProcessTypes
  BY TypeParts
<1>2. CASE UpSpawn(c)
  BY <1>1, <1>2, DaemonAssumption DEF UpSpawn, ProcessTypes
<1>3. CASE DownKill(c)
  BY <1>3, TerminateTyped DEF DownKill
<1>4. CASE UNCHANGED processes
  BY <1>1, <1>4 DEF processes, ProcessTypes
<1> QED
  BY <1>2, <1>3, <1>4 DEF Command, Invoke, UpAborted, UpWritePid, UpReports, UpGivesUp,
     DownJudged, DownKillFailed, DownStale, DownRemove, UpRefused, UpChecked, DownNoFile,
     DownRead

LEMMA TypesStay == TypeOK /\ [Next]_vars => TypeOK'
<1> SUFFICES ASSUME TypeOK, [Next]_vars PROVE ProcessTypes' /\ CommandTypes' /\ SettingTypes'
  BY DEF TypeOK, ProcessTypes, CommandTypes, SettingTypes
<1>1. ProcessTypes /\ CommandTypes /\ SettingTypes
  BY TypeParts
<1>2. UNCHANGED settings => SettingTypes'
  BY <1>1 DEF settings, SettingTypes
<1>3. UNCHANGED commands => CommandTypes'
  BY <1>1 DEF commands, CommandTypes
<1>4. UNCHANGED processes => ProcessTypes'
  BY <1>1 DEF processes, ProcessTypes
<1>5. ASSUME NEW p \in Pids, Process(p) \/ Accepted(p)
      PROVE  ProcessTypes' /\ CommandTypes' /\ SettingTypes'
  BY <1>2, <1>3, <1>5, ProcessStepTyped
<1>6. ASSUME NEW c \in Clis, Command(c) \/ Invoke(c) \/ UpAborted(c)
      PROVE  ProcessTypes' /\ CommandTypes' /\ SettingTypes'
  BY <1>2, <1>6, CommandStepTyped, CommandProcessTyped
<1>7. CASE UNCHANGED vars
  BY <1>2, <1>3, <1>4, <1>7 DEF vars
<1> QED BY <1>5, <1>6, <1>7 DEF Next

\* Every variable keeps its type, and the port or TUN device is never held by a
\* process that is not in its serving loop.
THEOREM DaemonTypes == Spec => []TypeOK
BY TypesStart, TypesStay, PTL DEF Spec

----------------------------------------------------------------------------
(* No daemon is lost. *)

\* Only an up makes a daemon.
LEMMA UntoldFrom ==
    ASSUME TypeOK, [Next]_vars, NEW q \in Pids, Untold(q)'
    PROVE  \/ Untold(q)
           \/ \E c \in Clis : UpSpawn(c) /\ target'[c] = q
<1>1. /\ proc'[q] \in {"starting", "binding", "serving", "accepting"} /\ ~signalled'[q]
      /\ ProcessTypes /\ CommandTypes
  BY TypeParts DEF Untold
<1>2. ASSUME NEW p \in Pids, Process(p) \/ Accepted(p) PROVE Untold(q)
  <2>1. signalled' = signalled
    BY <1>2 DEF Process, LoadFailed, Loaded, BindOk, BindFailed, Polls, Accepted, AcceptDone,
       Shutdown, Exit, Reap
  <2>2. p # q => proc'[q] = proc[q]
    BY <1>1, <1>2 DEF Process, LoadFailed, Loaded, BindOk, BindFailed, Polls, Accepted, AcceptDone,
       Shutdown, Exit, Reap, ProcessTypes
  <2>3. p = q => proc[q] \in {"starting", "binding", "serving", "accepting"}
    BY <1>1, <1>2 DEF Process, LoadFailed, Loaded, BindOk, BindFailed, Polls, Accepted, AcceptDone,
       Shutdown, Exit, Reap, Remains, ProcessTypes
  <2> QED BY <1>1, <2>1, <2>2, <2>3 DEF Untold
<1>3. ASSUME NEW c \in Clis, UpSpawn(c) PROVE Untold(q) \/ target'[c] = q
  BY <1>1, <1>3 DEF UpSpawn, Untold, ProcessTypes, CommandTypes
<1>4. ASSUME NEW c \in Clis, DownKill(c) PROVE Untold(q)
  <2> DEFINE p == target[c]
  <2>1. Terminate(p)
    BY <1>4 DEF DownKill
  <2> HIDE DEF p
  <2>2. signalled' = [signalled EXCEPT ![p] = TRUE]
    BY <2>1 DEF Terminate
  <2>3. ~signalled[q]
    BY <1>1, <2>2 DEF ProcessTypes
  <2>4. proc' = proc \/ proc' = [proc EXCEPT ![p] = Remains]
    BY <2>1 DEF Terminate
  <2>5. proc'[q] = proc[q]
    BY <1>1, <2>4 DEF Remains, ProcessTypes
  <2> QED BY <1>1, <2>3, <2>5 DEF Untold
<1>5. ASSUME UNCHANGED processes PROVE Untold(q)
  BY <1>1, <1>5 DEF processes, Untold
<1> QED
  BY <1>2, <1>3, <1>4, <1>5
  DEF Next, vars, Command, Invoke, UpAborted, UpWritePid, UpReports, UpGivesUp, DownJudged,
      DownKillFailed, DownStale, DownRemove, UpRefused, UpChecked, DownNoFile, DownRead

\* A daemon that has been sent a TERM has been told.
LEMMA KilledIsTold ==
    ASSUME TypeOK, NEW c \in Clis, DownKill(c), NEW p \in Pids, Untold(p)'
    PROVE  p # target[c]
<1>1. signalled' = [signalled EXCEPT ![target[c]] = TRUE] /\ signalled \in [Pids -> BOOLEAN]
  BY DEF DownKill, Terminate, TypeOK
<1> QED BY <1>1 DEF Untold

\* With MaxActive = 1 a command begins when no other is under way.
LEMMA IdleMeansAlone ==
    ASSUME MaxActive = 1, NEW c \in Clis, Idle(c)
    PROVE  cli[c] = "idle" /\ \A d \in Clis : cli[d] \notin Active
<1> DEFINE A == {d \in Clis : cli[d] \in Active}
<1>1. A \subseteq Clis /\ Cardinality(A) < 1 /\ cli[c] = "idle"
  BY DEF Idle
<1>2. \A d \in Clis : cli[d] \in Active => d \in A
  OBVIOUS
<1> HIDE DEF A
<1>3. IsFiniteSet(A) /\ Cardinality(A) \in Nat
  BY <1>1, DaemonAssumption, FS_Subset, FS_CardinalityType
<1>4. A = {}
  BY <1>1, <1>3, FS_EmptySet
<1> QED BY <1>1, <1>2, <1>4

\* Who takes a step of a command is the only one under way.
LEMMA OneAtATime ==
    ASSUME MaxActive = 1, TypeOK, Alone, NEW c \in Clis,
           Command(c) \/ Invoke(c) \/ UpAborted(c)
    PROVE  /\ cli[c] # "aborted"
           /\ \A d \in Clis : d # c => cli'[d] = cli[d] /\ cli[d] \notin Active
<1>1. cli \in [Clis -> {"idle"} \cup Active \cup Ended]
  BY DEF TypeOK
<1>2. \E state : cli' = [cli EXCEPT ![c] = state]
  BY DEF Command, Invoke, UpAborted, UpSpawn, UpWritePid, UpReports, UpGivesUp, DownJudged,
     DownKill, DownKillFailed, DownStale, DownRemove, UpRefused, UpChecked, DownNoFile,
     DownRead, Enter
<1>3. \A d \in Clis : d # c => cli'[d] = cli[d]
  BY <1>1, <1>2
<1>4. CASE Invoke(c)
  <2>1. Idle(c)
    BY <1>4 DEF Invoke, UpRefused, UpChecked, DownNoFile, DownRead
  <2> QED BY <1>3, <2>1, IdleMeansAlone
<1>5. CASE Command(c) \/ UpAborted(c)
  <2>1. cli[c] \in Active
    BY <1>5 DEF Command, UpAborted, UpSpawn, UpWritePid, UpReports, UpGivesUp, DownJudged,
       DownKill, DownKillFailed, DownStale, DownRemove, Active
  <2>2. "aborted" \notin Active
    BY DEF Active
  <2> QED BY <1>3, <2>1, <2>2 DEF Alone
<1> QED BY <1>4, <1>5

\* The invariant as it concerns the one command c under way and one daemon q.
Follows(c, q) ==
    /\ cli[c] \in {"written", "read", "judged"} => target[c] = file
    /\ Untold(q) =>
          /\ cli[c] \notin {"checked", "killed", "stale"}
          /\ IF cli[c] = "spawned" THEN target[c] = q ELSE file = q

LEMMA FollowsBefore ==
    ASSUME TypeOK, TargetIsFile, NothingToLose, FileNamesDaemon,
           NEW c \in Clis, \A d \in Clis : d # c => cli[d] \notin Active, NEW q \in Pids
    PROVE  Follows(c, q)
BY DEF Follows, TargetIsFile, NothingToLose, FileNamesDaemon, Active

LEMMA FollowsAfter ==
    ASSUME NEW c \in Clis, \A d \in Clis : d # c => cli'[d] \notin Active,
           TypeOK', \A q \in Pids : Follows(c, q)'
    PROVE  TargetIsFile' /\ NothingToLose' /\ FileNamesDaemon'
<1>1. \A d \in Clis : d # c =>
         cli'[d] \notin {"checked", "spawned", "written", "read", "judged", "killed", "stale"}
  BY DEF Active
<1>2. TargetIsFile'
  <2>1. CASE Pids = {}
    <3>1. \A d \in Clis : target'[d] = NoPid /\ file' = NoPid
      BY <2>1 DEF TypeOK
    <3> QED BY <3>1 DEF TargetIsFile
  <2>2. CASE Pids # {}
    BY <1>1, <2>2 DEF TargetIsFile, Follows
  <2> QED BY <2>1, <2>2
<1>3. NothingToLose'
  BY <1>1 DEF NothingToLose, Follows
<1>4. FileNamesDaemon'
  BY <1>1 DEF FileNamesDaemon, Follows
<1> QED BY <1>2, <1>3, <1>4

LEMMA CommandFollows ==
    ASSUME TypeOK, [Next]_vars, NEW c \in Clis, NEW q \in Pids, Follows(c, q),
           \A d \in Clis : d # c => cli[d] \notin Active,
           Command(c) \/ Invoke(c) \/ UpAborted(c), cli'[c] # "aborted"
    PROVE  Follows(c, q)'
<1>1. CommandTypes
  BY TypeParts
<1>2. CASE UpSpawn(c)
  <2>1. cli[c] = "checked" /\ cli'[c] = "spawned"
    BY <1>1, <1>2 DEF UpSpawn, Enter, CommandTypes
  <2>2. ~Untold(q)
    BY <2>1 DEF Follows
  <2>3. ASSUME NEW d \in Clis, UpSpawn(d) PROVE d = c
    BY <2>3 DEF UpSpawn, Active
  <2>4. Untold(q)' => target'[c] = q
    BY <2>2, <2>3, UntoldFrom
  <2> QED BY <2>1, <2>4 DEF Follows
<1>3. CASE ~UpSpawn(c)
  <2>1. ASSUME NEW d \in Clis, UpSpawn(d) PROVE FALSE
    <3>1. cli[d] \in Active
      BY <2>1 DEF UpSpawn, Active
    <3>2. d = c
      BY <3>1
    <3> QED BY <1>3, <2>1, <3>2
  <2>2. Untold(q)' => Untold(q)
    BY <2>1, UntoldFrom
  <2>3. CASE UpWritePid(c)
    BY <1>1, <2>2, <2>3 DEF UpWritePid, Enter, CommandTypes, Follows
  <2>4. CASE UpReports(c)
    BY <1>1, <2>2, <2>4 DEF UpReports, Enter, CommandTypes, Follows
  <2>5. CASE UpGivesUp(c)
    <3>1. Untold(q) => HasProcEntry(q)
      BY DEF Untold, HasProcEntry, Alive
    <3>2. /\ cli[c] = "written" /\ cli'[c] = "upfailed"
          /\ ~HasProcEntry(target[c])
      BY <1>1, <2>5 DEF UpGivesUp, Enter, CommandTypes
    <3>3. ~Untold(q)
      BY <3>1, <3>2 DEF Follows
    <3> QED BY <2>2, <3>2, <3>3 DEF Follows
  <2>6. CASE DownJudged(c)
    BY <1>1, <2>2, <2>6 DEF DownJudged, Enter, CommandTypes, Follows
  <2>7. CASE DownKill(c)
    <3>1. /\ cli[c] = "judged" /\ cli'[c] \in {"downfailed", "killed"}
          /\ UNCHANGED <<file, target>>
      BY <1>1, <2>7 DEF DownKill, Enter, CommandTypes
    <3>2. Untold(q)' => q # target[c]
      BY <2>7, KilledIsTold
    <3>3. ~Untold(q)'
      BY <2>2, <3>1, <3>2 DEF Follows
    <3> QED BY <3>1, <3>3 DEF Follows
  <2>8. CASE DownKillFailed(c)
    BY <1>1, <2>2, <2>8 DEF DownKillFailed, Enter, CommandTypes, Follows
  <2>9. CASE DownStale(c)
    <3>1. Untold(q) => HasProcEntry(q)
      BY DEF Untold, HasProcEntry, Alive
    <3>2. /\ cli[c] = "read" /\ cli'[c] = "stale"
          /\ ~HasProcEntry(target[c])
      BY <1>1, <2>9 DEF DownStale, Enter, CommandTypes
    <3>3. ~Untold(q)
      BY <3>1, <3>2 DEF Follows
    <3> QED BY <2>2, <3>2, <3>3 DEF Follows
  <2>10. CASE DownRemove(c)
    <3>1. cli[c] \in {"killed", "stale"} /\ cli'[c] \in {"down", "cleaned"}
      BY <1>1, <2>10 DEF DownRemove, Enter, CommandTypes
    <3> QED BY <2>2, <3>1 DEF Follows
  <2>11. CASE UpRefused(c) \/ DownNoFile(c)
    BY <1>1, <2>2, <2>11 DEF UpRefused, DownNoFile, Idle, Enter, CommandTypes, Follows
  <2>12. CASE UpChecked(c)
    <3>1. cli[c] = "idle" /\ cli'[c] = "checked" /\ RunningPid = {}
      BY <1>1, <2>12 DEF UpChecked, Idle, Enter, CommandTypes
    <3>2. Untold(q) => HasProcEntry(q)
      BY DEF Untold, HasProcEntry, Alive
    <3>3. ~Untold(q)
      BY <3>1, <3>2 DEF Follows, RunningPid
    <3> QED BY <2>2, <3>1, <3>3 DEF Follows
  <2>13. CASE DownRead(c)
    BY <1>1, <2>2, <2>13 DEF DownRead, Idle, Enter, CommandTypes, Follows
  <2>14. CASE UpAborted(c)
    BY <1>1, <2>14 DEF UpAborted, Enter, CommandTypes
  <2> QED
    BY <1>3, <2>3, <2>4, <2>5, <2>6, <2>7, <2>8, <2>9, <2>10, <2>11, <2>12, <2>13, <2>14
    DEF Command, Invoke
<1> QED BY <1>2, <1>3

LEMMA TrackInvStep ==
    ASSUME MaxActive = 1, TrackInv, [Next]_vars
    PROVE  TrackInv'
<1>1. TypeOK /\ TypeOK' /\ Alone
  BY TypesStay DEF TrackInv
<1>2. ASSUME NEW p \in Pids, Process(p) \/ Accepted(p) PROVE UNCHANGED <<file, cli, target>>
  BY <1>1, <1>2, ProcessStepTyped DEF commands
<1>3. ASSUME UNCHANGED <<file, cli, target>> PROVE TrackInv'
  <2>1. ASSUME NEW q \in Pids, Untold(q)' PROVE Untold(q)
    <3>1. ASSUME NEW c \in Clis, UpSpawn(c) PROVE FALSE
      BY <1>1, <1>3, <3>1 DEF UpSpawn, Enter, TypeOK
    <3> QED BY <1>1, <2>1, <3>1, UntoldFrom
  <2>2. Alone'
    BY <1>1, <1>3 DEF Alone
  <2>3. Uninterrupted' => Uninterrupted
    BY <1>3 DEF Uninterrupted
  <2>4. TargetIsFile => TargetIsFile'
    BY <1>3 DEF TargetIsFile
  <2>5. NothingToLose => NothingToLose'
    BY <1>3, <2>1 DEF NothingToLose
  <2>6. FileNamesDaemon => FileNamesDaemon'
    BY <1>3, <2>1 DEF FileNamesDaemon
  <2> QED BY <1>1, <2>2, <2>3, <2>4, <2>5, <2>6 DEF TrackInv
<1>4. ASSUME NEW c \in Clis, Command(c) \/ Invoke(c) \/ UpAborted(c) PROVE TrackInv'
  <2>1. /\ cli[c] # "aborted"
        /\ \A d \in Clis : d # c => cli'[d] = cli[d] /\ cli[d] \notin Active
    BY <1>1, <1>4, OneAtATime
  <2>2. Alone'
    BY <2>1 DEF Alone
  <2>3. ASSUME Uninterrupted' PROVE TargetIsFile' /\ NothingToLose' /\ FileNamesDaemon'
    <3>1. cli'[c] # "aborted"
      BY <2>3 DEF Uninterrupted
    <3>2. Uninterrupted
      BY <2>1, <2>3 DEF Uninterrupted
    <3>3. \A q \in Pids : Follows(c, q)
      BY <1>1, <2>1, <3>2, FollowsBefore DEF TrackInv
    <3>4. \A q \in Pids : Follows(c, q)'
      BY <1>1, <1>4, <2>1, <3>1, <3>3, CommandFollows
    <3>5. \A d \in Clis : d # c => cli'[d] \notin Active
      BY <2>1
    <3> QED BY <1>1, <3>4, <3>5, FollowsAfter
  <2> QED BY <1>1, <2>2, <2>3 DEF TrackInv
<1>5. CASE UNCHANGED vars
  BY <1>3, <1>5 DEF vars, commands
<1> QED BY <1>2, <1>3, <1>4, <1>5 DEF Next

\* up and down do not lose track of a daemon, however their steps interleave
\* with those of the processes they start, signal and look for: when commands do
\* not overlap and none was interrupted, a daemon that was not told to stop is
\* the one the pid file names (daemon.rs up, cli-common stop_daemon).
THEOREM DaemonTracked ==
    ASSUME MaxActive = 1
    PROVE  Spec => []Tracked
<1>1. Init => TrackInv
  <2> SUFFICES ASSUME Init PROVE TrackInv
    OBVIOUS
  <2>1. TypeOK
    BY TypesStart
  <2>2. \A c \in Clis : cli[c] = "idle"
    BY DEF Init
  <2>3. \A p \in Pids : ~Untold(p)
    BY DEF Init, Untold
  <2>4. Alone /\ TargetIsFile
    BY <2>2 DEF Alone, TargetIsFile, Active
  <2>5. NothingToLose /\ FileNamesDaemon
    BY <2>3 DEF NothingToLose, FileNamesDaemon
  <2> QED BY <2>1, <2>4, <2>5 DEF TrackInv
<1>2. TrackInv /\ [Next]_vars => TrackInv'
  BY TrackInvStep
<1>3. TrackInv => Tracked
  <2> SUFFICES ASSUME TrackInv, \A c \in Clis : cli[c] \notin Active \cup {"aborted"},
                      NEW p \in Pids,
                      proc[p] \in {"starting", "binding", "serving", "accepting"},
                      ~signalled[p]
               PROVE  file = p
    BY DEF Tracked, TrackInv, TypeOK
  <2>1. Uninterrupted /\ \A c \in Clis : cli[c] # "spawned"
    BY DEF Uninterrupted, Active
  <2>2. Untold(p)
    BY DEF Untold
  <2> QED BY <2>1, <2>2 DEF TrackInv, FileNamesDaemon
<1> QED BY <1>1, <1>2, <1>3, PTL DEF Spec

====
