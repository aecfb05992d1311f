---- MODULE ProvisionProofs ----
(***************************************************************************)
(* Theorems about Provision, for any number of hosts and keys.             *)
(***************************************************************************)
EXTENDS Provision, TLAPS

----------------------------------------------------------------------------
(* The inductive invariant. *)

ServerFiles == [key : Nat, salt : Nat, admin : Nat]
Stages == {"none", "listed", "added", "rekeying"}

Types ==
    /\ keys \in Nat /\ cInit \in Nat
    /\ cFile \in [key : Nat, salt : Nat, pins : [Hosts -> Nat]]
    /\ sFile \in [Hosts -> ServerFiles]
    /\ sInit \in [Hosts -> ServerFiles]
    /\ sGen \in [Hosts -> Nat]
    /\ notes \in [key : Nat, salt : Nat]
    /\ shown \in [Hosts -> Nat]
    /\ stage \in [Hosts -> Stages]

\* What the operator has noted is what the client has, once init is through.
NotesMatchClient ==
    /\ cInit # 0 => notes.key = 0 /\ cFile.key = cInit
    /\ notes.key # 0 => cFile.key = notes.key /\ cFile.salt = notes.salt

\* An unfinished init of a server has written its key, and has what was noted
\* when it began.
UnfinishedInits ==
    \A h \in Hosts :
        sInit[h] # NoServer => /\ sInit[h].key = sFile[h].key /\ sInit[h].admin # 0
                               /\ stage[h] = "none"

\* An unfinished keygen has printed the key it will write, and no step of the
\* quickstart counts as taken until it has.
UnfinishedKeygens ==
    \A h \in Hosts :
        /\ sGen[h] # 0 => /\ shown[h] = sGen[h] /\ sInit[h] = NoServer
                          /\ stage[h] \in {"none", "rekeying"}
        /\ stage[h] = "rekeying" =>
              notes.key # 0 /\ sFile[h].admin = notes.key /\ sFile[h].salt = notes.salt

\* A server that is ready for the client has the notes of its latest init, and
\* the key it has is the one its command printed.
Ready(h) ==
    /\ notes.key # 0
    /\ sFile[h].admin = notes.key /\ sFile[h].salt = notes.salt
    /\ shown[h] = sFile[h].key

ReadyWhenListed ==
    \A h \in Hosts :
        /\ stage[h] \in {"listed", "added"} => Ready(h)
        /\ stage[h] = "added" => cFile.pins[h] = shown[h]

ProvisionInv ==
    /\ Types
    /\ NotesMatchClient
    /\ UnfinishedInits
    /\ UnfinishedKeygens
    /\ ReadyWhenListed

----------------------------------------------------------------------------
(* Types. *)

LEMMA TypesStay ==
    ASSUME Types, ProvisionNext
    PROVE  Types'
<1> USE ProvisionAssumption DEF Types, clientSide, serverSide
<1>1. ASSUME NEW force \in BOOLEAN, ClientInitKey(force) PROVE Types'
  BY <1>1 DEF ClientInitKey, NoNotes, Stages
<1>2. CASE ClientInitConfig
  <2>1. /\ keys' \in Nat /\ cInit' \in Nat
        /\ UNCHANGED <<sFile, sInit, sGen, shown, stage>>
    BY <1>2 DEF ClientInitConfig
  <2>2. NoPins \in [Hosts -> Nat]
    BY DEF NoPins
  <2>3. /\ cFile' = [cFile EXCEPT !.salt = keys + 1, !.pins = NoPins]
        /\ notes' = [key |-> cInit, salt |-> keys + 1]
    BY <1>2 DEF ClientInitConfig
  <2>4. cFile' = [key |-> cFile.key, salt |-> keys + 1, pins |-> NoPins]
    BY <2>3
  <2>5. cFile' \in [key : Nat, salt : Nat, pins : [Hosts -> Nat]]
    BY <2>2, <2>4
  <2>6. notes' \in [key : Nat, salt : Nat]
    BY <2>3
  <2> QED BY <2>1, <2>5, <2>6
<1>3. CASE ClientInitCut \/ ClientUp \/ ClientDown
  BY <1>3 DEF ClientInitCut, ClientUp, ClientDown
<1>4. ASSUME NEW h \in Hosts, AddServer(h) PROVE Types'
  BY <1>4 DEF AddServer, Stages
<1>5. ASSUME NEW h \in Hosts, RmServer(h) PROVE Types'
  BY <1>5 DEF RmServer, Stages
<1>6. ASSUME NEW h \in Hosts, NEW force \in BOOLEAN, ServerInitKey(h, force) PROVE Types'
  <2>1. /\ keys' = keys + 1
        /\ UNCHANGED <<sGen, shown, cFile, cInit, notes>>
    BY <1>6 DEF ServerInitKey
  <2>2. stage' \in [Hosts -> Stages]
    BY <1>6 DEF ServerInitKey, Stages
  <2>3. sFile' = [sFile EXCEPT ![h] = [sFile[h] EXCEPT !.key = keys + 1]]
    BY <1>6 DEF ServerInitKey
  <2>4. [sFile[h] EXCEPT !.key = keys + 1] \in ServerFiles
    BY DEF ServerFiles
  <2>5. sInit' = [sInit EXCEPT ![h] = [key |-> keys + 1, salt |-> notes.salt,
                                       admin |-> notes.key]]
    BY <1>6 DEF ServerInitKey
  <2>6. [key |-> keys + 1, salt |-> notes.salt, admin |-> notes.key] \in ServerFiles
    BY DEF ServerFiles
  <2> QED BY <2>1, <2>2, <2>3, <2>4, <2>5, <2>6
<1>7. ASSUME NEW h \in Hosts, ServerInitConfig(h) PROVE Types'
  BY <1>7 DEF ServerInitConfig, NoServer, ServerFiles, Stages
<1>8. ASSUME NEW h \in Hosts, ServerInitCut(h) PROVE Types'
  <2>1. PICK key \in {sInit[h].key, 0} : sFile' = [sFile EXCEPT ![h].key = key]
    BY <1>8 DEF ServerInitCut
  <2>2. sInit[h] \in ServerFiles /\ sFile[h] \in ServerFiles /\ NoServer \in ServerFiles
    BY DEF NoServer, ServerFiles
  <2>3. key \in Nat
    BY <2>1, <2>2 DEF ServerFiles
  <2>4. sFile' \in [Hosts -> ServerFiles]
    BY <2>1, <2>3 DEF ServerFiles
  <2>5. sInit' \in [Hosts -> ServerFiles]
    BY <1>8, <2>2 DEF ServerInitCut
  <2> QED BY <1>8, <2>4, <2>5 DEF ServerInitCut
<1>9. ASSUME NEW h \in Hosts,
             ServerKeygenShows(h) \/ ServerKeygenWrites(h) \/ ServerKeygenCut(h)
      PROVE  Types'
  <2>1. CASE ServerKeygenShows(h)
    BY <2>1 DEF ServerKeygenShows, Stages
  <2>2. CASE ServerKeygenWrites(h)
    BY <2>2 DEF ServerKeygenWrites, ServerFiles, Stages
  <2>3. CASE ServerKeygenCut(h)
    BY <2>3 DEF ServerKeygenCut, ServerFiles
  <2> QED BY <1>9, <2>1, <2>2, <2>3
<1>10. ASSUME NEW h \in Hosts, ServerUp(h) \/ ServerDown(h) PROVE Types'
  BY <1>10 DEF ServerUp, ServerDown
<1> QED
  BY <1>1, <1>2, <1>3, <1>4, <1>5, <1>6, <1>7, <1>8, <1>9, <1>10 DEF ProvisionNext

----------------------------------------------------------------------------
(* Each step keeps what the operator noted true of the files. *)

LEMMA ClientStep ==
    ASSUME ProvisionInv,
           \/ \E force \in BOOLEAN : ClientInitKey(force)
           \/ ClientInitConfig \/ ClientInitCut \/ ClientUp \/ ClientDown
    PROVE  NotesMatchClient' /\ UnfinishedInits' /\ UnfinishedKeygens' /\ ReadyWhenListed'
<1>1. Types /\ NotesMatchClient /\ UnfinishedInits /\ UnfinishedKeygens /\ ReadyWhenListed
  BY DEF ProvisionInv
<1>2. UNCHANGED <<sFile, sInit, sGen, shown>>
  BY DEF ClientInitKey, ClientInitConfig, ClientInitCut, ClientUp, ClientDown, serverSide
<1>3. UnfinishedInits'
  <2>1. \A h \in Hosts : stage[h] = "none" => stage'[h] = "none"
    BY DEF ClientInitKey, ClientInitConfig, ClientInitCut, ClientUp, ClientDown
  <2> QED BY <1>1, <1>2, <2>1 DEF UnfinishedInits
<1>4. CASE \E force \in BOOLEAN : ClientInitKey(force)
  <2>1. NotesMatchClient'
    BY <1>1, <1>4 DEF ClientInitKey, NotesMatchClient, NoNotes, Types
  <2>2. ReadyWhenListed' /\ UnfinishedKeygens'
    BY <1>1, <1>2, <1>4 DEF ClientInitKey, ReadyWhenListed, UnfinishedKeygens
  <2> QED BY <1>3, <2>1, <2>2
<1>5. CASE ClientInitConfig
  <2>1. /\ cInit # 0 /\ cInit' = 0
        /\ cFile' = [cFile EXCEPT !.salt = keys + 1, !.pins = NoPins]
        /\ notes' = [key |-> cInit, salt |-> keys + 1]
        /\ UNCHANGED stage
    BY <1>5 DEF ClientInitConfig
  <2>2. NotesMatchClient'
    BY <1>1, <2>1 DEF NotesMatchClient, Types
  <2>3. \A h \in Hosts : stage[h] \notin {"listed", "added", "rekeying"}
    BY <1>1, <2>1 DEF NotesMatchClient, ReadyWhenListed, Ready, UnfinishedKeygens
  <2>4. ReadyWhenListed' /\ UnfinishedKeygens'
    BY <1>1, <1>2, <2>1, <2>3 DEF ReadyWhenListed, UnfinishedKeygens
  <2> QED BY <1>3, <2>2, <2>4
<1>6. CASE ClientInitCut \/ ClientUp \/ ClientDown
  <2>1. /\ UNCHANGED <<notes, stage>>
        /\ \/ cInit # 0 /\ cInit' = 0 /\ cFile' \in {[cFile EXCEPT !.key = k] : k \in {cInit, 0}}
           \/ UNCHANGED <<cInit, cFile>>
    BY <1>6 DEF ClientInitCut, ClientUp, ClientDown
  <2>2. cFile'.pins = cFile.pins
    BY <1>1, <2>1 DEF Types
  <2>3. NotesMatchClient'
    BY <1>1, <2>1 DEF NotesMatchClient
  <2>4. ReadyWhenListed' /\ UnfinishedKeygens'
    BY <1>1, <1>2, <2>1, <2>2 DEF ReadyWhenListed, Ready, UnfinishedKeygens
  <2> QED BY <1>3, <2>3, <2>4
<1> QED BY <1>4, <1>5, <1>6

LEMMA PinStep ==
    ASSUME ProvisionInv, NEW h \in Hosts, AddServer(h) \/ RmServer(h)
    PROVE  NotesMatchClient' /\ UnfinishedInits' /\ UnfinishedKeygens' /\ ReadyWhenListed'
<1>1. Types /\ NotesMatchClient /\ UnfinishedInits /\ UnfinishedKeygens /\ ReadyWhenListed
  BY DEF ProvisionInv
<1>2. UNCHANGED <<sFile, sInit, sGen, shown, cInit, notes>>
  BY DEF AddServer, RmServer, serverSide
<1>3. UnfinishedInits'
  <2>1. \A g \in Hosts : stage[g] = "none" => stage'[g] = "none"
    BY <1>1 DEF AddServer, RmServer, Types
  <2> QED BY <1>1, <1>2, <2>1 DEF UnfinishedInits
<1>4. cFile'.key = cFile.key /\ cFile'.salt = cFile.salt
  BY <1>1 DEF AddServer, RmServer, Types
<1>5. NotesMatchClient'
  BY <1>1, <1>2, <1>4 DEF NotesMatchClient
<1>6. \A g \in Hosts : g # h => stage'[g] = stage[g] /\ cFile'.pins[g] = cFile.pins[g]
  BY <1>1 DEF AddServer, RmServer, Types
<1>7. CASE AddServer(h)
  <2>1. /\ cFile'.pins[h] = shown[h]
        /\ stage'[h] = IF stage[h] = "listed" THEN "added" ELSE stage[h]
        /\ cFile.pins[h] = 0 /\ shown[h] # 0
    BY <1>1, <1>7 DEF AddServer, Types
  <2> QED BY <1>1, <1>2, <1>3, <1>5, <1>6, <2>1 DEF ReadyWhenListed, Ready,
     UnfinishedKeygens
<1>8. CASE RmServer(h)
  <2>1. stage'[h] = IF stage[h] = "added" THEN "listed" ELSE stage[h]
    BY <1>1, <1>8 DEF RmServer, Types
  <2> QED BY <1>1, <1>2, <1>3, <1>5, <1>6, <2>1 DEF ReadyWhenListed, Ready,
     UnfinishedKeygens
<1> QED BY <1>7, <1>8

\* What a step of one host leaves alone.
LEMMA HostStep ==
    ASSUME ProvisionInv, NEW h \in Hosts,
           \/ \E force \in BOOLEAN : ServerInitKey(h, force)
           \/ ServerInitConfig(h) \/ ServerInitCut(h)
           \/ ServerKeygenShows(h) \/ ServerKeygenWrites(h) \/ ServerKeygenCut(h)
           \/ ServerUp(h) \/ ServerDown(h)
    PROVE  NotesMatchClient' /\ UnfinishedInits' /\ UnfinishedKeygens' /\ ReadyWhenListed'
<1>1. Types /\ NotesMatchClient /\ UnfinishedInits /\ UnfinishedKeygens /\ ReadyWhenListed
  BY DEF ProvisionInv
<1>2. UNCHANGED <<cFile, cInit, notes>>
  BY DEF ServerInitKey, ServerInitConfig, ServerInitCut, ServerKeygenShows,
     ServerKeygenWrites, ServerKeygenCut, ServerUp, ServerDown, clientSide
<1>3. NotesMatchClient'
  BY <1>1, <1>2 DEF NotesMatchClient
<1>4. \A g \in Hosts : g # h => /\ stage'[g] = stage[g] /\ shown'[g] = shown[g]
                                /\ sFile'[g] = sFile[g] /\ sInit'[g] = sInit[g]
                                /\ sGen'[g] = sGen[g]
  BY <1>1 DEF ServerInitKey, ServerInitConfig, ServerInitCut, ServerKeygenShows,
     ServerKeygenWrites, ServerKeygenCut, ServerUp, ServerDown, Types
<1> SUFFICES /\ sInit'[h] # NoServer =>
                   /\ sInit'[h].key = sFile'[h].key /\ sInit'[h].admin # 0
                   /\ stage'[h] = "none"
             /\ sGen'[h] # 0 => /\ shown'[h] = sGen'[h] /\ sInit'[h] = NoServer
                                /\ stage'[h] \in {"none", "rekeying"}
             /\ stage'[h] \in {"listed", "added", "rekeying"} =>
                   /\ notes.key # 0
                   /\ sFile'[h].admin = notes.key /\ sFile'[h].salt = notes.salt
             /\ stage'[h] \in {"listed", "added"} => shown'[h] = sFile'[h].key
             /\ stage'[h] = "added" => cFile.pins[h] = shown'[h]
  BY <1>1, <1>2, <1>3, <1>4 DEF UnfinishedInits, UnfinishedKeygens, ReadyWhenListed, Ready
<1>5. /\ sFile[h] \in ServerFiles /\ sInit[h] \in ServerFiles /\ stage[h] \in Stages
      /\ sInit[h] # NoServer => /\ sInit[h].key = sFile[h].key /\ sInit[h].admin # 0
                               /\ stage[h] = "none"
      /\ sGen[h] # 0 => /\ shown[h] = sGen[h] /\ sInit[h] = NoServer
                        /\ stage[h] \in {"none", "rekeying"}
      /\ stage[h] \in {"listed", "added", "rekeying"} =>
            /\ notes.key # 0
            /\ sFile[h].admin = notes.key /\ sFile[h].salt = notes.salt
      /\ stage[h] \in {"listed", "added"} => shown[h] = sFile[h].key
      /\ stage[h] = "added" => cFile.pins[h] = shown[h]
  BY <1>1 DEF Types, UnfinishedInits, UnfinishedKeygens, ReadyWhenListed, Ready
<1>6. ASSUME NEW force \in BOOLEAN, ServerInitKey(h, force)
      PROVE  /\ sInit'[h].key = sFile'[h].key /\ sInit'[h].admin # 0
             /\ stage'[h] = "none" /\ sGen'[h] = 0
  BY <1>1, <1>6 DEF ServerInitKey, Types, ServerFiles
<1>7. CASE ServerInitConfig(h)
  <2>1. /\ sInit[h] # NoServer /\ sInit'[h] = NoServer /\ UNCHANGED sGen
        /\ sFile'[h] = [sInit[h] EXCEPT !.key = sFile[h].key]
        /\ shown'[h] = sInit[h].key
        /\ stage'[h] = IF notes = [key |-> sInit[h].admin, salt |-> sInit[h].salt]
                       THEN "listed" ELSE "none"
    BY <1>1, <1>7 DEF ServerInitConfig, Types
  <2>2. /\ sFile'[h].key = sFile[h].key
        /\ sFile'[h].admin = sInit[h].admin /\ sFile'[h].salt = sInit[h].salt
    BY <1>5, <2>1 DEF ServerFiles
  <2>3. ASSUME stage'[h] = "listed" PROVE notes.key = sInit[h].admin /\ notes.salt = sInit[h].salt
    BY <2>1, <2>3
  <2> QED BY <1>5, <2>1, <2>2, <2>3
<1>8. CASE ServerInitCut(h)
  <2>1. /\ sInit[h] # NoServer /\ sInit'[h] = NoServer
        /\ UNCHANGED <<sGen, shown, stage>>
        /\ sFile'[h] \in {[sFile[h] EXCEPT !.key = k] : k \in {sInit[h].key, 0}}
    BY <1>1, <1>8 DEF ServerInitCut, Types
  <2>2. sFile'[h].admin = sFile[h].admin /\ sFile'[h].salt = sFile[h].salt
    BY <1>5, <2>1 DEF ServerFiles
  <2> QED BY <1>5, <2>1, <2>2
<1>9. CASE ServerKeygenShows(h)
  <2>1. /\ sInit[h] = NoServer /\ sGen'[h] = keys + 1 /\ shown'[h] = keys + 1
        /\ stage'[h] = IF stage[h] = "none" THEN "none" ELSE "rekeying"
        /\ UNCHANGED <<sFile, sInit>>
    BY <1>1, <1>9 DEF ServerKeygenShows, Types
  <2> QED BY <1>5, <2>1 DEF Stages
<1>10. CASE ServerKeygenWrites(h)
  <2>1. /\ sGen[h] # 0 /\ sGen'[h] = 0 /\ UNCHANGED <<sInit, shown>>
        /\ sFile'[h] = [sFile[h] EXCEPT !.key = sGen[h]]
        /\ stage'[h] = IF stage[h] = "rekeying" THEN "listed" ELSE stage[h]
    BY <1>1, <1>10 DEF ServerKeygenWrites, Types
  <2>2. /\ sFile'[h].key = sGen[h]
        /\ sFile'[h].admin = sFile[h].admin /\ sFile'[h].salt = sFile[h].salt
    BY <1>5, <2>1 DEF ServerFiles
  <2> QED BY <1>5, <2>1, <2>2
<1>11. CASE ServerKeygenCut(h)
  <2>1. /\ sGen[h] # 0 /\ sGen'[h] = 0 /\ UNCHANGED <<sInit, shown, stage>>
        /\ sFile'[h] \in {[sFile[h] EXCEPT !.key = k] : k \in {sFile[h].key, 0, sGen[h]}}
    BY <1>1, <1>11 DEF ServerKeygenCut, Types
  <2>2. sFile'[h].admin = sFile[h].admin /\ sFile'[h].salt = sFile[h].salt
    BY <1>5, <2>1 DEF ServerFiles
  <2> QED BY <1>5, <2>1, <2>2
<1>12. CASE ServerUp(h) \/ ServerDown(h)
  <2>1. UNCHANGED <<sFile, sInit, sGen, shown, stage>>
    BY <1>12 DEF ServerUp, ServerDown
  <2> QED BY <1>5, <2>1
<1> QED BY <1>5, <1>6, <1>7, <1>8, <1>9, <1>10, <1>11, <1>12

\* README.md's quickstart ends with two daemons that can shake hands, whatever
\* was initialised, interrupted or generated before on these machines or others,
\* and in whichever order the commands of different hosts were given: as long
\* as a key is taken only from a command that went through, since keygen prints
\* one before it has written it.
THEOREM QuickstartWorks == ProvisionSpec => []QuickstartConnects
<1>1. ProvisionInit => ProvisionInv
  <2> SUFFICES ASSUME ProvisionInit PROVE ProvisionInv
    OBVIOUS
  <2>1. Types
    BY DEF ProvisionInit, Types, NoClient, NoPins, NoServer, NoNotes, ServerFiles, Stages
  <2>2. NotesMatchClient
    BY DEF ProvisionInit, NotesMatchClient, NoNotes
  <2>3. UnfinishedInits /\ UnfinishedKeygens /\ ReadyWhenListed
    BY DEF ProvisionInit, UnfinishedInits, UnfinishedKeygens, ReadyWhenListed
  <2> QED BY <2>1, <2>2, <2>3 DEF ProvisionInv
<1>2. ProvisionInv /\ [ProvisionNext]_provision => ProvisionInv'
  <2>1. ProvisionInv /\ ProvisionNext => ProvisionInv'
    BY TypesStay, ClientStep, PinStep, HostStep DEF ProvisionInv, ProvisionNext
  <2>2. ProvisionInv /\ UNCHANGED provision => ProvisionInv'
    BY DEF provision, clientSide, serverSide, ProvisionInv, Types, NotesMatchClient,
       UnfinishedInits, UnfinishedKeygens, ReadyWhenListed, Ready
  <2> QED BY <2>1, <2>2
<1>3. ProvisionInv => QuickstartConnects
  <2> SUFFICES ASSUME ProvisionInv, NEW h \in Hosts,
                      stage[h] = "added", cRun = cFile, sRun[h] = sFile[h]
               PROVE  Held(h) = {"server key", "psk", "listed key"}
    BY DEF QuickstartConnects
  <2>1. Ready(h) /\ cFile.pins[h] = shown[h]
    BY DEF ProvisionInv, ReadyWhenListed
  <2>2. /\ cRun.pins[h] = sRun[h].key
        /\ cRun.salt = sRun[h].salt
        /\ cRun.key = sRun[h].admin
    BY <2>1 DEF ProvisionInv, NotesMatchClient, Ready
  <2> QED BY <2>2 DEF Held
<1> QED BY <1>1, <1>2, <1>3, PTL DEF ProvisionSpec

====
