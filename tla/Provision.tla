---- MODULE Provision ----
(***************************************************************************)
(* How the two ends come to hold matching keys: init, keygen, add-server   *)
(* and the start of the daemons, on the client's machine                   *)
(* (client/src/config.rs) and on every server (server/src/config.rs), with *)
(* an operator who carries what one command prints to another machine.     *)
(*                                                                         *)
(* Key pairs and salts are numbered in the order they are generated; a     *)
(* public key has the number of its pair.  0 is the absence of one.  The   *)
(* passphrase is the same everywhere, so a pre-shared key is its salt.     *)
(* init writes the key file first and the configuration after it; keygen   *)
(* prints the public key first and writes the key file after it.  Both may *)
(* fail or be interrupted between the two, and in the middle of writing    *)
(* the key, which leaves a file without one.                               *)
(***************************************************************************)
EXTENDS Naturals

CONSTANTS
    Hosts,      \* servers
    MaxKeys     \* bound: key pairs generated

ASSUME ProvisionAssumption == MaxKeys \in Nat

VARIABLES
    keys,       \* key pairs generated so far, salts included
    cFile,      \* client: admin key (0: unreadable), and salt and pins of the config
    cInit,      \* client: the pair an unfinished init has written, or 0
    cRun,       \* client: what the running daemon has loaded
    sFile,      \* host -> static key file, and salt and admin of the config
    sInit,      \* host -> what an unfinished init will write
    sGen,       \* host -> the pair an unfinished keygen has shown, or 0
    sRun,       \* host -> what the running daemon has loaded
    notes,      \* operator: key and salt the latest client init printed
    shown,      \* operator: host -> public key its command printed last
    stage       \* history: host -> steps of the quickstart taken since init

clientSide == <<cFile, cInit, cRun, notes>>
serverSide == <<sFile, sInit, sGen, sRun, shown>>
provision == <<keys, clientSide, serverSide, stage>>

NoPins == [h \in Hosts |-> 0]
NoClient == [key |-> 0, salt |-> 0, pins |-> NoPins]
NoNotes == [key |-> 0, salt |-> 0]
NoServer == [key |-> 0, salt |-> 0, admin |-> 0]

\* The three things a handshake needs (Credentials in Admission) that the
\* running client holds for the running server h.
Held(h) ==
    {c \in {"server key", "psk", "listed key"} :
        CASE c = "server key" -> cRun.pins[h] = sRun[h].key
          [] c = "psk"        -> cRun.salt = sRun[h].salt
          [] c = "listed key" -> cRun.key = sRun[h].admin}

ProvisionInit ==
    /\ keys = 0
    /\ cFile = NoClient /\ cInit = 0 /\ cRun = NoClient
    /\ sFile = [h \in Hosts |-> NoServer]
    /\ sInit = [h \in Hosts |-> NoServer]
    /\ sGen = [h \in Hosts |-> 0]
    /\ sRun = [h \in Hosts |-> NoServer]
    /\ notes = NoNotes
    /\ shown = [h \in Hosts |-> 0]
    /\ stage = [h \in Hosts |-> "none"]

----------------------------------------------------------------------------
(* The client's machine. *)

\* hyperion-client init [--force]: the admin key is replaced.  What an earlier
\* init printed is void, whether or not this one gets to print anything.
ClientInitKey(force) ==
    /\ cInit = 0
    /\ cFile.salt = 0 \/ force
    /\ keys < MaxKeys
    /\ keys' = keys + 1
    /\ cInit' = keys + 1
    /\ cFile' = [cFile EXCEPT !.key = keys + 1]
    /\ notes' = NoNotes
    /\ stage' = [h \in Hosts |-> "none"]
    /\ UNCHANGED <<cRun, serverSide>>

\* The new configuration has a new salt and no servers; init prints what the
\* servers have to be given.
ClientInitConfig ==
    /\ cInit # 0
    /\ keys < MaxKeys
    /\ keys' = keys + 1
    /\ cFile' = [cFile EXCEPT !.salt = keys + 1, !.pins = NoPins]
    /\ notes' = [key |-> cInit, salt |-> keys + 1]
    /\ cInit' = 0
    /\ UNCHANGED <<cRun, serverSide, stage>>

\* init fails or is interrupted before the configuration is written, perhaps
\* before the key is.
ClientInitCut ==
    /\ cInit # 0
    /\ cInit' = 0
    /\ \E key \in {cInit, 0} : cFile' = [cFile EXCEPT !.key = key]
    /\ UNCHANGED <<keys, cRun, notes, serverSide, stage>>

AddServer(h) ==
    /\ cInit = 0
    /\ cFile.salt # 0
    /\ cFile.pins[h] = 0
    /\ shown[h] # 0
    /\ cFile' = [cFile EXCEPT !.pins[h] = shown[h]]
    /\ stage' = [stage EXCEPT ![h] = IF @ = "listed" THEN "added" ELSE @]
    /\ UNCHANGED <<keys, cInit, cRun, notes, serverSide>>

RmServer(h) ==
    /\ cInit = 0
    /\ cFile.pins[h] # 0
    /\ cFile' = [cFile EXCEPT !.pins[h] = 0]
    /\ stage' = [stage EXCEPT ![h] = IF @ = "added" THEN "listed" ELSE @]
    /\ UNCHANGED <<keys, cInit, cRun, notes, serverSide>>

\* up; the daemon reads both files once.
ClientUp ==
    /\ cRun = NoClient
    /\ cFile.key # 0 /\ cFile.salt # 0 /\ cFile.pins # NoPins
    /\ cRun' = cFile
    /\ UNCHANGED <<keys, cFile, cInit, notes, serverSide, stage>>

ClientDown ==
    /\ cRun # NoClient
    /\ cRun' = NoClient
    /\ UNCHANGED <<keys, cFile, cInit, notes, serverSide, stage>>

----------------------------------------------------------------------------
(* A server. *)

\* Defect: an existing key file is kept, though a new public key is printed.
ServerInitKey_KeepsFile(h, force) ==
    /\ sInit[h] = NoServer /\ sGen[h] = 0
    /\ sFile[h].salt = 0 \/ force
    /\ notes.key # 0
    /\ keys < MaxKeys
    /\ keys' = keys + 1
    /\ sInit' = [sInit EXCEPT ![h] = [key |-> keys + 1, salt |-> notes.salt,
                                      admin |-> notes.key]]
    /\ sFile' = [sFile EXCEPT ![h].key = IF @ = 0 THEN keys + 1 ELSE @]
    /\ stage' = [stage EXCEPT ![h] = "none"]
    /\ UNCHANGED <<sGen, sRun, shown, clientSide>>

\* hyperion-server init --salt --admin-key [--force]: the static key is
\* replaced.
ServerInitKey(h, force) ==
    /\ sInit[h] = NoServer /\ sGen[h] = 0
    /\ sFile[h].salt = 0 \/ force
    /\ notes.key # 0
    /\ keys < MaxKeys
    /\ keys' = keys + 1
    /\ sInit' = [sInit EXCEPT ![h] = [key |-> keys + 1, salt |-> notes.salt,
                                      admin |-> notes.key]]
    /\ sFile' = [sFile EXCEPT ![h].key = keys + 1]
    /\ stage' = [stage EXCEPT ![h] = "none"]
    /\ UNCHANGED <<sGen, sRun, shown, clientSide>>

\* The configuration is written and the public key printed.
ServerInitConfig(h) ==
    /\ sInit[h] # NoServer
    /\ sFile' = [sFile EXCEPT ![h] = [sInit[h] EXCEPT !.key = sFile[h].key]]
    /\ shown' = [shown EXCEPT ![h] = sInit[h].key]
    /\ stage' = [stage EXCEPT ![h] =
                    IF notes = [key |-> sInit[h].admin, salt |-> sInit[h].salt]
                    THEN "listed" ELSE "none"]
    /\ sInit' = [sInit EXCEPT ![h] = NoServer]
    /\ UNCHANGED <<keys, sGen, sRun, clientSide>>

ServerInitCut(h) ==
    /\ sInit[h] # NoServer
    /\ sInit' = [sInit EXCEPT ![h] = NoServer]
    /\ \E key \in {sInit[h].key, 0} : sFile' = [sFile EXCEPT ![h].key = key]
    /\ UNCHANGED <<keys, sGen, sRun, shown, clientSide, stage>>

\* hyperion-server keygen --out <the key file>: the public key is printed
\* before the file is touched.
ServerKeygenShows(h) ==
    /\ sInit[h] = NoServer /\ sGen[h] = 0
    /\ keys < MaxKeys
    /\ keys' = keys + 1
    /\ sGen' = [sGen EXCEPT ![h] = keys + 1]
    /\ shown' = [shown EXCEPT ![h] = keys + 1]
    /\ stage' = [stage EXCEPT ![h] = IF @ = "none" THEN "none" ELSE "rekeying"]
    /\ UNCHANGED <<sFile, sInit, sRun, clientSide>>

\* Defect: the secret key is written only if there is no file yet.
ServerKeygenWrites_KeepsFile(h) ==
    /\ sGen[h] # 0
    /\ sFile' = [sFile EXCEPT ![h].key = IF @ = 0 THEN sGen[h] ELSE @]
    /\ stage' = [stage EXCEPT ![h] = IF @ = "rekeying" THEN "listed" ELSE @]
    /\ sGen' = [sGen EXCEPT ![h] = 0]
    /\ UNCHANGED <<keys, sInit, sRun, shown, clientSide>>

\* The key is replaced; the configuration stays.  The command is done, and what
\* it printed is to be given to the client.
ServerKeygenWrites(h) ==
    /\ sGen[h] # 0
    /\ sFile' = [sFile EXCEPT ![h].key = sGen[h]]
    /\ stage' = [stage EXCEPT ![h] = IF @ = "rekeying" THEN "listed" ELSE @]
    /\ sGen' = [sGen EXCEPT ![h] = 0]
    /\ UNCHANGED <<keys, sInit, sRun, shown, clientSide>>

\* It fails or is interrupted: the old key is still there, or none, or the new
\* one with permissions that could not be set.
ServerKeygenCut(h) ==
    /\ sGen[h] # 0
    /\ \E key \in {sFile[h].key, 0, sGen[h]} : sFile' = [sFile EXCEPT ![h].key = key]
    /\ sGen' = [sGen EXCEPT ![h] = 0]
    /\ UNCHANGED <<keys, sInit, sRun, shown, clientSide, stage>>

\* up; the daemon reads both files once.
ServerUp(h) ==
    /\ sRun[h] = NoServer
    /\ sFile[h].key # 0 /\ sFile[h].salt # 0
    /\ sRun' = [sRun EXCEPT ![h] = sFile[h]]
    /\ UNCHANGED <<keys, sFile, sInit, sGen, shown, clientSide, stage>>

ServerDown(h) ==
    /\ sRun[h] # NoServer
    /\ sRun' = [sRun EXCEPT ![h] = NoServer]
    /\ UNCHANGED <<keys, sFile, sInit, sGen, shown, clientSide, stage>>

----------------------------------------------------------------------------
ProvisionNext ==
    \/ \E force \in BOOLEAN : ClientInitKey(force)
    \/ ClientInitConfig \/ ClientInitCut \/ ClientUp \/ ClientDown
    \/ \E h \in Hosts :
          \/ AddServer(h) \/ RmServer(h)
          \/ \E force \in BOOLEAN : ServerInitKey(h, force)
          \/ ServerInitConfig(h) \/ ServerInitCut(h)
          \/ ServerKeygenShows(h) \/ ServerKeygenWrites(h) \/ ServerKeygenCut(h)
          \/ ServerUp(h) \/ ServerDown(h)

ProvisionSpec == ProvisionInit /\ [][ProvisionNext]_provision

----------------------------------------------------------------------------
(* Properties. *)

\* README.md, the quickstart: init here, init on the server with what it
\* printed, add-server with what that, or a later keygen, printed, up on both.
\* Whatever was initialised, interrupted or generated before, on this or other
\* machines, daemons that then run on the files as they are can shake hands.
\* Only what a command printed that also reported success counts: a keygen
\* that is cut short has printed a key that nothing may be set up with, and
\* from then on it takes another keygen, or init, on that host.
QuickstartConnects ==
    \A h \in Hosts :
        stage[h] = "added" /\ cRun = cFile /\ sRun[h] = sFile[h] =>
            Held(h) = {"server key", "psk", "listed key"}

====
