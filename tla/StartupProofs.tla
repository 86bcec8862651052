---------------------------- MODULE StartupProofs ----------------------------
(***************************************************************************)
(* Theorems about Startup, for every list of scripts and of lines, every   *)
(* set of JIDs and of environments, every choice of faults and number of   *)
(* lives of the process.                                                   *)
(***************************************************************************)
EXTENDS Startup, TLAPS

Runners == {Run, Cli}
AllScripts == {Scripts[i] : i \in DOMAIN Scripts}

\* A runner has passed only scripts that are recorded.
PassedAreRecorded ==
    \A r \in Runners : pc[r] \in {"check", "apply", "record"} =>
        \A i \in 1 .. at[r] - 1 : Scripts[i] \in recorded

DoneIsMigrated ==
    \A r \in Runners : pc[r] = "done" =>
        \A i \in DOMAIN Scripts : Scripts[i] \in recorded

\* The script between the two statements is applied, is not recorded, and is
\* in the hands of one runner: the other one failed to apply it.
RecordingAlone ==
    /\ \A r \in Runners : pc[r] = "record" =>
          Scripts[at[r]] \in applied /\ Scripts[at[r]] \notin recorded
    /\ \A r, s \in Runners : pc[r] = "record" /\ pc[s] = "record" => r = s

\* What SchemaInOrder needs to be inductive.
MigrateInv == /\ M!MigrateTypeOK
              /\ SchemaInOrder
              /\ PassedAreRecorded
              /\ DoneIsMigrated
              /\ RecordingAlone

-----------------------------------------------------------------------------
\* The roster is what is left of the rows Start read, and the rows of its lines
\* are still as they were read, but for the one just recorded.
RosterIsLeft ==
    /\ roster \in Seq([line : LineSet, jid : Jids \cup {NoJid}])
    /\ \A i, j \in DOMAIN roster : roster[i].line = roster[j].line => i = j
    /\ \A i \in DOMAIN roster :
          i > 1 \/ step # "register" => roster[i].jid = rows[roster[i].line]

\* A line has a client in the map, or is still on the roster.
ServedOrLeft ==
    phase \in {"serving", "stopped"} \/ (phase = "starting" /\ step # "list") =>
        \A l \in LineSet :
            sessions[l] # NoJid <=> ~ \E i \in DOMAIN roster : roster[i].line = l

\* Nothing is in memory before Start lists the lines, and nothing is left of
\* the roster after it.
NothingHeld ==
    /\ phase = "off" \/ step = "list" => sessions = Nobody /\ roster = <<>>
    /\ phase \in {"serving", "stopped"} => roster = <<>>
    /\ phase = "off" => step = "list" /\ connected = Nobody

\* Where Start is with its client.
ClientUnderWay ==
    phase = "starting" =>
        /\ step = "connect" => device = rows[Line] /\ device # NoJid
        /\ step = "qr" => rows[Line] \notin devices
        /\ step = "record" => device # NoJid
        /\ step = "record" => device = connected[Line] \/ device \notin devices
        /\ step = "register" =>
              /\ device = rows[Line] /\ device # NoJid
              /\ device = connected[Line] \/ device \notin devices

\* A client of the map receives the events of its line, unless it is unlinked,
\* also if another line was given its device since and Record is about to
\* refuse it, or the manager stopped.
ClientsReceive ==
    \A l \in LineSet : phase # "stopped" /\ sessions[l] # NoJid =>
        \/ connected[l] = sessions[l] \/ sessions[l] \notin devices
        \/ phase = "starting" /\ step = "record" /\ sessions[l] = device

\* What OneDevicePerLine, EveryLineServed and StopDisconnectsAll need to be
\* inductive.
SessionsInv == /\ SessionsTypeOK
               /\ pairings \in [LineSet -> Nat]
               /\ RosterIsLeft
               /\ ServedOrLeft
               /\ NothingHeld
               /\ ClientUnderWay
               /\ ClientsReceive
               /\ OneDevicePerLine
               /\ StopDisconnectsAll

StartupInv == /\ MigrateInv
              /\ SessionsInv
              /\ StartupTypeOK
              /\ phase # "off" => /\ pc[Run] = "idle"
                                  /\ \A i \in DOMAIN Scripts : Scripts[i] \in recorded

-----------------------------------------------------------------------------
\* The scripts are a finite list, each in it once.
LEMMA ScriptsFacts ==
    /\ Len(Scripts) \in Nat
    /\ DOMAIN Scripts = 1 .. Len(Scripts)
    /\ \A i, j \in 1 .. Len(Scripts) : Scripts[i] = Scripts[j] => i = j
BY StartupAssumption

\* A step of one runner that leaves the schema alone.
LEMMA GoesKeepsInv ==
    ASSUME MigrateInv, NEW r \in Runners, NEW to, NEW position \in 1 .. Len(Scripts) + 1,
           M!Goes(r, to, position), applied' = applied, recorded' = recorded,
           to \in {"idle", "check", "apply", "done"},
           to = "apply" => position \in DOMAIN Scripts,
           to \in {"check", "apply"} =>
               \A i \in 1 .. position - 1 : Scripts[i] \in recorded,
           to = "done" => \A i \in DOMAIN Scripts : Scripts[i] \in recorded
    PROVE  MigrateInv'
<1>1. /\ pc \in [Runners -> {"idle", "check", "apply", "record", "done"}]
      /\ at \in [Runners -> 1 .. Len(Scripts) + 1]
      /\ pc' = [pc EXCEPT ![r] = to]
      /\ at' = [at EXCEPT ![r] = position]
      BY DEF MigrateInv, M!MigrateTypeOK, M!Goes, Runners
<1>2. /\ pc'[r] = to /\ at'[r] = position
      /\ \A s \in Runners \ {r} : pc'[s] = pc[s] /\ at'[s] = at[s]
      BY <1>1
<1>3. M!MigrateTypeOK'
      BY <1>1, <1>2 DEF MigrateInv, M!MigrateTypeOK, Runners
<1>4. SchemaInOrder'
      BY DEF MigrateInv, SchemaInOrder, M!SchemaInOrder
<1>5. PassedAreRecorded'
      <2> SUFFICES ASSUME NEW s \in Runners, pc'[s] \in {"check", "apply", "record"},
                          NEW i \in 1 .. at'[s] - 1
                   PROVE  Scripts[i] \in recorded
          BY DEF PassedAreRecorded
      <2>1. CASE s = r
            BY <2>1, <1>2
      <2>2. CASE s # r
            BY <2>2, <1>2 DEF MigrateInv, PassedAreRecorded
      <2> QED BY <2>1, <2>2
<1>6. DoneIsMigrated'
      BY <1>2 DEF MigrateInv, DoneIsMigrated
<1>7. RecordingAlone'
      BY <1>2 DEF MigrateInv, RecordingAlone
<1> QED BY <1>3, <1>4, <1>5, <1>6, <1>7 DEF MigrateInv

\* The first n scripts are the first n-1 and the n-th, which is not among those.
LEMMA FirstStep ==
    ASSUME NEW n \in 1 .. Len(Scripts)
    PROVE  /\ M!First(n) = M!First(n - 1) \cup {Scripts[n]}
           /\ Scripts[n] \notin M!First(n - 1)
           /\ \A i \in 1 .. Len(Scripts) : Scripts[i] \in M!First(n) <=> i <= n
BY ScriptsFacts DEF M!First

\* The script that is applied while earlier ones are recorded is the first one
\* that is not.
LEMMA ApplyKeepsInv ==
    ASSUME MigrateInv, NEW r \in Runners, pc[r] = "apply", Scripts[at[r]] \notin applied,
           applied' = applied \cup {Scripts[at[r]]}, recorded' = recorded,
           M!Goes(r, "record", at[r]) \/ M!GivesUp(r)
    PROVE  MigrateInv'
<1> DEFINE k == at[r]
<1>1. /\ pc \in [Runners -> {"idle", "check", "apply", "record", "done"}]
      /\ at \in [Runners -> 1 .. Len(Scripts) + 1]
      /\ k \in 1 .. Len(Scripts)
      BY ScriptsFacts DEF MigrateInv, M!MigrateTypeOK, Runners
<1>2. PICK n \in 0 .. Len(Scripts) :
          /\ applied = M!First(n)
          /\ recorded = M!First(n) \/ (n > 0 /\ recorded = M!First(n - 1))
      BY DEF MigrateInv, SchemaInOrder, M!SchemaInOrder
<1>3. \A i \in 1 .. k - 1 : Scripts[i] \in recorded
      BY DEF MigrateInv, PassedAreRecorded
<1>4. k = n + 1 /\ recorded = M!First(n)
      <2>1. n < k
            BY <1>1, <1>2, ScriptsFacts DEF M!First
      <2>2. \A i \in 1 .. k - 1 : i <= n
            BY <1>1, <1>2, <1>3, ScriptsFacts DEF M!First
      <2>3. k = n + 1
            BY <2>1, <2>2, <1>1, <1>2, ScriptsFacts
      <2>4. CASE n > 0 /\ recorded = M!First(n - 1)
            <3>1. Scripts[n] \in recorded
                  BY <1>3, <2>3, <2>4, <1>2
            <3>2. Scripts[n] \notin M!First(n - 1)
                  BY FirstStep, <2>4, <1>2
            <3> QED BY <3>1, <3>2, <2>4
      <2> QED BY <1>2, <2>3, <2>4
<1>5. SchemaInOrder'
      <2>1. applied' = M!First(n + 1)
            <3>1. M!First(n + 1) = M!First(n + 1 - 1) \cup {Scripts[n + 1]}
                  BY FirstStep, <1>4, <1>1
            <3>2. n + 1 - 1 = n
                  BY <1>2
            <3> QED BY <3>1, <3>2, <1>2, <1>4
      <2>2. n + 1 \in 0 .. Len(Scripts) /\ n + 1 - 1 = n /\ n + 1 > 0
            BY <1>1, <1>2, <1>4, ScriptsFacts
      <2> QED BY <2>1, <2>2, <1>4 DEF SchemaInOrder, M!SchemaInOrder
<1>6. PICK to \in {"record", "idle"} : \E position \in 1 .. Len(Scripts) + 1 :
          /\ to = "record" => position = k
          /\ pc' = [pc EXCEPT ![r] = to] /\ at' = [at EXCEPT ![r] = position]
      BY <1>1, ScriptsFacts DEF M!Goes, M!GivesUp
<1>7. /\ pc'[r] = to
      /\ to = "record" => at'[r] = k
      /\ \A s \in Runners \ {r} : pc'[s] = pc[s] /\ at'[s] = at[s]
      BY <1>1, <1>6
<1>8. M!MigrateTypeOK'
      BY <1>1, <1>6, <1>7, ScriptsFacts DEF MigrateInv, M!MigrateTypeOK, Runners
<1>9. PassedAreRecorded'
      BY <1>3, <1>7 DEF MigrateInv, PassedAreRecorded
<1>10. DoneIsMigrated'
      BY <1>7 DEF MigrateInv, DoneIsMigrated
<1>11. RecordingAlone'
      <2>1. \A s \in Runners : pc[s] # "record"
            BY <1>2, <1>4 DEF MigrateInv, RecordingAlone
      <2>2. Scripts[k] \notin recorded
            BY <1>2, <1>4
      <2> QED BY <2>1, <2>2, <1>7 DEF RecordingAlone
<1> QED BY <1>5, <1>8, <1>9, <1>10, <1>11 DEF MigrateInv

\* The one unrecorded script is recorded.
LEMMA RecordKeepsInv ==
    ASSUME MigrateInv, NEW r \in Runners, pc[r] = "record",
           recorded' = recorded \cup {Scripts[at[r]]}, applied' = applied,
           M!Goes(r, "check", at[r] + 1) \/ M!GivesUp(r)
    PROVE  MigrateInv'
<1> DEFINE k == at[r]
<1>1. /\ pc \in [Runners -> {"idle", "check", "apply", "record", "done"}]
      /\ at \in [Runners -> 1 .. Len(Scripts) + 1]
      /\ k \in 1 .. Len(Scripts)
      BY ScriptsFacts DEF MigrateInv, M!MigrateTypeOK, Runners
<1>2. PICK n \in 0 .. Len(Scripts) :
          /\ applied = M!First(n)
          /\ recorded = M!First(n) \/ (n > 0 /\ recorded = M!First(n - 1))
      BY DEF MigrateInv, SchemaInOrder, M!SchemaInOrder
<1>3. Scripts[k] \in applied /\ Scripts[k] \notin recorded
      BY DEF MigrateInv, RecordingAlone
<1>4. n \in 1 .. Len(Scripts) /\ recorded = M!First(n - 1)
      BY <1>2, <1>3
<1>5. k = n
      BY <1>1, <1>2, <1>3, <1>4, ScriptsFacts DEF M!First
<1>6. recorded' = M!First(n)
      BY <1>4, <1>5, FirstStep
<1>7. SchemaInOrder'
      BY <1>2, <1>6 DEF SchemaInOrder, M!SchemaInOrder
<1>8. PICK to \in {"check", "idle"} : \E position \in 1 .. Len(Scripts) + 1 :
          /\ to = "check" => position = k + 1
          /\ pc' = [pc EXCEPT ![r] = to] /\ at' = [at EXCEPT ![r] = position]
      BY <1>1, ScriptsFacts DEF M!Goes, M!GivesUp
<1>9. /\ pc'[r] = to
      /\ to = "check" => at'[r] = k + 1
      /\ \A s \in Runners \ {r} : pc'[s] = pc[s] /\ at'[s] = at[s]
      BY <1>1, <1>8
<1>10. M!MigrateTypeOK'
      BY <1>1, <1>8, <1>9, ScriptsFacts DEF MigrateInv, M!MigrateTypeOK, Runners
<1>11. PassedAreRecorded'
      <2> SUFFICES ASSUME NEW s \in Runners, pc'[s] \in {"check", "apply", "record"},
                          NEW i \in 1 .. at'[s] - 1
                   PROVE  Scripts[i] \in recorded'
          BY DEF PassedAreRecorded
      <2>1. CASE s = r
            <3>1. i \in 1 .. k
                  BY <2>1, <1>9, <1>1
            <3>2. \A j \in 1 .. k - 1 : Scripts[j] \in recorded
                  BY DEF MigrateInv, PassedAreRecorded
            <3>3. i \in 1 .. k - 1 \/ i = k
                  BY <3>1, <1>1
            <3> QED BY <3>2, <3>3
      <2>2. CASE s # r
            BY <2>2, <1>9 DEF MigrateInv, PassedAreRecorded
      <2> QED BY <2>1, <2>2
<1>12. DoneIsMigrated'
      BY <1>9 DEF MigrateInv, DoneIsMigrated
<1>13. RecordingAlone'
      BY <1>9 DEF MigrateInv, RecordingAlone
<1> QED BY <1>7, <1>10, <1>11, <1>12, <1>13 DEF MigrateInv

\* A step of a runner.
RunnerStep(r) == M!BeginMigrate(r) \/ M!Migrating(r) \/ M!Migrated(r) \/ M!Killed(r)

\* A statement of either runner keeps the order of the schema, whatever the other one did in between.
LEMMA RunnerKeepsInv ==
    ASSUME MigrateInv, NEW r \in Runners, RunnerStep(r)
    PROVE  MigrateInv'
<1>1. /\ at[r] \in 1 .. Len(Scripts) + 1
      /\ pc[r] \in {"check", "apply", "record"} =>
             \A i \in 1 .. at[r] - 1 : Scripts[i] \in recorded
      /\ 1 \in 1 .. Len(Scripts) + 1
      BY ScriptsFacts DEF MigrateInv, M!MigrateTypeOK, PassedAreRecorded, Runners
<1>2. ASSUME M!GivesUp(r), applied' = applied, recorded' = recorded
      PROVE  MigrateInv'
      <2>1. M!Goes(r, "idle", 1)
            BY <1>2 DEF M!GivesUp
      <2> QED BY <2>1, <1>1, <1>2, GoesKeepsInv
<1>3. CASE M!BeginMigrate(r)
      <2>1. M!Goes(r, "check", 1) /\ applied' = applied /\ recorded' = recorded
            BY <1>3 DEF M!BeginMigrate, M!schemaVars
      <2>2. \A i \in 1 .. 1 - 1 : Scripts[i] \in recorded
            OBVIOUS
      <2> QED BY <2>1, <2>2, <1>1, GoesKeepsInv
<1>4. CASE M!CheckRecorded(r)
      <2>0. pc[r] = "check" /\ applied' = applied /\ recorded' = recorded
            BY <1>4 DEF M!CheckRecorded, M!schemaVars
      <2>1. CASE at[r] > Len(Scripts) /\ M!Goes(r, "done", at[r])
            <3>1. \A i \in DOMAIN Scripts : Scripts[i] \in recorded
                  BY <2>0, <2>1, <1>1, ScriptsFacts
            <3> QED BY <3>1, <2>0, <2>1, <1>1, GoesKeepsInv
      <2>2. CASE /\ at[r] <= Len(Scripts) /\ Scripts[at[r]] \in recorded
                 /\ M!Goes(r, "check", at[r] + 1)
            <3>1. at[r] + 1 \in 1 .. Len(Scripts) + 1
                  BY <2>2, <1>1, ScriptsFacts
            <3>2. \A i \in 1 .. (at[r] + 1) - 1 : i \in 1 .. at[r] - 1 \/ i = at[r]
                  BY <1>1, ScriptsFacts
            <3>3. \A i \in 1 .. (at[r] + 1) - 1 : Scripts[i] \in recorded
                  BY <3>2, <2>0, <2>2, <1>1
            <3> QED BY <3>1, <3>3, <2>0, <2>2, GoesKeepsInv
      <2>3. CASE at[r] <= Len(Scripts) /\ M!Goes(r, "apply", at[r])
            <3>1. at[r] \in DOMAIN Scripts
                  BY <2>3, <1>1, ScriptsFacts
            <3> QED BY <3>1, <2>0, <2>3, <1>1, GoesKeepsInv
      <2>4. CASE M!GivesUp(r)
            BY <2>4, <2>0, <1>2
      <2> QED BY <1>4, <2>1, <2>2, <2>3, <2>4 DEF M!CheckRecorded, M!Script
<1>5. CASE M!ApplyScript(r)
      <2>1. pc[r] = "apply" /\ recorded' = recorded
            BY <1>5 DEF M!ApplyScript
      <2>2. CASE /\ Scripts[at[r]] \notin applied
                 /\ applied' = applied \cup {Scripts[at[r]]}
                 /\ M!Goes(r, "record", at[r]) \/ M!GivesUp(r)
            BY <2>1, <2>2, ApplyKeepsInv
      <2>3. CASE M!GivesUp(r) /\ applied' = applied
            BY <2>1, <2>3, <1>2
      <2> QED BY <1>5, <2>2, <2>3 DEF M!ApplyScript, M!Script
<1>6. CASE M!RecordScript(r)
      <2>1. pc[r] = "record" /\ applied' = applied
            BY <1>6 DEF M!RecordScript
      <2>2. CASE /\ recorded' = recorded \cup {Scripts[at[r]]}
                 /\ M!Goes(r, "check", at[r] + 1) \/ M!GivesUp(r)
            BY <2>1, <2>2, RecordKeepsInv
      <2>3. CASE M!GivesUp(r) /\ recorded' = recorded
            BY <2>1, <2>3, <1>2
      <2> QED BY <1>6, <2>2, <2>3 DEF M!RecordScript, M!Script
<1>7. CASE M!Migrated(r)
      <2>1. M!GivesUp(r) /\ applied' = applied /\ recorded' = recorded
            BY <1>7 DEF M!Migrated, M!GivesUp, M!schemaVars
      <2> QED BY <2>1, <1>2
<1>8. CASE M!Killed(r)
      BY <1>2, <1>8 DEF M!Killed, M!schemaVars
<1> QED BY <1>3, <1>4, <1>5, <1>6, <1>7, <1>8 DEF RunnerStep, M!Migrating

\* What a step of a runner does to the other one and to the records.
LEMMA RunnerTouches ==
    ASSUME MigrateInv, NEW r \in Runners, RunnerStep(r)
    PROVE  /\ \A s \in Runners \ {r} : pc'[s] = pc[s]
           /\ recorded \subseteq recorded'
<1>1. pc \in [Runners -> {"idle", "check", "apply", "record", "done"}]
      BY DEF MigrateInv, M!MigrateTypeOK, Runners
<1>2. \E to : pc' = [pc EXCEPT ![r] = to]
      BY DEF RunnerStep, M!BeginMigrate, M!Migrating, M!CheckRecorded, M!ApplyScript,
             M!RecordScript, M!Migrated, M!Killed, M!GivesUp, M!Goes
<1>3. recorded \subseteq recorded'
      BY DEF RunnerStep, M!BeginMigrate, M!Migrating, M!CheckRecorded, M!ApplyScript,
             M!RecordScript, M!Migrated, M!Killed, M!schemaVars
<1> QED BY <1>1, <1>2, <1>3

-----------------------------------------------------------------------------
Entries == [line : LineSet, jid : Jids \cup {NoJid}]

\* The line under way is the head of what is left to start.
LEMMA RosterFacts ==
    ASSUME RosterIsLeft, roster # <<>>
    PROVE  /\ Line = roster[1].line /\ Head(roster) = roster[1]
           /\ Line \in LineSet
           /\ Head(roster).jid \in Jids \cup {NoJid}
           /\ 1 \in DOMAIN roster
           /\ Tail(roster) \in Seq(Entries)
           /\ \A i \in DOMAIN Tail(roster) :
                  i + 1 \in DOMAIN roster /\ Tail(roster)[i] = roster[i + 1]
           /\ \A i \in DOMAIN roster : i = 1 \/ i - 1 \in DOMAIN Tail(roster)
           /\ DOMAIN Tail(roster) \subseteq Nat \ {0} /\ DOMAIN roster \subseteq Nat \ {0}
<1>1. roster \in Seq(Entries) /\ roster # <<>>
      BY DEF RosterIsLeft, Entries
<1>2. Head(roster) = roster[1] /\ 1 \in DOMAIN roster /\ roster[1] \in Entries
      BY <1>1
<1> QED BY <1>1, <1>2 DEF Line, Entries

\* What every action of the loop of Start knows.
LEMMA UnderWayFacts ==
    ASSUME SessionsInv, phase = "starting", step # "list"
    PROVE  /\ roster # <<>>
           /\ sessions[Line] = NoJid
           /\ step # "register" => Head(roster).jid = rows[Line]
<1>1. roster # <<>>
      BY DEF SessionsInv, SessionsTypeOK
<1>2. Line \in LineSet /\ 1 \in DOMAIN roster /\ roster[1].line = Line
      BY <1>1, RosterFacts DEF SessionsInv
<1>3. sessions[Line] = NoJid
      BY <1>2 DEF SessionsInv, ServedOrLeft
<1>4. step # "register" => roster[1].jid = rows[roster[1].line]
      BY <1>2 DEF SessionsInv, RosterIsLeft
<1> QED BY <1>1, <1>2, <1>3, <1>4, RosterFacts DEF SessionsInv

\* The death of the process loses clients and keeps rows and devices.
LEMMA DiesKeepsInv ==
    ASSUME SessionsInv, Dies, devices' = devices, boots' = boots, pairings' = pairings,
           rows' \in [LineSet -> Jids \cup {NoJid}],
           \A l, k \in LineSet : l # k /\ rows'[l] = rows'[k] => rows'[l] = NoJid
    PROVE  SessionsInv'
<1>1. /\ phase' = "off" /\ cancelled' = FALSE /\ roster' = <<>> /\ step' = "list"
      /\ device' = NoJid /\ connected' = Nobody /\ sessions' = Nobody
      BY DEF Dies
<1>2. /\ Nobody \in [LineSet -> Jids \cup {NoJid}]
      /\ \A l \in LineSet : Nobody[l] = NoJid
      BY DEF Nobody
<1>3. SessionsTypeOK' /\ pairings' \in [LineSet -> Nat]
      BY <1>1, <1>2 DEF SessionsInv, SessionsTypeOK
<1>4. RosterIsLeft'
      BY <1>1 DEF RosterIsLeft
<1>5. ServedOrLeft' /\ NothingHeld' /\ ClientUnderWay' /\ StopDisconnectsAll'
      BY <1>1 DEF ServedOrLeft, NothingHeld, ClientUnderWay, StopDisconnectsAll, Nobody
<1>6. ClientsReceive' /\ OneDevicePerLine'
      BY <1>1, <1>2 DEF ClientsReceive, OneDevicePerLine
<1> QED BY <1>3, <1>4, <1>5, <1>6 DEF SessionsInv

\* Start may fail at any of its calls.
LEMMA StartFailsKeepsInv ==
    ASSUME SessionsInv, StartFails
    PROVE  SessionsInv'
BY DiesKeepsInv DEF StartFails, SessionsInv, SessionsTypeOK, OneDevicePerLine

\* Listing the lines at the beginning of Start.
LEMMA ListChannelsKeepsInv ==
    ASSUME SessionsInv, ListChannels
    PROVE  SessionsInv'
<1>1. CASE StartFails
      BY <1>1, StartFailsKeepsInv
<1> DEFINE read == [i \in DOMAIN Lines |-> [line |-> Lines[i], jid |-> rows[Lines[i]]]]
<1>2. CASE /\ Lines # <<>> /\ Next(read)
           /\ UNCHANGED <<rows, devices, cancelled, boots, device, connected, sessions,
                          pairings>>
      <2>1. /\ phase = "starting" /\ step = "list" /\ sessions = Nobody
            /\ rows \in [LineSet -> Jids \cup {NoJid}]
            BY DEF ListChannels, At, SessionsInv, NothingHeld, SessionsTypeOK
      <2>2. /\ Lines \in Seq(LineSet) /\ Len(Lines) \in Nat /\ Len(Lines) # 0
            /\ DOMAIN Lines = 1 .. Len(Lines)
            BY <1>2, SessionsAssumption
      <2>3. \A i \in 1 .. Len(Lines) : Lines[i] \in LineSet
            BY <2>2
      <2>4. read \in Seq(Entries) /\ DOMAIN read = 1 .. Len(Lines)
            <3>1. \A i \in 1 .. Len(Lines) :
                      [line |-> Lines[i], jid |-> rows[Lines[i]]] \in Entries
                  BY <2>1, <2>3 DEF Entries
            <3> QED BY <3>1, <2>2
      <2>5. read # <<>>
            BY <2>4, <2>2
      <2>6. roster' = read /\ step' = "load" /\ phase' = "starting"
            BY <1>2, <2>5 DEF Next
      <2>7. /\ SessionsTypeOK' /\ pairings' \in [LineSet -> Nat]
            BY <1>2, <2>5, <2>6 DEF SessionsInv, SessionsTypeOK
      <2>8. RosterIsLeft'
            BY <1>2, <2>2, <2>4, <2>6, SessionsAssumption DEF RosterIsLeft, Entries
      <2>9. \A l \in LineSet : sessions'[l] = NoJid /\ \E i \in DOMAIN roster' : roster'[i].line = l
            <3>1. \A l \in LineSet : \E i \in 1 .. Len(Lines) : read[i].line = l
                  BY <2>2 DEF LineSet
            <3> QED BY <3>1, <1>2, <2>1, <2>4, <2>6 DEF Nobody
      <2>10. ServedOrLeft' /\ NothingHeld' /\ ClientUnderWay' /\ StopDisconnectsAll'
            BY <2>6, <2>9 DEF ServedOrLeft, NothingHeld, ClientUnderWay, StopDisconnectsAll
      <2>11. ClientsReceive' /\ OneDevicePerLine'
            BY <2>9, <1>2 DEF ClientsReceive, OneDevicePerLine, SessionsInv
      <2> QED BY <2>7, <2>8, <2>10, <2>11 DEF SessionsInv
<1> QED BY <1>1, <1>2 DEF ListChannels

\* Loading the recorded device of a line, or a new one.
LEMMA LoadDeviceKeepsInv ==
    ASSUME SessionsInv, LoadDevice
    PROVE  SessionsInv'
<1>1. phase = "starting" /\ step = "load" /\ Head(roster).jid = rows[Line]
      BY UnderWayFacts DEF LoadDevice, At
<1>2. CASE StartFails
      BY <1>2, StartFailsKeepsInv
<1>3. CASE /\ \/ device' = NoJid /\ step' = "qr" /\ rows[Line] \notin devices
              \/ device' = rows[Line] /\ step' = "connect" /\ rows[Line] # NoJid
           /\ UNCHANGED <<rows, devices, phase, cancelled, boots, roster, connected, sessions,
                          pairings>>
      <2>1. rows[Line] \in Jids \cup {NoJid}
            BY <1>1, UnderWayFacts, RosterFacts DEF SessionsInv, SessionsTypeOK
      <2>2. SessionsTypeOK' /\ pairings' \in [LineSet -> Nat]
            BY <1>1, <1>3, <2>1 DEF SessionsInv, SessionsTypeOK
      <2>3. RosterIsLeft'
            BY <1>1, <1>3 DEF SessionsInv, RosterIsLeft
      <2>4. ServedOrLeft' /\ NothingHeld' /\ ClientUnderWay' /\ StopDisconnectsAll'
            BY <1>1, <1>3 DEF SessionsInv, ServedOrLeft, NothingHeld, ClientUnderWay,
                              StopDisconnectsAll, Line
      <2>5. ClientsReceive' /\ OneDevicePerLine'
            BY <1>1, <1>3 DEF SessionsInv, ClientsReceive, OneDevicePerLine
      <2> QED BY <2>2, <2>3, <2>4, <2>5 DEF SessionsInv
<1>4. NoJid \notin devices
      BY SessionsAssumption DEF SessionsInv, SessionsTypeOK
<1> QED BY <1>1, <1>2, <1>3, <1>4 DEF LoadDevice

\* Connecting the client of a recorded device.
LEMMA ConnectKeepsInv ==
    ASSUME SessionsInv, Connect
    PROVE  SessionsInv'
<1>1. /\ phase = "starting" /\ step = "connect" /\ Line \in LineSet
      /\ device = rows[Line] /\ device # NoJid /\ sessions[Line] = NoJid
      BY UnderWayFacts, RosterFacts DEF Connect, At, SessionsInv, ClientUnderWay
<1>2. CASE StartFails
      BY <1>2, StartFailsKeepsInv
<1>3. CASE /\ connected' = [connected EXCEPT ![Line] = device]
           /\ step' = "register"
           /\ UNCHANGED <<rows, devices, phase, cancelled, boots, roster, device, sessions,
                          pairings>>
      <2>1. /\ connected'[Line] = device
            /\ \A l \in LineSet \ {Line} : connected'[l] = connected[l]
            BY <1>1, <1>3 DEF SessionsInv, SessionsTypeOK
      <2>2. SessionsTypeOK' /\ pairings' \in [LineSet -> Nat]
            BY <1>1, <1>3 DEF SessionsInv, SessionsTypeOK
      <2>3. RosterIsLeft'
            BY <1>1, <1>3 DEF SessionsInv, RosterIsLeft
      <2>4. ServedOrLeft' /\ NothingHeld' /\ ClientUnderWay' /\ StopDisconnectsAll'
            BY <1>1, <1>3, <2>1 DEF SessionsInv, ServedOrLeft, NothingHeld, ClientUnderWay,
                                    StopDisconnectsAll, Line
      <2>5. ClientsReceive' /\ OneDevicePerLine'
            BY <1>1, <1>3, <2>1 DEF SessionsInv, ClientsReceive, OneDevicePerLine
      <2> QED BY <2>2, <2>3, <2>4, <2>5 DEF SessionsInv
<1> QED BY <1>2, <1>3 DEF Connect

\* The JID of a scan is that of no linked device.
LEMMA ScanKeepsInv ==
    ASSUME SessionsInv, Scan
    PROVE  SessionsInv'
<1>1. /\ phase = "starting" /\ step = "qr" /\ Line \in LineSet
      /\ sessions[Line] = NoJid
      BY UnderWayFacts, RosterFacts DEF Scan, At, SessionsInv
<1>2. PICK jid \in Jids \ devices :
          /\ devices' = devices \cup {jid}
          /\ device' = jid
          /\ connected' = [connected EXCEPT ![Line] = jid]
      BY DEF Scan
<1>3. /\ pairings' = [pairings EXCEPT ![Line] = @ + 1]
      /\ step' = "record"
      /\ UNCHANGED <<rows, phase, cancelled, boots, roster, sessions>>
      BY DEF Scan
<1>4. /\ connected'[Line] = jid
      /\ \A l \in LineSet \ {Line} : connected'[l] = connected[l]
      BY <1>1, <1>2 DEF SessionsInv, SessionsTypeOK
<1>5. jid # NoJid
      BY <1>2, SessionsAssumption
<1>6. SessionsTypeOK' /\ pairings' \in [LineSet -> Nat]
      BY <1>1, <1>2, <1>3 DEF SessionsInv, SessionsTypeOK
<1>7. RosterIsLeft'
      BY <1>1, <1>3 DEF SessionsInv, RosterIsLeft
<1>8. ServedOrLeft' /\ NothingHeld' /\ StopDisconnectsAll'
      BY <1>1, <1>3 DEF SessionsInv, ServedOrLeft, NothingHeld, StopDisconnectsAll
<1>9. ClientUnderWay'
      BY <1>1, <1>2, <1>3, <1>4, <1>5 DEF ClientUnderWay, Line
<1>10. OneDevicePerLine'
      BY <1>3 DEF SessionsInv, OneDevicePerLine
<1>11. ClientsReceive'
      BY <1>1, <1>2, <1>3, <1>4 DEF SessionsInv, ClientsReceive, OneDevicePerLine
<1> QED BY <1>6, <1>7, <1>8, <1>9, <1>10, <1>11 DEF SessionsInv

\* Recording a new device in wa_channels.
LEMMA RecordKeepsSessionsInv ==
    ASSUME SessionsInv, Record
    PROVE  SessionsInv'
<1>1. /\ phase = "starting" /\ step = "record" /\ Line \in LineSet
      /\ sessions[Line] = NoJid /\ roster # <<>>
      /\ device # NoJid
      /\ device = connected[Line] \/ device \notin devices
      BY UnderWayFacts, RosterFacts DEF Record, At, SessionsInv, ClientUnderWay
<1>2. CASE StartFails
      BY <1>2, StartFailsKeepsInv
<1>3. CASE rows' = [rows EXCEPT ![Line] = device] /\ ~HeldElsewhere
      <2> \A l \in LineSet \ {Line} : rows[l] # device
          BY <1>3 DEF HeldElsewhere
      <2>1. /\ rows' \in [LineSet -> Jids \cup {NoJid}]
            /\ rows'[Line] = device
            /\ \A l \in LineSet \ {Line} : rows'[l] = rows[l]
            BY <1>1, <1>3 DEF SessionsInv, SessionsTypeOK
      <2>2. \A l, k \in LineSet : l # k /\ rows'[l] = rows'[k] => rows'[l] = NoJid
            BY <1>1, <2>1 DEF SessionsInv, OneDevicePerLine
      <2>3. CASE Dies /\ UNCHANGED <<devices, boots, pairings>>
            BY <2>1, <2>2, <2>3, DiesKeepsInv
      <2>4. CASE /\ step' = "register"
                 /\ UNCHANGED <<devices, phase, cancelled, boots, roster, device, connected,
                                sessions, pairings>>
            <3>1. SessionsTypeOK' /\ pairings' \in [LineSet -> Nat]
                  BY <1>1, <2>1, <2>4 DEF SessionsInv, SessionsTypeOK
            <3>2. RosterIsLeft'
                  <4>1. \A i \in DOMAIN roster : i > 1 => roster[i].line \in LineSet \ {Line}
                        <5>1. /\ Line = roster[1].line /\ 1 \in DOMAIN roster
                              /\ roster \in Seq(Entries)
                              /\ \A i, j \in DOMAIN roster :
                                    roster[i].line = roster[j].line => i = j
                              BY <1>1, RosterFacts DEF SessionsInv, RosterIsLeft, Entries
                        <5>2. \A i \in DOMAIN roster : roster[i] \in Entries
                              BY <5>1
                        <5>3. \A i \in DOMAIN roster : roster[i].line \in LineSet
                              BY <5>2 DEF Entries
                        <5> QED BY <5>1, <5>3
                  <4> QED BY <1>1, <2>1, <2>4, <4>1 DEF SessionsInv, RosterIsLeft
            <3>3. ServedOrLeft' /\ NothingHeld' /\ StopDisconnectsAll'
                  BY <1>1, <2>4 DEF SessionsInv, ServedOrLeft, NothingHeld, StopDisconnectsAll
            <3>4. ClientUnderWay'
                  BY <1>1, <2>1, <2>4 DEF ClientUnderWay, Line
            <3>5. ClientsReceive'
                  <4>1. \A l \in LineSet : sessions[l] # NoJid => sessions[l] # device
                        BY <1>1 DEF SessionsInv, OneDevicePerLine
                  <4> QED BY <1>1, <2>4, <4>1 DEF SessionsInv, ClientsReceive
            <3>6. OneDevicePerLine'
                  BY <1>1, <2>1, <2>2, <2>4 DEF SessionsInv, OneDevicePerLine
            <3> QED BY <3>1, <3>2, <3>3, <3>4, <3>5, <3>6 DEF SessionsInv
      <2> QED BY <1>3, <2>3, <2>4, <1>2 DEF Record
<1> QED BY <1>2, <1>3 DEF Record

\* Entering the client into the session map.
LEMMA RegisterKeepsInv ==
    ASSUME SessionsInv, Register
    PROVE  SessionsInv'
<1>1. /\ phase = "starting" /\ step = "register" /\ Line \in LineSet /\ roster # <<>>
      /\ device = rows[Line] /\ device # NoJid
      /\ device = connected[Line] \/ device \notin devices
      BY UnderWayFacts, RosterFacts DEF Register, At, SessionsInv, ClientUnderWay
<1>2. /\ sessions' = [sessions EXCEPT ![Line] = device]
      /\ roster' = Tail(roster) /\ step' = "load"
      /\ phase' = IF Tail(roster) = <<>> THEN "serving" ELSE "starting"
      /\ UNCHANGED <<rows, devices, cancelled, boots, device, connected, pairings>>
      BY DEF Register, Next
<1>3. /\ sessions'[Line] = device
      /\ \A l \in LineSet \ {Line} : sessions'[l] = sessions[l]
      BY <1>1, <1>2 DEF SessionsInv, SessionsTypeOK
<1>4. SessionsTypeOK' /\ pairings' \in [LineSet -> Nat]
      BY <1>1, <1>2 DEF SessionsInv, SessionsTypeOK
<1>5. /\ Line = roster[1].line
      /\ 1 \in DOMAIN roster
      /\ Tail(roster) \in Seq(Entries)
      /\ \A i \in DOMAIN Tail(roster) :
            i + 1 \in DOMAIN roster /\ Tail(roster)[i] = roster[i + 1]
      /\ \A i \in DOMAIN roster : i = 1 \/ i - 1 \in DOMAIN Tail(roster)
      /\ DOMAIN Tail(roster) \subseteq Nat \ {0} /\ DOMAIN roster \subseteq Nat \ {0}
      BY <1>1, RosterFacts DEF SessionsInv
<1>6. RosterIsLeft'
      <2>1. /\ \A i, j \in DOMAIN roster : roster[i].line = roster[j].line => i = j
            /\ \A i \in DOMAIN roster : i > 1 => roster[i].jid = rows[roster[i].line]
            BY DEF SessionsInv, RosterIsLeft
      <2>2. \A i, j \in DOMAIN Tail(roster) :
                Tail(roster)[i].line = Tail(roster)[j].line => i = j
            BY <1>5, <2>1
      <2>3. \A i \in DOMAIN Tail(roster) : Tail(roster)[i].jid = rows[Tail(roster)[i].line]
            BY <1>5, <2>1
      <2> QED BY <1>2, <1>5, <2>2, <2>3 DEF RosterIsLeft, Entries
<1>7. ServedOrLeft'
      <2> SUFFICES ASSUME NEW l \in LineSet
                   PROVE  sessions'[l] # NoJid
                              <=> ~ \E i \in DOMAIN Tail(roster) : Tail(roster)[i].line = l
          BY <1>2 DEF ServedOrLeft
      <2>1. sessions[l] # NoJid <=> ~ \E i \in DOMAIN roster : roster[i].line = l
            BY <1>1 DEF SessionsInv, ServedOrLeft
      <2>2. CASE l = Line
            BY <2>2, <1>1, <1>3, <1>5 DEF SessionsInv, RosterIsLeft
      <2>3. CASE l # Line
            <3>1. ASSUME NEW i \in DOMAIN roster, roster[i].line = l
                  PROVE  \E j \in DOMAIN Tail(roster) : Tail(roster)[j].line = l
                  <4>1. i - 1 \in DOMAIN Tail(roster) /\ (i - 1) + 1 = i
                        BY <3>1, <2>3, <1>5
                  <4> QED BY <4>1, <3>1, <1>5
            <3> QED BY <2>1, <2>3, <3>1, <1>3, <1>5
      <2> QED BY <2>2, <2>3
<1>8. NothingHeld' /\ ClientUnderWay' /\ StopDisconnectsAll'
      BY <1>2 DEF NothingHeld, ClientUnderWay, StopDisconnectsAll
<1>9. ClientsReceive'
      BY <1>1, <1>2, <1>3 DEF SessionsInv, ClientsReceive
<1>10. OneDevicePerLine'
      BY <1>1, <1>2, <1>3 DEF SessionsInv, OneDevicePerLine
<1> QED BY <1>4, <1>6, <1>7, <1>8, <1>9, <1>10 DEF SessionsInv

\* The phone unlinks a device.
LEMMA LogOutKeepsInv ==
    ASSUME SessionsInv, LogOut
    PROVE  SessionsInv'
<1>1. PICK l \in LineSet : /\ connected[l] # NoJid
                           /\ devices' = devices \ {connected[l]}
                           /\ connected' = [connected EXCEPT ![l] = NoJid]
      BY DEF LogOut
<1>2. UNCHANGED <<rows, phase, cancelled, boots, roster, step, device, sessions, pairings>>
      BY DEF LogOut, startVars
<1>3. /\ connected'[l] = NoJid
      /\ \A k \in LineSet \ {l} : connected'[k] = connected[k]
      BY <1>1 DEF SessionsInv, SessionsTypeOK
<1>4. phase \in {"starting", "serving"}
      BY <1>1 DEF SessionsInv, NothingHeld, StopDisconnectsAll, SessionsTypeOK, Nobody
<1>5. SessionsTypeOK' /\ pairings' \in [LineSet -> Nat]
      BY <1>1, <1>2 DEF SessionsInv, SessionsTypeOK
<1>6. RosterIsLeft' /\ ServedOrLeft' /\ NothingHeld' /\ StopDisconnectsAll' /\ OneDevicePerLine'
      BY <1>2, <1>4 DEF SessionsInv, RosterIsLeft, ServedOrLeft, NothingHeld,
                        StopDisconnectsAll, OneDevicePerLine
<1>7. ClientsReceive'
      BY <1>1, <1>2, <1>3 DEF SessionsInv, ClientsReceive
<1>8. ClientUnderWay'
      <2>1. phase = "starting" /\ step # "list" => Line \in LineSet
            BY UnderWayFacts, RosterFacts DEF SessionsInv
      <2> QED BY <1>1, <1>2, <1>3, <2>1 DEF SessionsInv, ClientUnderWay, Line
<1> QED BY <1>5, <1>6, <1>7, <1>8 DEF SessionsInv

\* Stop disconnects what the map holds.
LEMMA StopKeepsInv ==
    ASSUME SessionsInv, Stop
    PROVE  SessionsInv'
<1>1. /\ phase = "serving" /\ phase' = "stopped"
      /\ connected' = [l \in LineSet |-> IF sessions[l] # NoJid THEN NoJid ELSE connected[l]]
      /\ UNCHANGED <<rows, devices, cancelled, boots, roster, step, device, sessions, pairings>>
      BY DEF Stop, startVars
<1>2. roster = <<>> /\ \A l \in LineSet : sessions[l] # NoJid
      BY <1>1 DEF SessionsInv, NothingHeld, ServedOrLeft
<1>3. connected' = Nobody
      BY <1>1, <1>2 DEF Nobody
<1>4. SessionsTypeOK' /\ pairings' \in [LineSet -> Nat]
      BY <1>1 DEF SessionsInv, SessionsTypeOK
<1>5. RosterIsLeft' /\ ServedOrLeft' /\ NothingHeld' /\ ClientUnderWay' /\ OneDevicePerLine'
      BY <1>1 DEF SessionsInv, RosterIsLeft, ServedOrLeft, NothingHeld, ClientUnderWay,
                  OneDevicePerLine
<1>6. ClientsReceive' /\ StopDisconnectsAll'
      BY <1>1, <1>3 DEF ClientsReceive, StopDisconnectsAll
<1> QED BY <1>4, <1>5, <1>6 DEF SessionsInv

\* The signal cancels the context of the start.
LEMMA SignalKeepsInv ==
    ASSUME SessionsInv, Signal
    PROVE  SessionsInv'
<1>1. /\ cancelled' = TRUE
      /\ UNCHANGED <<rows, devices, phase, boots, roster, step, device, connected, sessions,
                     pairings>>
      BY DEF Signal, startVars
<1> QED BY <1>1 DEF SessionsInv, SessionsTypeOK, RosterIsLeft, ServedOrLeft, NothingHeld,
                    ClientUnderWay, ClientsReceive, OneDevicePerLine, StopDisconnectsAll, Line

\* A new process reads the tables its predecessors left.
LEMMA BootKeepsInv ==
    ASSUME SessionsInv, Boot
    PROVE  SessionsInv'
<1>1. /\ phase = "off" /\ phase' = "starting" /\ boots < MaxBoots /\ boots' = boots + 1
      /\ UNCHANGED <<rows, devices, cancelled, roster, step, device, connected, sessions,
                     pairings>>
      BY DEF Boot, startVars
<1>2. step = "list"
      BY <1>1 DEF SessionsInv, NothingHeld
<1>3. SessionsTypeOK' /\ pairings' \in [LineSet -> Nat]
      BY <1>1, <1>2, SessionsAssumption DEF SessionsInv, SessionsTypeOK
<1>4. RosterIsLeft' /\ ServedOrLeft' /\ NothingHeld' /\ ClientUnderWay' /\ StopDisconnectsAll'
      BY <1>1, <1>2 DEF SessionsInv, RosterIsLeft, ServedOrLeft, NothingHeld, ClientUnderWay,
                        StopDisconnectsAll
<1>5. ClientsReceive' /\ OneDevicePerLine'
      BY <1>1 DEF SessionsInv, ClientsReceive, OneDevicePerLine
<1> QED BY <1>3, <1>4, <1>5 DEF SessionsInv

\* So every step of the manager keeps its half of the invariant,
LEMMA SessionsNextKeepsInv ==
    ASSUME SessionsInv, SessionsNext
    PROVE  SessionsInv'
BY ListChannelsKeepsInv, LoadDeviceKeepsInv, ConnectKeepsInv, ScanKeepsInv,
   RecordKeepsSessionsInv, RegisterKeepsInv, LogOutKeepsInv, StopKeepsInv, SignalKeepsInv,
   BootKeepsInv, StartFailsKeepsInv DEF SessionsNext, Starting, ScanFails, ProcessEnds

\* and so do the steps of others, which leave its state alone.
LEMMA SessionsStutterKeepsInv ==
    ASSUME SessionsInv, UNCHANGED sessVars
    PROVE  SessionsInv'
BY DEF sessVars, startVars, SessionsInv, SessionsTypeOK, RosterIsLeft, ServedOrLeft,
       NothingHeld, ClientUnderWay, ClientsReceive, OneDevicePerLine, StopDisconnectsAll, Line

-----------------------------------------------------------------------------
\* At the first start no script is applied and recorded devices are of different lines.
LEMMA StartupInitInv ==
    ASSUME StartupInit
    PROVE  StartupInv
<1>1. M!MigrateInit /\ SessionsInit /\ config = NoConfig
      BY DEF StartupInit
<1>2. applied = {} /\ recorded = {} /\ pc = [r \in Runners |-> "idle"] /\ at = [r \in Runners |-> 1]
      BY <1>1 DEF M!MigrateInit, Runners
<1>3. MigrateInv
      <2>1. M!MigrateTypeOK
            BY <1>2, ScriptsFacts DEF M!MigrateTypeOK, Runners
      <2>2. SchemaInOrder
            <3>1. M!First(0) = {} /\ 0 \in 0 .. Len(Scripts)
                  BY ScriptsFacts DEF M!First
            <3> QED BY <3>1, <1>2 DEF SchemaInOrder, M!SchemaInOrder
      <2>3. PassedAreRecorded /\ DoneIsMigrated /\ RecordingAlone
            BY <1>2 DEF PassedAreRecorded, DoneIsMigrated, RecordingAlone
      <2> QED BY <2>1, <2>2, <2>3 DEF MigrateInv
<1>4. /\ rows = Paired /\ devices = {Paired[l] : l \in LineSet} \ {NoJid}
      /\ phase = "off" /\ cancelled = FALSE /\ boots = 0
      /\ roster = <<>> /\ step = "list" /\ device = NoJid
      /\ connected = Nobody /\ sessions = Nobody
      /\ pairings = [l \in LineSet |-> 0]
      BY <1>1 DEF SessionsInit
<1>5. SessionsInv
      <2>0. /\ rows \in [LineSet -> Jids \cup {NoJid}]
            /\ MaxBoots \in Nat
            BY <1>4, SessionsAssumption
      <2>1. SessionsTypeOK /\ pairings \in [LineSet -> Nat]
            <3>1. devices \subseteq Jids
                  BY <1>4, <2>0
            <3>2. pairings \in [LineSet -> Nat] /\ Nobody \in [LineSet -> Jids \cup {NoJid}]
                  BY <1>4 DEF Nobody
            <3>3. boots \in 0 .. MaxBoots
                  BY <1>4, <2>0
            <3> QED BY <1>4, <2>0, <3>1, <3>2, <3>3 DEF SessionsTypeOK
      <2>2. RosterIsLeft /\ ServedOrLeft /\ NothingHeld /\ ClientUnderWay /\ StopDisconnectsAll
            BY <1>4 DEF RosterIsLeft, ServedOrLeft, NothingHeld, ClientUnderWay,
                        StopDisconnectsAll
      <2>3. ClientsReceive /\ OneDevicePerLine
            BY <1>4, SessionsAssumption DEF ClientsReceive, OneDevicePerLine, Nobody
      <2> QED BY <2>1, <2>2, <2>3 DEF SessionsInv
<1>6. StartupTypeOK
      BY <1>1, <1>2, <1>3, <1>4, <1>5 DEF StartupTypeOK, MigrateInv, SessionsInv, Runners
<1> QED BY <1>3, <1>4, <1>5, <1>6 DEF StartupInv

\* No step of the sessions reaches the schema or the runners, and it is only a
\* step of a process that has migrated.
LEMMA StartupNextInv ==
    ASSUME StartupInv, [StartupNext]_startupVars
    PROVE  StartupInv'
<1>1. /\ MigrateInv /\ SessionsInv /\ Run \in Runners /\ Cli \in Runners /\ Run # Cli
      /\ config \in {NoConfig} \cup [provider : Providers]
      /\ config = NoConfig <=> phase = "off" /\ pc[Run] = "idle"
      /\ phase # "off" => pc[Run] = "idle" /\ \A i \in DOMAIN Scripts : Scripts[i] \in recorded
      /\ phase \in {"off", "starting", "serving", "stopped"}
      BY DEF StartupInv, StartupTypeOK, Runners, Run, Cli, SessionsInv, SessionsTypeOK
<1>2. \A p \in Providers : [provider |-> p] # NoConfig
      BY DEF Providers, NoConfig
<1>3. /\ pc \in [Runners -> {"idle", "check", "apply", "record", "done"}]
      /\ at \in [Runners -> 1 .. Len(Scripts) + 1]
      BY <1>1 DEF MigrateInv, M!MigrateTypeOK, Runners
<1> DEFINE ConfigOK == /\ config \in {NoConfig} \cup [provider : Providers]
                       /\ config = NoConfig <=> phase = "off" /\ pc[Run] = "idle"
           ServesOnly == phase # "off" =>
                             /\ pc[Run] = "idle"
                             /\ \A i \in DOMAIN Scripts : Scripts[i] \in recorded
<1>4. ASSUME MigrateInv', SessionsInv', ConfigOK', ServesOnly'
      PROVE  StartupInv'
      BY <1>4 DEF StartupInv, StartupTypeOK, MigrateInv, SessionsInv
\* A step of a runner beside the sessions.
<1>5. ASSUME NEW r \in Runners, RunnerStep(r), UNCHANGED sessVars, ConfigOK',
             phase # "off" => r # Run
      PROVE  StartupInv'
      <2>1. MigrateInv' /\ SessionsInv'
            BY <1>1, <1>5, RunnerKeepsInv, SessionsStutterKeepsInv
      <2>2. ServesOnly'
            <3>1. phase' = phase
                  BY <1>5 DEF sessVars
            <3>2. (\A s \in Runners \ {r} : pc'[s] = pc[s]) /\ recorded \subseteq recorded'
                  BY <1>1, <1>5, RunnerTouches
            <3> QED BY <1>1, <1>5, <3>1, <3>2
      <2> QED BY <1>4, <1>5, <2>1, <2>2
<1>6. CASE BeginRun
      <2>1. /\ RunnerStep(Run) /\ UNCHANGED sessVars /\ phase = "off" /\ phase' = phase
            /\ pc' = [pc EXCEPT ![Run] = "check"]
            BY <1>6 DEF BeginRun, RunnerStep, M!BeginMigrate, M!Goes, sessVars
      <2>2. PICK env \in Environments : Loads(env) /\ config' = [provider |-> Provider(env)]
            BY <1>6 DEF BeginRun
      <2>3. Provider(env) \in Providers
            BY <2>2 DEF Loads, Providers
      <2>4. ConfigOK'
            BY <1>1, <1>2, <1>3, <2>1, <2>2, <2>3
      <2> QED BY <1>1, <1>5, <2>1, <2>4
<1>7. CASE BeginCli \/ CliEnds
      <2>1. RunnerStep(Cli) /\ UNCHANGED sessVars /\ config' = config /\ phase' = phase
            BY <1>7 DEF BeginCli, CliEnds, RunnerStep, sessVars
      <2>2. pc'[Run] = pc[Run]
            BY <1>1, <2>1, RunnerTouches
      <2>3. ConfigOK'
            BY <1>1, <2>1, <2>2
      <2> QED BY <1>1, <1>5, <2>1, <2>3
<1>8. ASSUME NEW r \in Runners, MigrateStep(r) \/ Killed(r)
      PROVE  StartupInv'
      <2>1. RunnerStep(r) /\ UNCHANGED sessVars /\ phase' = phase /\ pc[r] # "idle"
            BY <1>8 DEF MigrateStep, Killed, RunnerStep, sessVars, M!Migrating, M!Killed,
                        M!CheckRecorded, M!ApplyScript, M!RecordScript
      <2>2. \A s \in Runners \ {r} : pc'[s] = pc[s]
            BY <1>1, <2>1, RunnerTouches
      <2>3. CASE r = Run
            <3>1. phase = "off" /\ config # NoConfig
                  BY <1>1, <2>1, <2>3
            <3>2. config' = IF pc'[Run] = "idle" THEN NoConfig ELSE config
                  BY <1>3, <1>8, <2>3 DEF MigrateStep, Killed, M!Killed, M!GivesUp, M!Goes
            <3>3. ConfigOK'
                  BY <1>1, <2>1, <3>1, <3>2
            <3> QED BY <1>5, <2>1, <3>1, <3>3
      <2>4. CASE r # Run
            <3>1. config' = config /\ pc'[Run] = pc[Run]
                  BY <1>1, <1>8, <2>2, <2>4 DEF MigrateStep, Killed
            <3>2. ConfigOK'
                  BY <1>1, <2>1, <3>1
            <3> QED BY <1>5, <2>1, <2>4, <3>2
      <2> QED BY <2>3, <2>4
<1>9. CASE ManagerFails
      <2>1. /\ RunnerStep(Run) /\ UNCHANGED sessVars /\ config' = NoConfig /\ phase' = phase
            /\ pc[Run] = "done" /\ pc' = [pc EXCEPT ![Run] = "idle"]
            BY <1>9 DEF ManagerFails, RunnerStep, M!Migrated, M!Goes, sessVars
      <2>2. ConfigOK' /\ phase = "off"
            BY <1>1, <1>3, <2>1
      <2> QED BY <1>1, <1>5, <2>1, <2>2
<1>10. CASE StartManager
      <2>1. /\ RunnerStep(Run) /\ Boot /\ config' = config /\ phase' = "starting"
            /\ pc[Run] = "done" /\ pc' = [pc EXCEPT ![Run] = "idle"]
            BY <1>10 DEF StartManager, RunnerStep, M!Migrated, M!Goes, Boot
      <2>2. MigrateInv' /\ SessionsInv'
            BY <1>1, <2>1, RunnerKeepsInv, BootKeepsInv
      <2>3. ConfigOK'
            BY <1>1, <2>1
      <2>4. ServesOnly'
            BY <1>1, <1>3, <2>1, RunnerTouches DEF MigrateInv, DoneIsMigrated
      <2> QED BY <1>4, <2>2, <2>3, <2>4
<1>11. CASE ManagerStep
      <2>1. /\ SessionsNext /\ phase # "off"
            /\ config' = IF phase' = "off" THEN NoConfig ELSE config
            /\ UNCHANGED <<applied, recorded, pc, at>>
            BY <1>11 DEF ManagerStep, schemaVars, runnerVars
      <2>2. SessionsInv'
            BY <1>1, <2>1, SessionsNextKeepsInv
      <2>3. MigrateInv'
            BY <1>1, <2>1 DEF MigrateInv, M!MigrateTypeOK, SchemaInOrder, M!SchemaInOrder,
                              PassedAreRecorded, DoneIsMigrated, RecordingAlone
      <2>4. ConfigOK' /\ ServesOnly'
            BY <1>1, <2>1
      <2> QED BY <1>4, <2>2, <2>3, <2>4
<1>12. CASE UNCHANGED startupVars
      <2>1. UNCHANGED sessVars /\ UNCHANGED <<applied, recorded, pc, at, config>>
            BY <1>12 DEF startupVars, schemaVars, runnerVars
      <2>2. SessionsInv' /\ phase' = phase
            BY <1>1, <2>1, SessionsStutterKeepsInv DEF sessVars
      <2>3. MigrateInv'
            BY <1>1, <2>1 DEF MigrateInv, M!MigrateTypeOK, SchemaInOrder, M!SchemaInOrder,
                              PassedAreRecorded, DoneIsMigrated, RecordingAlone
      <2> QED BY <1>1, <1>4, <2>1, <2>2, <2>3
<1> QED BY <1>6, <1>7, <1>8, <1>9, <1>10, <1>11, <1>12 DEF StartupNext, Runners

\* Both halves and their join hold throughout.
LEMMA StartupInvariant == StartupSpec => []StartupInv
<1>1. StartupInit => StartupInv
      BY StartupInitInv
<1>2. StartupInv /\ [StartupNext]_startupVars => StartupInv'
      BY StartupNextInv
<1> QED BY <1>1, <1>2, PTL DEF StartupSpec

\* The schema is always that of the first scripts, in their order, all of them
\* recorded but perhaps the last: for any scripts, two runners at once, and a
\* crash, a failure or a lost acknowledgement anywhere (db.Migrate).
THEOREM SchemaInOrderTheorem == StartupSpec => []SchemaInOrder
<1>1. StartupInv => SchemaInOrder
      BY DEF StartupInv, MigrateInv
<1> QED BY <1>1, StartupInvariant, PTL

\* Sessions run on a schema with every script applied and recorded (run()
\* migrates before it starts the manager).
THEOREM ServesMigratedTheorem == StartupSpec => []ServesMigratedSchema
<1>1. StartupInv => ServesMigratedSchema
      <2> SUFFICES ASSUME StartupInv, phase # "off"
                   PROVE  applied = M!First(Len(Scripts)) /\ recorded = applied
          BY DEF ServesMigratedSchema
      <2>1. \A i \in 1 .. Len(Scripts) : Scripts[i] \in recorded
            BY ScriptsFacts DEF StartupInv
      <2>2. PICK n \in 0 .. Len(Scripts) :
                /\ applied = M!First(n)
                /\ recorded = M!First(n) \/ (n > 0 /\ recorded = M!First(n - 1))
            BY DEF StartupInv, MigrateInv, SchemaInOrder, M!SchemaInOrder
      <2>3. \A m \in Nat : m < Len(Scripts) => Scripts[Len(Scripts)] \notin M!First(m)
            BY ScriptsFacts DEF M!First
      <2>4. n = Len(Scripts) /\ recorded = M!First(n)
            <3>1. CASE Len(Scripts) = 0
                  BY <3>1, <2>2
            <3>2. CASE Len(Scripts) > 0
                  <4>1. Scripts[Len(Scripts)] \in recorded
                        BY <2>1, <3>2, ScriptsFacts
                  <4>2. n - 1 \in Nat => Scripts[Len(Scripts)] \notin M!First(n - 1)
                        BY <2>2, <2>3, ScriptsFacts
                  <4>3. recorded = M!First(n)
                        BY <2>2, <4>1, <4>2
                  <4>4. ~ n < Len(Scripts)
                        BY <2>2, <2>3, <4>1, <4>3
                  <4>5. n \in Nat /\ n <= Len(Scripts) /\ Len(Scripts) \in Nat
                        BY ScriptsFacts
                  <4>6. n = Len(Scripts)
                        BY <4>4, <4>5
                  <4> QED BY <4>3, <4>6
            <3>3. Len(Scripts) = 0 \/ Len(Scripts) > 0
                  BY ScriptsFacts
            <3> QED BY <3>1, <3>2, <3>3
      <2> QED BY <2>2, <2>4
<1> QED BY <1>1, StartupInvariant, PTL

\* The state of process, schema and manager has its type.
THEOREM StartupTypeCorrect == StartupSpec => []StartupTypeOK
<1>1. StartupInv => StartupTypeOK
      BY DEF StartupInv
<1> QED BY <1>1, StartupInvariant, PTL

\* No two lines ever share a device, and what a line serves on is recorded.
THEOREM OneDevicePerLineTheorem == StartupSpec => []OneDevicePerLine
<1>1. StartupInv => OneDevicePerLine
      BY DEF StartupInv, SessionsInv
<1> QED BY <1>1, StartupInvariant, PTL

\* A serving manager has a client for every line (Manager.Start).
THEOREM EveryLineServedTheorem == StartupSpec => []EveryLineServed
<1>1. StartupInv => EveryLineServed
      BY DEF StartupInv, SessionsInv, EveryLineServed, NothingHeld, ServedOrLeft, ClientsReceive
<1> QED BY <1>1, StartupInvariant, PTL

\* Stop leaves no client that receives messages.
THEOREM StopDisconnectsTheorem == StartupSpec => []StopDisconnectsAll
<1>1. StartupInv => StopDisconnectsAll
      BY DEF StartupInv, SessionsInv
<1> QED BY <1>1, StartupInvariant, PTL

\* A line is paired only when its recorded device is gone.
THEOREM KeepDeviceTheorem == StartupSpec => RecordedLinesKeepTheirDevice
<1> DEFINE Keeps == \A l \in LineSet : pairings'[l] # pairings[l] =>
                       /\ rows[l] \notin devices
                       /\ \A k \in LineSet \ {l} : connected'[k] = connected[k]
<1>1. StartupInv /\ [StartupNext]_startupVars => [Keeps]_sessVars
      <2> SUFFICES ASSUME StartupInv, [StartupNext]_startupVars, sessVars' # sessVars
                   PROVE  Keeps
          OBVIOUS
      <2>1. CASE pairings' = pairings
            BY <2>1
      <2>2. CASE Scan
            <3>1. /\ phase = "starting" /\ step = "qr" /\ Line \in LineSet
                  /\ rows[Line] \notin devices
                  BY <2>2, UnderWayFacts, RosterFacts
                     DEF Scan, At, StartupInv, SessionsInv, ClientUnderWay
            <3>2. PICK jid : connected' = [connected EXCEPT ![Line] = jid]
                  BY <2>2 DEF Scan
            <3>3. pairings' = [pairings EXCEPT ![Line] = @ + 1]
                  BY <2>2 DEF Scan
            <3>4. \A k \in LineSet \ {Line} :
                      connected'[k] = connected[k] /\ pairings'[k] = pairings[k]
                  BY <3>1, <3>2, <3>3 DEF StartupInv, SessionsInv, SessionsTypeOK
            <3> QED BY <3>1, <3>4
      <2>3. pairings' = pairings \/ Scan
            BY DEF StartupNext, BeginRun, BeginCli, MigrateStep, CliEnds, StartManager,
                   ManagerFails, Killed, ManagerStep, startupVars, sessVars, SessionsNext,
                   Starting, ListChannels, LoadDevice, Connect, ScanFails, Record, Register,
                   Boot, LogOut, Signal, Stop, ProcessEnds, StartFails
      <2> QED BY <2>1, <2>2, <2>3
<1>2. StartupSpec => [][StartupNext]_startupVars
      BY PTL DEF StartupSpec
<1> QED BY <1>1, <1>2, StartupInvariant, PTL DEF RecordedLinesKeepTheirDevice
==============================================================================
