------------------------------- MODULE Sessions -------------------------------
(***************************************************************************)
(* The session manager (internal/wa/manager.go): Start connects one client *)
(* per active line, one after the other, pairing the lines that have no    *)
(* linked device; Stop disconnects them; SendText looks a client up.  The  *)
(* lines are rows of wa_channels (internal/store/channels.go).             *)
(*                                                                         *)
(* The linked devices live in whatsmeow's own tables: a pairing adds one   *)
(* there before pair() records its JID in wa_channels.                     *)
(***************************************************************************)
EXTENDS Integers, Sequences, FiniteSets

CONSTANTS Lines,       \* the active lines, a sequence without repetition
          Jids,        \* JIDs whatsmeow may give to new devices
          Paired,      \* [lines -> the JID recorded at the first start, or NoJid]
          MaxBoots,    \* bound: lives of the process
          Faults       \* "db", "ack", "wa", "stop", "crash", "logout"

NoJid == "no jid"

LineSet == {Lines[i] : i \in DOMAIN Lines}

ASSUME SessionsAssumption ==
    /\ MaxBoots \in Nat
    /\ Lines \in Seq(LineSet)
    /\ \A i, j \in DOMAIN Lines : Lines[i] = Lines[j] => i = j
    /\ NoJid \notin Jids
    /\ Paired \in [LineSet -> Jids \cup {NoJid}]
    /\ \A l, k \in LineSet : Paired[l] = Paired[k] /\ Paired[l] # NoJid => l = k

VARIABLES rows,        \* wa_channels: line -> wa_device_jid
          devices,     \* whatsmeow's device store: a set of JIDs
          phase,       \* "off", "starting", "serving" or "stopped"
          cancelled,   \* SIGINT or SIGTERM was received
          boots,       \* lives of the process so far
          roster,      \* the rows Start read: a sequence of [line, jid]
          step,        \* where Start is: "list", "load", "connect", "qr",
                       \*   "record" or "register"
          device,      \* the JID of the client under way
          connected,   \* line -> JID of a client that receives events
          sessions,    \* line -> JID of the client replies go out on
          pairings     \* history: line -> successful QR pairings

startVars == <<roster, step, device>>
sessVars  == <<rows, devices, phase, cancelled, boots, startVars, connected,
               sessions, pairings>>

Nobody == [l \in LineSet |-> NoJid]

SessionsInit ==
    /\ rows = Paired
    /\ devices = {Paired[l] : l \in LineSet} \ {NoJid}
    /\ phase = "off" /\ cancelled = FALSE /\ boots = 0
    /\ roster = <<>> /\ step = "list" /\ device = NoJid
    /\ connected = Nobody /\ sessions = Nobody
    /\ pairings = [l \in LineSet |-> 0]

-----------------------------------------------------------------------------
\* The process ends; what it held in memory is gone.
Dies ==
    /\ phase' = "off" /\ cancelled' = FALSE
    /\ roster' = <<>> /\ step' = "list" /\ device' = NoJid
    /\ connected' = Nobody /\ sessions' = Nobody

\* Start returns an error and run() with it.
StartFails == Dies /\ UNCHANGED <<rows, devices, boots, pairings>>

Boot ==
    /\ phase = "off" /\ boots < MaxBoots
    /\ phase' = "starting" /\ boots' = boots + 1
    /\ UNCHANGED <<rows, devices, cancelled, startVars, connected, sessions, pairings>>

At(s) == phase = "starting" /\ step = s

\* A statement may fail, and fails under the cancelled context.
DbFails == cancelled \/ "db" \in Faults

\* Goes on with the next line of the roster, if there is one.
Next(rest) == /\ roster' = rest
              /\ step' = "load"
              /\ phase' = IF rest = <<>> THEN "serving" ELSE "starting"

\* ListActiveChannels, in the order of (company, channel).
ListChannels ==
    /\ At("list")
    /\ \/ /\ ~cancelled /\ Lines # <<>>
          /\ Next([i \in DOMAIN Lines |-> [line |-> Lines[i], jid |-> rows[Lines[i]]]])
          /\ UNCHANGED <<rows, devices, cancelled, boots, device, connected, sessions, pairings>>
       \/ /\ DbFails \/ Lines = <<>>
          /\ StartFails

Line == Head(roster).line

\* Mutant: the line is always paired anew.
LoadNew ==
    /\ At("load")
    /\ device' = NoJid /\ step' = "qr"
    /\ UNCHANGED <<rows, devices, phase, cancelled, boots, roster, connected, sessions, pairings>>

\* GetDevice: the stored device, or a new one to pair.
LoadDevice ==
    /\ At("load")
    /\ LET jid == Head(roster).jid
       IN  \/ /\ jid = NoJid \/ (~cancelled /\ jid \notin devices)
              /\ device' = NoJid /\ step' = "qr"
              /\ UNCHANGED <<rows, devices, phase, cancelled, boots, roster, connected,
                             sessions, pairings>>
           \/ /\ ~cancelled /\ jid # NoJid /\ jid \in devices
              /\ device' = jid /\ step' = "connect"
              /\ UNCHANGED <<rows, devices, phase, cancelled, boots, roster, connected,
                             sessions, pairings>>
           \/ /\ jid # NoJid /\ DbFails
              /\ StartFails

\* client.Connect of a paired device: events arrive from here on.
Connect ==
    /\ At("connect")
    /\ \/ /\ connected' = [connected EXCEPT ![Line] = device]
          /\ step' = "register"
          /\ UNCHANGED <<rows, devices, phase, cancelled, boots, roster, device, sessions,
                         pairings>>
       \/ /\ "wa" \in Faults
          /\ StartFails

\* The QR code is scanned: whatsmeow stores the new device and connects it;
\* its JID may be one that a row still holds, of a device since unlinked ...
Scan ==
    /\ At("qr") /\ ~cancelled
    /\ \E jid \in Jids \ devices :
          /\ devices' = devices \cup {jid}
          /\ device' = jid
          /\ connected' = [connected EXCEPT ![Line] = jid]
    /\ pairings' = [pairings EXCEPT ![Line] = @ + 1]
    /\ step' = "record"
    /\ UNCHANGED <<rows, phase, cancelled, boots, roster, sessions>>

\* ... or nobody scans it until the codes run out, or the context is cancelled.
ScanFails ==
    /\ At("qr")
    /\ StartFails

\* UNIQUE (wa_device_jid): the row of another line holds the device.
HeldElsewhere == \E l \in LineSet \ {Line} : rows[l] = device

\* Mutant: an error of the statement is passed over.
RecordLoosely ==
    /\ At("record")
    /\ step' = "register"
    /\ rows' = IF DbFails \/ HeldElsewhere THEN rows ELSE [rows EXCEPT ![Line] = device]
    /\ UNCHANGED <<devices, phase, cancelled, boots, roster, device, connected, sessions,
                   pairings>>

\* SetChannelDeviceJID.
Record ==
    /\ At("record")
    /\ \/ /\ ~cancelled /\ ~HeldElsewhere
          /\ rows' = [rows EXCEPT ![Line] = device]
          /\ step' = "register"
          /\ UNCHANGED <<devices, phase, cancelled, boots, roster, device, connected, sessions,
                         pairings>>
       \/ /\ DbFails \/ HeldElsewhere
          /\ StartFails
       \/ /\ ~cancelled /\ "ack" \in Faults /\ ~HeldElsewhere
          /\ rows' = [rows EXCEPT ![Line] = device]
          /\ Dies
          /\ UNCHANGED <<devices, boots, pairings>>

\* Mutants: the map is left alone, the loop stays where it is.
RegisterNothing ==
    /\ At("register")
    /\ Next(Tail(roster))
    /\ UNCHANGED <<rows, devices, cancelled, boots, device, connected, sessions, pairings>>

RegisterAgain ==
    /\ At("register")
    /\ sessions' = [sessions EXCEPT ![Line] = device]
    /\ Next(roster)
    /\ UNCHANGED <<rows, devices, cancelled, boots, device, connected, pairings>>

\* The client enters the map; then the next line.
Register ==
    /\ At("register")
    /\ sessions' = [sessions EXCEPT ![Line] = device]
    /\ Next(Tail(roster))
    /\ UNCHANGED <<rows, devices, cancelled, boots, device, connected, pairings>>

-----------------------------------------------------------------------------
\* The phone unlinks a device: whatsmeow deletes it, the handler only logs.
LogOut ==
    /\ "logout" \in Faults
    /\ \E l \in LineSet :
          /\ connected[l] # NoJid
          /\ devices' = devices \ {connected[l]}
          /\ connected' = [connected EXCEPT ![l] = NoJid]
    /\ UNCHANGED <<rows, phase, cancelled, boots, startVars, sessions, pairings>>

Signal ==
    /\ "stop" \in Faults
    /\ phase \in {"starting", "serving"} /\ ~cancelled
    /\ cancelled' = TRUE
    /\ UNCHANGED <<rows, devices, phase, boots, startVars, connected, sessions, pairings>>

\* Stop disconnects the clients of the map.
Stop ==
    /\ phase = "serving" /\ cancelled
    /\ connected' = [l \in LineSet |-> IF sessions[l] # NoJid THEN NoJid ELSE connected[l]]
    /\ phase' = "stopped"
    /\ UNCHANGED <<rows, devices, cancelled, boots, startVars, sessions, pairings>>

\* run() returns after Stop, or the process is killed.
ProcessEnds ==
    /\ phase = "stopped" \/ (phase \in {"starting", "serving"} /\ "crash" \in Faults)
    /\ StartFails

Starting == ListChannels \/ LoadDevice \/ Connect \/ Scan \/ ScanFails \/ Record \/ Register

SessionsNext == Starting \/ Boot \/ LogOut \/ Signal \/ Stop \/ ProcessEnds

-----------------------------------------------------------------------------
\* Type of the manager's state.
SessionsTypeOK ==
    /\ rows \in [LineSet -> Jids \cup {NoJid}]
    /\ devices \subseteq Jids
    /\ phase \in {"off", "starting", "serving", "stopped"}
    /\ step \in {"list", "load", "connect", "qr", "record", "register"}
    /\ device \in Jids \cup {NoJid}
    /\ connected \in [LineSet -> Jids \cup {NoJid}]
    /\ sessions \in [LineSet -> Jids \cup {NoJid}]
    /\ phase = "starting" /\ step # "list" => roster # <<>>
    /\ boots \in 0 .. MaxBoots /\ cancelled \in BOOLEAN

\* "each linked device belongs to exactly one (company, channel) pair"
\* (harness.go:25): no two lines share a device, and a line that serves is
\* recorded with the device it serves on, so that attribution survives a
\* restart.
OneDevicePerLine ==
    /\ \A l, k \in LineSet : l # k =>
          /\ sessions[l] = sessions[k] => sessions[l] = NoJid
          /\ rows[l] = rows[k] => rows[l] = NoJid
    /\ \A l \in LineSet : sessions[l] # NoJid => rows[l] = sessions[l]

\* "Reinicios normais nao devem exigir um novo QR" (README.md:143): a line is
\* paired only if its recorded device is gone from the device store, and the
\* other lines keep theirs.
RecordedLinesKeepTheirDevice ==
    [][\A l \in LineSet : pairings'[l] # pairings[l] =>
           /\ rows[l] \notin devices
           /\ \A k \in LineSet \ {l} : connected'[k] = connected[k]]_sessVars

\* A serving manager has a client for every line, and its replies go out on
\* the client that receives the line's messages, unless the phone unlinked it.
EveryLineServed ==
    phase = "serving" => \A l \in LineSet :
        /\ sessions[l] # NoJid
        /\ connected[l] = sessions[l] \/ sessions[l] \notin devices

\* "Stop disconnects every client" (manager.go:103): none is left to receive
\* a message nobody will process.
StopDisconnectsAll == phase = "stopped" => connected = Nobody
==============================================================================
