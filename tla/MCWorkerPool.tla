----------------------------- MODULE MCWorkerPool -----------------------------
(* Small instances of WorkerPool for TLC: two companies, three contacts. *)
EXTENDS WorkerPool, TLC

JID(user, server) == [user |-> user, server |-> server]
Pn(user)  == JID(user, DefaultUserServer)
Lid(user) == JID(user, HiddenUserServer)
NoJID     == JID("", "")

Text(t) == [conversation |-> NoText, extended |-> t]

Event(company, chat, sender, alt, id) ==
    [company |-> company, channel |-> "CUSTOMER", fromMe |-> FALSE, group |-> FALSE,
     chat |-> chat, sender |-> sender, senderAlt |-> alt,
     message |-> Text("hi"), id |-> id]

Ana    == Event("A", Pn("ana"), Pn("ana"), NoJID, "a1")
AnaLid == Event("A", Lid("x9"), Lid("x9"), Pn("ana"), "a2")
Ben    == Event("A", Pn("ben"), Pn("ben"), NoJID, "b1")
Zoe    == Event("B", Pn("zoe"), Pn("zoe"), NoJID, "z1")
Cid    == Event("B", Pn("cid"), Pn("cid"), NoJID, "c1")
Group  == [Ana EXCEPT !.group = TRUE]
Hidden == Event("A", Lid("x7"), Lid("x7"), NoJID, "h1")

AllEvents    == {Ana, Ben, Zoe, Cid, Group, Hidden}
OneContact   == {Ana, AnaLid}

\* Ana and Ben share a worker of two; Zoe has the other.
SpreadHash == <<"A", Pn("ana")>>  :> 6 @@ <<"A", Pn("ben")>> :> 2
           @@ <<"B", Pn("zoe")>>  :> 5 @@ <<"A", Lid("x9")>> :> 1
\* A build with IntMax = 3: 6 and 7 become -2 and -1, so that of two workers
\* Ana (-2 % 2) has one and Cid (-1 % 2) has none.
NarrowHash == <<"A", Pn("ana")>>  :> 6 @@ <<"A", Pn("ben")>> :> 2
           @@ <<"B", Pn("zoe")>>  :> 3 @@ <<"B", Pn("cid")>> :> 7
==============================================================================
