---------------------------- MODULE MCSyncClient ----------------------------
(***************************************************************************)
(* Two client processes of one user for TLC.  The text has one block: a    *)
(* file that was posted once loses it, and is not readable when what was   *)
(* posted was empty.                                                       *)
(***************************************************************************)
EXTENDS SyncClient

CONSTANTS c1, c2, p1, d1

TwoClients == {c1, c2}
OnePath == {p1}
OneText == {<<d1>>}
NoOthers == {0}

(* Both clients watch and have the file, which c1 wrote.  c2 posted it once *)
(* more, after it failed to fetch the log; c1 got that, its user removed    *)
(* the file while c1 did not watch, and c1 got it again, because it failed  *)
(* to fetch the log as well and forgot what it had seen.  So c1's clock is  *)
(* at the timestamp of the last update, and a deletion that c1 logs next    *)
(* bears it.  Next reaches this state from Init with four happenings, which *)
(* are not counted here.                                                    *)
Level ==
    /\ remote = [p \in Paths |-> [whole |-> TRUE, body |-> <<d1>>, stamp |-> 21]]
    /\ tlog = [state |-> "whole",
               log |-> [p \in Paths |-> <<[op |-> "update", ts |-> 13], [op |-> "update", ts |-> 21]>>]]
    /\ serverClock = 25
    /\ local = [c \in Clients |-> [p \in Paths |-> <<d1>>]]
    /\ events = [c \in Clients |-> <<>>]
    /\ watching = [c \in Clients |-> TRUE]
    /\ clock = [c \in Clients |-> IF c = c1 THEN 21 ELSE 27]
    /\ old = [c \in Clients |-> LastEntries(tlog.log)]
    /\ todo = [c \in Clients |-> Nothing]
    /\ job = [c \in Clients |-> Nothing]
    /\ unposted = [c \in Clients |-> {}]
    /\ happened = [all |-> 0, restarts |-> 0]

StartOrLevel == (Init \/ Level) /\ [][Next]_vars /\ ClientFairness
=============================================================================
