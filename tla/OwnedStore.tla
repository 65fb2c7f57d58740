----------------------------- MODULE OwnedStore -----------------------------
(***************************************************************************)
(* What the file storage of a node promises: a map from keys to resources, *)
(* each with the users who may use it.  While the server is up, only such  *)
(* a user replaces or removes a resource, and replacing it never takes a   *)
(* user away.  When the server goes down it may lose one resource, or      *)
(* leave its key unusable for good; it never leaves a mixture of two       *)
(* versions, and while it is down nothing changes.                         *)
(***************************************************************************)
CONSTANTS Keys, Users, Data, Absent, Unusable

VARIABLES store, up

Usable(k) == store[k] \notin {Absent, Unusable}

Init ==
    /\ store = [k \in Keys |-> Absent]
    /\ up = TRUE

Create(k, u, more, d) ==
    /\ up /\ store[k] = Absent
    /\ store' = [store EXCEPT ![k] = [owners |-> {u} \cup more, data |-> d]]
    /\ UNCHANGED up

Replace(k, u, more, d) ==
    /\ up /\ Usable(k) /\ u \in store[k].owners
    /\ store' = [store EXCEPT ![k] = [owners |-> store[k].owners \cup more, data |-> d]]
    /\ UNCHANGED up

Remove(k, u) ==
    /\ up /\ Usable(k) /\ u \in store[k].owners
    /\ store' = [store EXCEPT ![k] = Absent]
    /\ UNCHANGED up

GoDown ==
    /\ up /\ up' = FALSE
    /\ \/ UNCHANGED store
       \/ \E k \in Keys, left \in {Absent, Unusable} :
             store' = [store EXCEPT ![k] = left]

ComeUp == ~ up /\ up' = TRUE /\ UNCHANGED store

Next ==
    \/ \E k \in Keys, u \in Users, more \in SUBSET Users, d \in Data :
          Create(k, u, more, d) \/ Replace(k, u, more, d)
    \/ \E k \in Keys, u \in Users : Remove(k, u)
    \/ GoDown \/ ComeUp

Spec == Init /\ [][Next]_<<store, up>>
=============================================================================
