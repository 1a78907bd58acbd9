--------------------------- MODULE RecordRegistry ---------------------------
(***************************************************************************)
(* What core/furi/record.h promises to the services and applications of    *)
(* the firmware: a registry that maps a name to the object a service has   *)
(* published under it.  A user acquires the object that is published at    *)
(* that moment and keeps using it until it releases it; the object is not  *)
(* withdrawn while anybody still uses it.  How a user that comes before    *)
(* the service waits, and how users are counted, is left to FuriRecord.    *)
(***************************************************************************)
CONSTANTS Users,   \* open ... close brackets of the firmware's threads
          Names,   \* record names
          Data,    \* objects a service can publish
          NULL     \* "nothing published", "nothing held"

VARIABLES value,   \* value[n]: the object published under n
          held     \* held[u]: the name and the object u works with

regVars == <<value, held>>

Holders(n) == {u \in Users : held[u] # NULL /\ held[u].name = n}

RegTypeOK ==
    /\ value \in [Names -> Data \cup {NULL}]
    /\ held \in [Users -> [name : Names, data : Data] \cup {NULL}]

RegInit ==
    /\ value = [n \in Names |-> NULL]
    /\ held = [u \in Users |-> NULL]

Publish(n, d) ==
    /\ value[n] = NULL
    /\ value' = [value EXCEPT ![n] = d]
    /\ UNCHANGED held

\* Only an object nobody holds is withdrawn.
Withdraw(n) ==
    /\ value[n] # NULL
    /\ Holders(n) = {}
    /\ value' = [value EXCEPT ![n] = NULL]
    /\ UNCHANGED held

Acquire(u, n) ==
    /\ held[u] = NULL
    /\ value[n] # NULL
    /\ held' = [held EXCEPT ![u] = [name |-> n, data |-> value[n]]]
    /\ UNCHANGED value

Release(u) ==
    /\ held[u] # NULL
    /\ held' = [held EXCEPT ![u] = NULL]
    /\ UNCHANGED value

RegNext ==
    \/ \E n \in Names, d \in Data : Publish(n, d)
    \/ \E n \in Names : Withdraw(n)
    \/ \E u \in Users, n \in Names : Acquire(u, n)
    \/ \E u \in Users : Release(u)

RegSpec == RegInit /\ [][RegNext]_regVars
=============================================================================
