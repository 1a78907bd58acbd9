----------------------------- MODULE FuriRecord -----------------------------
(***************************************************************************)
(* The record registry, core/furi/record.c.                                *)
(*                                                                         *)
(* A record lives in a dictionary entry (an address of Addr) that holds    *)
(* the ready flag, the published pointer and the number of holders.  The   *)
(* first thread that names a record, its creator or a user that comes too  *)
(* early, allocates the entry.                                             *)
(*                                                                         *)
(* furi_record->mutex is taken and released inside every function and      *)
(* nothing between the two can block, so each critical section is one      *)
(* step.  furi_record_open works on after it has released the mutex: it    *)
(* keeps the bare pointer record_data, waits on the flag behind it (line   *)
(* 131) and then reads the data behind it (line 140); these are steps of   *)
(* their own.  An address is free to be reused once its entry is erased,   *)
(* so a pointer kept too long would be noticed.                            *)
(***************************************************************************)
EXTENDS Naturals, FiniteSets

CONSTANTS Threads,        \* threads that create and destroy records
          Users,          \* open ... close brackets: one thread may run many
          Names,          \* record names
          Data,           \* published pointers
          Addr,           \* addresses a dictionary entry can have
          NULL,           \* the null pointer
          SizeMax,        \* SIZE_MAX, where holders_count wraps
          ForeignDestroy  \* TRUE: any thread may call furi_record_destroy

ASSUME RecordAssumption ==
    /\ NULL \notin Threads \cup Names \cup Data \cup Addr
    /\ NULL \notin [name : Names, data : Data]
    /\ IsFiniteSet(Users)
    /\ SizeMax \in Nat
    /\ Cardinality(Users) <= SizeMax
    /\ ForeignDestroy \in BOOLEAN

VARIABLES records,    \* furi_record->records: name -> address of its entry
          heap,       \* address -> FuriRecordData
          pc,         \* pc[u]: where u is between its open and its close
          name,       \* name[u]: the record u works with
          record_data,\* record_data[u]: the pointer furi_record_open keeps
          handle,     \* handle[u]: what furi_record_open returned
          creator,    \* creator[n]: thread whose furi_record_create was last
          destroyer,  \* destroyer[n]: thread that destroyed that record, if any
          crashed     \* furi_assert or furi_check failed: the firmware halted

vars == <<records, heap, pc, name, record_data, handle, creator, destroyer,
          crashed>>

userVars == <<pc, name, record_data, handle>>

FuriRecordData == [ready : BOOLEAN, data : Data \cup {NULL},
                   holders_count : 0..SizeMax]

NewRecord == [ready |-> FALSE, data |-> NULL, holders_count |-> 0]

Allocated == {records[n] : n \in Names} \ {NULL}

\* The creator knows that its record is still published.
Published(n) == creator[n] # NULL /\ destroyer[n] = NULL

furi_record_init ==
    /\ records = [n \in Names |-> NULL]
    /\ heap = [a \in Addr |-> NewRecord]
    /\ pc = [u \in Users |-> "idle"]
    /\ name = [u \in Users |-> NULL]
    /\ record_data = [u \in Users |-> NULL]
    /\ handle = [u \in Users |-> NULL]
    /\ creator = [n \in Names |-> NULL]
    /\ destroyer = [n \in Names |-> NULL]
    /\ crashed = FALSE

furi_record_exists(n) == records[n] # NULL

\* The entry a is the one of n: found, or allocated at a free address.
GetOrCreate(n, a) ==
    \/ /\ furi_record_exists(n)
       /\ a = records[n]
    \/ /\ ~furi_record_exists(n)
       /\ a \in Addr \ Allocated

\* The contents furi_record_data_get_or_create leaves in that entry.
furi_record_data_get_or_create(n, a) ==
    IF furi_record_exists(n) THEN heap[a] ELSE NewRecord

Increment(c) == IF c = SizeMax THEN 0 ELSE c + 1
Decrement(c) == IF c = 0 THEN SizeMax ELSE c - 1

\* What furi_record_create writes into the entry.
FilledWithoutFlag(entry, d) == [entry EXCEPT !.data = d]
Filled(entry, d) == [entry EXCEPT !.data = d, !.ready = TRUE]

\* What furi_record_open writes into the entry.
CountedWhenReady(entry) ==
    [entry EXCEPT !.holders_count = IF entry.ready THEN Increment(@) ELSE @]
Counted(entry) == [entry EXCEPT !.holders_count = Increment(@)]

\* The condition under which furi_record_destroy erases the entry.
HeldByOne(n) == heap[records[n]].holders_count <= 1
NotHeld(n) == heap[records[n]].holders_count = 0

(***************************************************************************)
(* The creating thread.  A thread creates a record once and does not       *)
(* create it again before it has destroyed it.                             *)
(***************************************************************************)
furi_record_create(t, n, d) ==
    /\ ~crashed
    /\ ~Published(n)
    /\ \E a \in Addr :
        LET entry == furi_record_data_get_or_create(n, a)
        IN  /\ GetOrCreate(n, a)
            /\ IF entry.data # NULL          \* furi_assert(data == NULL)
               THEN /\ crashed' = TRUE
                    /\ UNCHANGED <<records, heap, creator, destroyer>>
               ELSE /\ records' = [records EXCEPT ![n] = a]
                    /\ heap' = [heap EXCEPT ![a] = Filled(entry, d)]
                    /\ creator' = [creator EXCEPT ![n] = t]
                    /\ destroyer' = [destroyer EXCEPT ![n] = NULL]
                    /\ UNCHANGED crashed
    /\ UNCHANGED userVars

\* Returns true and erases the entry, or returns false and changes nothing.
furi_record_destroy(t, n) ==
    /\ ~crashed
    /\ Published(n)
    /\ ForeignDestroy \/ t = creator[n]
    /\ \/ /\ ~furi_record_exists(n)          \* furi_assert(record_data)
          /\ crashed' = TRUE
          /\ UNCHANGED <<records, destroyer>>
       \/ /\ furi_record_exists(n)
          /\ NotHeld(n)
          /\ records' = [records EXCEPT ![n] = NULL]
          /\ destroyer' = [destroyer EXCEPT ![n] = t]
          /\ UNCHANGED crashed
       \/ /\ furi_record_exists(n)
          /\ ~NotHeld(n)
          /\ UNCHANGED <<records, destroyer, crashed>>
    /\ UNCHANGED <<heap, creator, userVars>>

(***************************************************************************)
(* A user of a record: open, in three steps, and close.                    *)
(***************************************************************************)
\* Under the mutex: find or allocate the entry and count the holder.
furi_record_open(u, n) ==
    /\ ~crashed
    /\ pc[u] = "idle"
    /\ \E a \in Addr :
        LET entry == furi_record_data_get_or_create(n, a)
        IN  /\ GetOrCreate(n, a)
            /\ records' = [records EXCEPT ![n] = a]
            /\ heap' = [heap EXCEPT ![a] = Counted(entry)]
            /\ record_data' = [record_data EXCEPT ![u] = a]
    /\ name' = [name EXCEPT ![u] = n]
    /\ pc' = [pc EXCEPT ![u] = "wait"]
    /\ UNCHANGED <<handle, creator, destroyer, crashed>>

\* osEventFlagsWait(READY) returns; osFlagsNoClear leaves the flag set.
OpenReady(u) ==
    /\ ~crashed
    /\ pc[u] = "wait"
    /\ heap[record_data[u]].ready
    /\ pc' = [pc EXCEPT ![u] = "read"]
    /\ UNCHANGED <<records, heap, name, record_data, handle, creator,
                   destroyer, crashed>>

\* return record_data->data, without the mutex.
OpenReturn(u) ==
    /\ ~crashed
    /\ pc[u] = "read"
    /\ handle' = [handle EXCEPT ![u] = heap[record_data[u]].data]
    /\ pc' = [pc EXCEPT ![u] = "hold"]
    /\ UNCHANGED <<records, heap, name, record_data, creator, destroyer,
                   crashed>>

furi_record_close(u) ==
    /\ ~crashed
    /\ pc[u] = "hold"
    /\ LET n == name[u]
       IN  IF ~furi_record_exists(n)         \* furi_assert(record_data)
           THEN /\ crashed' = TRUE
                /\ UNCHANGED heap
           ELSE /\ heap' = [heap EXCEPT ![records[n]].holders_count =
                                            Decrement(@)]
                /\ UNCHANGED crashed
    /\ pc' = [pc EXCEPT ![u] = "idle"]
    /\ name' = [name EXCEPT ![u] = NULL]
    /\ record_data' = [record_data EXCEPT ![u] = NULL]
    /\ handle' = [handle EXCEPT ![u] = NULL]
    /\ UNCHANGED <<records, creator, destroyer>>

Next ==
    \/ \E t \in Threads, n \in Names, d \in Data : furi_record_create(t, n, d)
    \/ \E t \in Threads, n \in Names : furi_record_destroy(t, n)
    \/ \E u \in Users, n \in Names : furi_record_open(u, n)
    \/ \E u \in Users : OpenReady(u) \/ OpenReturn(u) \/ furi_record_close(u)

Init == furi_record_init

\* A thread that can run is eventually scheduled inside furi_record_open; when
\* to create, open, close or destroy a record is up to the callers.
Fairness == \A u \in Users : WF_vars(OpenReady(u)) /\ WF_vars(OpenReturn(u))

Spec == Init /\ [][Next]_vars /\ Fairness

-----------------------------------------------------------------------------
(* Properties *)

\* The state of record.c and of its callers is well formed.
TypeOK ==
    /\ records \in [Names -> Addr \cup {NULL}]
    /\ heap \in [Addr -> FuriRecordData]
    /\ pc \in [Users -> {"idle", "wait", "read", "hold"}]
    /\ name \in [Users -> Names \cup {NULL}]
    /\ record_data \in [Users -> Addr \cup {NULL}]
    /\ handle \in [Users -> Data \cup {NULL}]
    /\ creator \in [Names -> Threads \cup {NULL}]
    /\ destroyer \in [Names -> Threads \cup {NULL}]
    /\ crashed \in BOOLEAN

\* The users that are between the unlock of furi_record_open (line 128) and
\* their furi_record_close.
UsersOf(n) == {u \in Users : pc[u] # "idle" /\ name[u] = n}

\* record_data is used after the mutex is released (lines 131-140): the entry
\* it points to must still be the record's own, never an erased or reused one,
\* and what a user holds is what is published now.
NoDanglingRecord ==
    \A u \in Users : pc[u] # "idle" =>
        /\ name[u] # NULL
        /\ record_data[u] = records[name[u]]
        /\ record_data[u] # NULL
        /\ pc[u] # "wait" => heap[record_data[u]].ready
        /\ pc[u] = "hold" => /\ handle[u] = heap[record_data[u]].data
                             /\ handle[u] # NULL

\* holders_count counts exactly the users between open and close, the ones that
\* still wait for the record included, so destroy can rely on it (line 104).
HoldersExact ==
    \A n \in Names : records[n] # NULL =>
        heap[records[n]].holders_count = Cardinality(UsersOf(n))

\* No furi_assert of record.c fails as long as a record is created once by one
\* thread and every close follows an open (lines 83, 103, 152).
NoAssertFails == ~crashed

\* A user that opened a record is not left waiting once the record is created:
\* no destroy comes between, and the flag is not consumed by another user.
OpenReturns ==
    \A u \in Users, n \in Names :
        (pc[u] = "wait" /\ name[u] = n /\ Published(n)) ~> (pc[u] = "hold")

\* record.h:39: furi_record_destroy returns false if "thread is not owner".
OnlyOwnerDestroys ==
    \A n \in Names : destroyer[n] # NULL => destroyer[n] = creator[n]

\* The inductive invariant behind NoDanglingRecord, HoldersExact and
\* NoAssertFails: entries are not shared, an entry is ready exactly while its
\* creator has it published, and then it has data.
EntriesConsistent ==
    /\ \A m, n \in Names : records[m] = records[n] /\ records[m] # NULL => m = n
    /\ \A n \in Names :
        /\ Published(n) <=> records[n] # NULL /\ heap[records[n]].ready
        /\ records[n] # NULL =>
              (heap[records[n]].ready <=> heap[records[n]].data # NULL)

RecordInv ==
    /\ TypeOK
    /\ EntriesConsistent
    /\ NoDanglingRecord
    /\ HoldersExact
    /\ NoAssertFails

-----------------------------------------------------------------------------
(* The registry the callers rely on *)

Registry == INSTANCE RecordRegistry
    WITH value <- [n \in Names |-> IF records[n] = NULL THEN NULL
                                   ELSE heap[records[n]].data],
         held <- [u \in Users |-> IF pc[u] = "hold"
                                  THEN [name |-> name[u], data |-> handle[u]]
                                  ELSE NULL]

\* record.c implements the registry: what is opened is what is published, and
\* nothing is withdrawn from under a holder.
ImplementsRegistry == Registry!RegSpec
=============================================================================
