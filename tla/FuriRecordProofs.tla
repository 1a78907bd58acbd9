-------------------------- MODULE FuriRecordProofs --------------------------
(***************************************************************************)
(* Proofs about core/furi/record.c as modelled in FuriRecord, for any      *)
(* number of threads, users, records and addresses.                        *)
(***************************************************************************)
EXTENDS FuriRecord, FiniteSetTheorems, TLAPS

\* The users of a record are finitely many and are counted by a size_t.
LEMMA UsersOfFinite ==
    \A n : /\ IsFiniteSet(UsersOf(n))
           /\ Cardinality(UsersOf(n)) \in Nat
           /\ Cardinality(UsersOf(n)) <= SizeMax
<1> SUFFICES ASSUME NEW n
             PROVE  /\ IsFiniteSet(UsersOf(n))
                    /\ Cardinality(UsersOf(n)) \in Nat
                    /\ Cardinality(UsersOf(n)) <= SizeMax
    OBVIOUS
<1>1. UsersOf(n) \in SUBSET Users
  BY DEF UsersOf
<1>2. IsFiniteSet(UsersOf(n)) /\ Cardinality(UsersOf(n)) <= Cardinality(Users)
  BY <1>1, FS_Subset, RecordAssumption
<1>3. Cardinality(UsersOf(n)) \in Nat /\ Cardinality(Users) \in Nat
  BY <1>2, FS_CardinalityType, RecordAssumption
<1> QED
  BY <1>2, <1>3, RecordAssumption

\* The registry starts empty.
LEMMA InitEstablishes == Init => RecordInv
<1> SUFFICES ASSUME Init PROVE RecordInv
    OBVIOUS
<1> USE RecordAssumption DEF Init, furi_record_init
<1>1. TypeOK
  <2>1. NewRecord \in FuriRecordData
    BY DEF NewRecord, FuriRecordData
  <2>2. crashed \in BOOLEAN
    BY Zenon
  <2> QED BY <2>1, <2>2 DEF TypeOK
<1>2. EntriesConsistent
  BY DEF EntriesConsistent, Published
<1>3. NoDanglingRecord
  BY DEF NoDanglingRecord
<1>4. HoldersExact
  BY DEF HoldersExact
<1>5. NoAssertFails
  BY DEF NoAssertFails
<1> QED
  BY <1>1, <1>2, <1>3, <1>4, <1>5 DEF RecordInv

\* furi_record_create publishes in the entry early users wait on, and finds no
\* older pointer in it.
LEMMA CreatePreserves ==
    ASSUME RecordInv, NEW t \in Threads, NEW n \in Names, NEW d \in Data,
           furi_record_create(t, n, d)
    PROVE  RecordInv'
<1> USE RecordAssumption
<1> PICK a \in Addr :
        LET entry == furi_record_data_get_or_create(n, a)
        IN  /\ GetOrCreate(n, a)
            /\ IF entry.data # NULL
               THEN /\ crashed' = TRUE
                    /\ UNCHANGED <<records, heap, creator, destroyer>>
               ELSE /\ records' = [records EXCEPT ![n] = a]
                    /\ heap' = [heap EXCEPT ![a] = Filled(entry, d)]
                    /\ creator' = [creator EXCEPT ![n] = t]
                    /\ destroyer' = [destroyer EXCEPT ![n] = NULL]
                    /\ UNCHANGED crashed
  BY DEF furi_record_create
<1> DEFINE entry == furi_record_data_get_or_create(n, a)
<1>t. TypeOK /\ ~crashed /\ ~Published(n)
  BY DEF RecordInv, furi_record_create
<1>1. entry \in FuriRecordData /\ entry.data = NULL
  BY <1>t DEF RecordInv, TypeOK, EntriesConsistent, GetOrCreate, furi_record_exists,
     furi_record_data_get_or_create, NewRecord, FuriRecordData
<1>2. /\ records' = [records EXCEPT ![n] = a]
      /\ heap' = [heap EXCEPT ![a] = Filled(entry, d)]
      /\ creator' = [creator EXCEPT ![n] = t]
      /\ destroyer' = [destroyer EXCEPT ![n] = NULL]
      /\ UNCHANGED <<crashed, pc, name, record_data, handle>>
  BY <1>1 DEF furi_record_create, userVars
<1> HIDE DEF entry
<1>3. Filled(entry, d) \in FuriRecordData /\ Filled(entry, d).data = d
      /\ Filled(entry, d).ready /\ Filled(entry, d).holders_count = entry.holders_count
  BY <1>1 DEF Filled, FuriRecordData
<1>4. \A m \in Names : records[m] = a => m = n
  BY DEF GetOrCreate, furi_record_exists, Allocated, RecordInv, EntriesConsistent
<1>5. TypeOK'
  BY <1>t, <1>2, <1>3 DEF TypeOK
<1>6. EntriesConsistent'
  BY <1>t, <1>2, <1>3, <1>4 DEF RecordInv, TypeOK, EntriesConsistent, Published
<1>7. NoDanglingRecord'
  <2> SUFFICES ASSUME NEW u \in Users, pc[u] # "idle"
               PROVE  NoDanglingRecord!(u)!2'
    BY <1>2 DEF NoDanglingRecord
  <2>1. CASE name[u] = n
    BY <2>1, <1>t, <1>1, <1>2, <1>3 DEF RecordInv, NoDanglingRecord, TypeOK,
       EntriesConsistent, GetOrCreate, furi_record_exists
  <2>2. CASE name[u] # n
    BY <2>2, <1>t, <1>2, <1>3, <1>4 DEF RecordInv, NoDanglingRecord, TypeOK
  <2> QED BY <2>1, <2>2
<1>8. HoldersExact'
  <2> SUFFICES ASSUME NEW m \in Names, records'[m] # NULL
               PROVE  heap'[records'[m]].holders_count = Cardinality(UsersOf(m))
    BY <1>2 DEF HoldersExact, UsersOf
  <2>1. CASE m # n
    BY <2>1, <1>t, <1>2, <1>4 DEF RecordInv, HoldersExact, TypeOK
  <2>2. CASE m = n /\ records[n] # NULL
    BY <2>2, <1>t, <1>2, <1>3 DEF RecordInv, HoldersExact, TypeOK, entry, GetOrCreate,
       furi_record_exists, furi_record_data_get_or_create
  <2>3. CASE m = n /\ records[n] = NULL
    <3>1. UsersOf(n) = {}
      BY <2>3 DEF UsersOf, RecordInv, NoDanglingRecord
    <3>2. entry.holders_count = 0
      BY <2>3 DEF entry, furi_record_exists, furi_record_data_get_or_create, NewRecord
    <3> QED BY <2>3, <3>1, <3>2, <1>t, <1>2, <1>3, FS_EmptySet DEF TypeOK
  <2> QED BY <2>1, <2>2, <2>3
<1>9. NoAssertFails'
  BY <1>2, <1>t DEF NoAssertFails
<1> QED
  BY <1>5, <1>6, <1>7, <1>8, <1>9 DEF RecordInv

\* furi_record_destroy erases an entry only when no user is left in it.
LEMMA DestroyPreserves ==
    ASSUME RecordInv, NEW t \in Threads, NEW n \in Names,
           furi_record_destroy(t, n)
    PROVE  RecordInv'
<1> USE RecordAssumption
<1>t. TypeOK /\ ~crashed /\ Published(n) /\ records[n] # NULL
  BY DEF RecordInv, EntriesConsistent, furi_record_destroy
<1>u. UNCHANGED <<heap, creator, pc, name, record_data, handle>>
  BY DEF furi_record_destroy, userVars
<1>1. CASE UNCHANGED <<records, destroyer, crashed>>
  BY <1>1, <1>u DEF RecordInv, TypeOK, EntriesConsistent, Published,
     NoDanglingRecord, HoldersExact, UsersOf, NoAssertFails
<1>2. CASE /\ NotHeld(n)
           /\ records' = [records EXCEPT ![n] = NULL]
           /\ destroyer' = [destroyer EXCEPT ![n] = t]
           /\ UNCHANGED crashed
  <2>1. UsersOf(n) = {}
    BY <1>2, <1>t, UsersOfFinite, FS_EmptySet DEF RecordInv, HoldersExact, NotHeld
  <2>2. TypeOK'
    BY <1>2, <1>t, <1>u DEF TypeOK
  <2>3. EntriesConsistent'
    BY <1>2, <1>t, <1>u DEF RecordInv, TypeOK, EntriesConsistent, Published
  <2>4. NoDanglingRecord'
    BY <1>2, <1>t, <1>u, <2>1 DEF RecordInv, TypeOK, NoDanglingRecord, UsersOf
  <2>5. HoldersExact'
    BY <1>2, <1>t, <1>u DEF RecordInv, TypeOK, HoldersExact, UsersOf
  <2>6. NoAssertFails'
    BY <1>2, <1>t DEF NoAssertFails
  <2> QED BY <2>2, <2>3, <2>4, <2>5, <2>6 DEF RecordInv
<1> QED
  BY <1>t, <1>1, <1>2 DEF furi_record_destroy, furi_record_exists

\* furi_record_open counts its caller before it lets go of the mutex.
LEMMA OpenPreserves ==
    ASSUME RecordInv, NEW u \in Users, NEW n \in Names, furi_record_open(u, n)
    PROVE  RecordInv'
<1> USE RecordAssumption
<1> PICK a \in Addr :
        LET entry == furi_record_data_get_or_create(n, a)
        IN  /\ GetOrCreate(n, a)
            /\ records' = [records EXCEPT ![n] = a]
            /\ heap' = [heap EXCEPT ![a] = Counted(entry)]
            /\ record_data' = [record_data EXCEPT ![u] = a]
  BY DEF furi_record_open
<1> DEFINE entry == furi_record_data_get_or_create(n, a)
<1>1. /\ pc[u] = "idle"
      /\ records' = [records EXCEPT ![n] = a]
      /\ heap' = [heap EXCEPT ![a] = Counted(entry)]
      /\ record_data' = [record_data EXCEPT ![u] = a]
      /\ name' = [name EXCEPT ![u] = n]
      /\ pc' = [pc EXCEPT ![u] = "wait"]
      /\ UNCHANGED <<handle, creator, destroyer, crashed>>
  BY DEF furi_record_open
<1>t. TypeOK
  BY DEF RecordInv
<1>2. entry \in FuriRecordData
  BY <1>t DEF TypeOK, GetOrCreate, furi_record_exists, NewRecord, FuriRecordData,
     furi_record_data_get_or_create
<1>3. /\ records[n] # NULL => a = records[n] /\ entry = heap[a]
      /\ records[n] = NULL => entry = NewRecord
      /\ \A m \in Names : records[m] = a => m = n
  BY DEF RecordInv, EntriesConsistent, GetOrCreate, furi_record_exists, Allocated,
     furi_record_data_get_or_create
<1> HIDE DEF entry
<1>4. /\ UsersOf(n)' = UsersOf(n) \cup {u}
      /\ u \notin UsersOf(n)
      /\ \A m \in Names \ {n} : UsersOf(m)' = UsersOf(m)
  BY <1>1, <1>t DEF UsersOf, TypeOK
<1>5. entry.holders_count = Cardinality(UsersOf(n))
  <2>1. CASE records[n] # NULL
    BY <2>1, <1>3 DEF RecordInv, HoldersExact
  <2>2. CASE records[n] = NULL
    <3>1. UsersOf(n) = {}
      BY <2>2 DEF UsersOf, RecordInv, NoDanglingRecord
    <3> QED BY <2>2, <3>1, <1>3, FS_EmptySet DEF NewRecord
  <2> QED BY <2>1, <2>2
<1>6. /\ Cardinality(UsersOf(n)') = Cardinality(UsersOf(n)) + 1
      /\ Cardinality(UsersOf(n)') <= SizeMax
      /\ Cardinality(UsersOf(n)) \in Nat
  <2>1. Cardinality(UsersOf(n)') = Cardinality(UsersOf(n)) + 1
    BY <1>4, UsersOfFinite, FS_AddElement
  <2>2. UsersOf(n)' \in SUBSET Users
    BY DEF UsersOf
  <2>3. Cardinality(UsersOf(n)') <= Cardinality(Users) /\ IsFiniteSet(UsersOf(n)')
    BY <2>2, FS_Subset
  <2>4. Cardinality(Users) \in Nat /\ Cardinality(UsersOf(n)') \in Nat
    BY <2>3, FS_CardinalityType
  <2> QED BY <2>1, <2>3, <2>4, UsersOfFinite
<1>7. /\ Counted(entry) \in FuriRecordData
      /\ Counted(entry).holders_count = Cardinality(UsersOf(n)')
      /\ Counted(entry).ready = entry.ready
      /\ Counted(entry).data = entry.data
  <2>1. /\ entry.holders_count + 1 \in 0..SizeMax
        /\ Increment(entry.holders_count) = entry.holders_count + 1
    BY <1>5, <1>6 DEF Increment
  <2> QED BY <2>1, <1>2, <1>5, <1>6 DEF Counted, FuriRecordData
<1>8. TypeOK'
  BY <1>t, <1>1, <1>7 DEF TypeOK
<1>9. EntriesConsistent'
  <2>1. \A m, k \in Names : records'[m] = records'[k] /\ records'[m] # NULL => m = k
    BY <1>t, <1>1, <1>3 DEF RecordInv, EntriesConsistent, TypeOK
  <2>2. ASSUME NEW m \in Names
        PROVE  /\ Published(m)' <=> records'[m] # NULL /\ heap'[records'[m]].ready
               /\ records'[m] # NULL =>
                     (heap'[records'[m]].ready <=> heap'[records'[m]].data # NULL)
    <3>1. CASE m = n /\ records[n] = NULL
      <4>1. records'[n] = a /\ heap'[a] = Counted(entry) /\ a # NULL
        BY <1>1, <1>t DEF TypeOK
      <4>2. heap'[a].ready = FALSE /\ heap'[a].data = NULL
        BY <4>1, <3>1, <1>3, <1>7 DEF NewRecord
      <4>3. ~Published(n)'
        BY <3>1, <1>1 DEF RecordInv, EntriesConsistent, Published
      <4> QED BY <3>1, <4>1, <4>2, <4>3
    <3>2. CASE m = n /\ records[n] # NULL
      <4>1. records'[n] = a /\ heap'[a] = Counted(heap[a]) /\ a = records[n]
        BY <3>2, <1>1, <1>t, <1>3 DEF TypeOK
      <4>2. heap'[a].ready = heap[a].ready /\ heap'[a].data = heap[a].data
        BY <4>1, <3>2, <1>3, <1>7
      <4> QED BY <3>2, <4>1, <4>2, <1>1 DEF RecordInv, EntriesConsistent, Published
    <3>3. CASE m # n
      <4>1. records'[m] = records[m] /\ (records[m] # NULL => heap'[records[m]] = heap[records[m]])
        BY <3>3, <1>1, <1>t, <1>3 DEF TypeOK
      <4> QED BY <3>3, <4>1, <1>1 DEF RecordInv, EntriesConsistent, Published
    <3> QED BY <3>1, <3>2, <3>3
  <2> QED BY <2>1, <2>2 DEF EntriesConsistent
<1>10. NoDanglingRecord'
  <2> SUFFICES ASSUME NEW v \in Users, pc'[v] # "idle"
               PROVE  NoDanglingRecord!(v)!2'
    BY DEF NoDanglingRecord
  <2>1. CASE v = u
    BY <2>1, <1>t, <1>1 DEF TypeOK
  <2>2. CASE v # u /\ name[v] = n
    BY <2>2, <1>t, <1>1, <1>3, <1>7 DEF RecordInv, NoDanglingRecord, TypeOK
  <2>3. CASE v # u /\ name[v] # n
    BY <2>3, <1>t, <1>1, <1>3 DEF RecordInv, NoDanglingRecord, TypeOK
  <2> QED BY <2>1, <2>2, <2>3
<1>11. HoldersExact'
  <2> SUFFICES ASSUME NEW m \in Names, records'[m] # NULL
               PROVE  heap'[records'[m]].holders_count = Cardinality(UsersOf(m)')
    BY DEF HoldersExact
  <2>1. CASE m = n
    BY <2>1, <1>t, <1>1, <1>7 DEF TypeOK
  <2>2. CASE m # n
    BY <2>2, <1>t, <1>1, <1>3, <1>4 DEF TypeOK, RecordInv, HoldersExact
  <2> QED BY <2>1, <2>2
<1>12. NoAssertFails'
  BY <1>1 DEF NoAssertFails, RecordInv
<1> QED
  BY <1>8, <1>9, <1>10, <1>11, <1>12 DEF RecordInv

\* The two steps of furi_record_open after the mutex is released touch only the
\* caller's own variables.
LEMMA WaitPreserves ==
    ASSUME RecordInv, NEW u \in Users, OpenReady(u) \/ OpenReturn(u)
    PROVE  RecordInv'
<1> USE RecordAssumption
<1>t. TypeOK /\ ~crashed /\ pc[u] \in {"wait", "read"} /\ pc'[u] # "idle"
  BY DEF RecordInv, OpenReady, OpenReturn, TypeOK
<1>1. /\ UNCHANGED <<records, heap, name, record_data, creator, destroyer, crashed>>
      /\ \A m : UsersOf(m)' = UsersOf(m)
  BY <1>t DEF OpenReady, OpenReturn, UsersOf, TypeOK
<1>r. /\ name[u] \in Names /\ record_data[u] = records[name[u]] /\ record_data[u] \in Addr
      /\ heap[record_data[u]] \in FuriRecordData
      /\ pc[u] = "read" => heap[record_data[u]].ready /\ heap[record_data[u]].data # NULL
  BY <1>t DEF RecordInv, NoDanglingRecord, EntriesConsistent, TypeOK
<1>2. TypeOK'
  BY <1>t, <1>1, <1>r DEF TypeOK, OpenReady, OpenReturn, FuriRecordData
<1>3. EntriesConsistent'
  BY <1>1 DEF RecordInv, EntriesConsistent, Published
<1>4. NoDanglingRecord'
  BY <1>t, <1>1, <1>r DEF RecordInv, NoDanglingRecord, TypeOK, OpenReady, OpenReturn
<1>5. HoldersExact'
  BY <1>1 DEF RecordInv, HoldersExact
<1>6. NoAssertFails'
  BY <1>1 DEF RecordInv, NoAssertFails
<1> QED
  BY <1>2, <1>3, <1>4, <1>5, <1>6 DEF RecordInv

\* furi_record_close finds the entry its open used and never takes the count
\* below zero.
LEMMA ClosePreserves ==
    ASSUME RecordInv, NEW u \in Users, furi_record_close(u)
    PROVE  RecordInv'
<1> USE RecordAssumption
<1>t. TypeOK /\ ~crashed /\ pc[u] = "hold"
  BY DEF RecordInv, furi_record_close
<1> PICK n \in Names : n = name[u]
  BY <1>t DEF RecordInv, NoDanglingRecord, TypeOK
<1> PICK a \in Addr : a = records[n]
  BY <1>t DEF RecordInv, NoDanglingRecord, TypeOK
<1>r. a # NULL /\ u \in UsersOf(n) /\ heap[a] \in FuriRecordData
  BY <1>t DEF TypeOK, UsersOf
<1>1. /\ heap' = [heap EXCEPT ![a].holders_count = Decrement(@)]
      /\ pc' = [pc EXCEPT ![u] = "idle"]
      /\ name' = [name EXCEPT ![u] = NULL]
      /\ record_data' = [record_data EXCEPT ![u] = NULL]
      /\ handle' = [handle EXCEPT ![u] = NULL]
      /\ UNCHANGED <<records, creator, destroyer, crashed>>
  BY <1>r DEF furi_record_close, furi_record_exists
<1>2. /\ UsersOf(n)' = UsersOf(n) \ {u}
      /\ \A m \in Names \ {n} : UsersOf(m)' = UsersOf(m)
  BY <1>1, <1>t DEF UsersOf, TypeOK
<1>3. /\ heap[a].holders_count = Cardinality(UsersOf(n))
      /\ Cardinality(UsersOf(n)') = Cardinality(UsersOf(n)) - 1
      /\ Cardinality(UsersOf(n)') \in Nat
      /\ Cardinality(UsersOf(n)) \in Nat
      /\ Cardinality(UsersOf(n)) <= SizeMax
  <2>1. heap[a].holders_count = Cardinality(UsersOf(n))
    BY <1>r DEF RecordInv, HoldersExact
  <2>2. /\ IsFiniteSet(UsersOf(n)')
        /\ Cardinality(UsersOf(n)') = Cardinality(UsersOf(n)) - 1
    BY <1>2, <1>r, UsersOfFinite, FS_RemoveElement
  <2>3. Cardinality(UsersOf(n)') \in Nat
    BY <2>2, FS_CardinalityType
  <2> QED BY <2>1, <2>2, <2>3, UsersOfFinite
<1>4. Decrement(heap[a].holders_count) = Cardinality(UsersOf(n)')
      /\ Decrement(heap[a].holders_count) \in 0..SizeMax
  BY <1>3 DEF Decrement
<1>5. /\ heap'[a] \in FuriRecordData
      /\ heap'[a].ready = heap[a].ready
      /\ heap'[a].data = heap[a].data
      /\ heap'[a].holders_count = Cardinality(UsersOf(n)')
      /\ \A b \in Addr \ {a} : heap'[b] = heap[b]
  BY <1>t, <1>1, <1>r, <1>4 DEF TypeOK, FuriRecordData
<1>6. TypeOK'
  BY <1>t, <1>1, <1>r, <1>5 DEF TypeOK
<1>7. \A b \in Addr : heap'[b].ready = heap[b].ready /\ heap'[b].data = heap[b].data
  BY <1>5, <1>r
<1>8. EntriesConsistent'
  BY <1>t, <1>1, <1>7 DEF RecordInv, EntriesConsistent, Published, TypeOK
<1>9. NoDanglingRecord'
  BY <1>t, <1>1, <1>7 DEF RecordInv, NoDanglingRecord, TypeOK
<1>10. HoldersExact'
  <2> SUFFICES ASSUME NEW m \in Names, records[m] # NULL
               PROVE  heap'[records[m]].holders_count = Cardinality(UsersOf(m)')
    BY <1>1 DEF HoldersExact
  <2>1. CASE m = n
    BY <2>1, <1>5
  <2>2. CASE m # n
    <3>1. records[m] \in Addr /\ records[m] # a
      BY <2>2, <1>r, <1>t DEF RecordInv, EntriesConsistent, TypeOK
    <3> QED BY <2>2, <3>1, <1>2, <1>5 DEF RecordInv, HoldersExact
  <2> QED BY <2>1, <2>2
<1>11. NoAssertFails'
  BY <1>1, <1>t DEF NoAssertFails
<1> QED
  BY <1>6, <1>8, <1>9, <1>10, <1>11 DEF RecordInv

\* Every step of record.c keeps the inductive invariant.
LEMMA StepPreserves == RecordInv /\ [Next]_vars => RecordInv'
<1> SUFFICES ASSUME RecordInv, [Next]_vars PROVE RecordInv'
    OBVIOUS
<1>1. ASSUME NEW t \in Threads, NEW n \in Names, NEW d \in Data,
             furi_record_create(t, n, d)
      PROVE  RecordInv'
  BY <1>1, CreatePreserves
<1>2. ASSUME NEW t \in Threads, NEW n \in Names, furi_record_destroy(t, n)
      PROVE  RecordInv'
  BY <1>2, DestroyPreserves
<1>3. ASSUME NEW u \in Users, NEW n \in Names, furi_record_open(u, n)
      PROVE  RecordInv'
  BY <1>3, OpenPreserves
<1>4. ASSUME NEW u \in Users, OpenReady(u) \/ OpenReturn(u)
      PROVE  RecordInv'
  BY <1>4, WaitPreserves
<1>5. ASSUME NEW u \in Users, furi_record_close(u)
      PROVE  RecordInv'
  BY <1>5, ClosePreserves
<1>6. CASE UNCHANGED vars
  BY <1>6 DEF vars, RecordInv, TypeOK, EntriesConsistent, Published,
     NoDanglingRecord, HoldersExact, UsersOf, NoAssertFails
<1> QED
  BY <1>1, <1>2, <1>3, <1>4, <1>5, <1>6 DEF Next

\* The inductive invariant holds throughout.
THEOREM RecordInvariant == Spec => []RecordInv
<1> QED
  BY InitEstablishes, StepPreserves, PTL DEF Spec

\* Type correctness of record.c for any number of users and records.
THEOREM RecordTypeOK == Spec => []TypeOK
<1>1. RecordInv => TypeOK
  BY DEF RecordInv
<1> QED
  BY <1>1, RecordInvariant, PTL

\* The pointer furi_record_open keeps after its unlock is never dangling, and
\* the object a user holds is the published one.
THEOREM RecordNoDangling == Spec => []NoDanglingRecord
<1>1. RecordInv => NoDanglingRecord
  BY DEF RecordInv
<1> QED
  BY <1>1, RecordInvariant, PTL

\* holders_count is exactly the number of users between open and close.
THEOREM RecordHoldersExact == Spec => []HoldersExact
<1>1. RecordInv => HoldersExact
  BY DEF RecordInv
<1> QED
  BY <1>1, RecordInvariant, PTL

-----------------------------------------------------------------------------
(* record.c implements the registry *)

\* The initial registry is empty.
LEMMA RegistryInit == Init => Registry!RegInit
<1> QED
  BY DEF Init, furi_record_init, Registry!RegInit

\* furi_record_create publishes, whether or not the entry existed.
LEMMA RegistryCreate ==
    ASSUME RecordInv, NEW t \in Threads, NEW n \in Names, NEW d \in Data,
           furi_record_create(t, n, d)
    PROVE  Registry!Publish(n, d)
<1> USE RecordAssumption
<1> PICK a \in Addr :
        LET entry == furi_record_data_get_or_create(n, a)
        IN  /\ GetOrCreate(n, a)
            /\ IF entry.data # NULL
               THEN /\ crashed' = TRUE
                    /\ UNCHANGED <<records, heap, creator, destroyer>>
               ELSE /\ records' = [records EXCEPT ![n] = a]
                    /\ heap' = [heap EXCEPT ![a] = Filled(entry, d)]
                    /\ creator' = [creator EXCEPT ![n] = t]
                    /\ destroyer' = [destroyer EXCEPT ![n] = NULL]
                    /\ UNCHANGED crashed
  BY DEF furi_record_create
<1> DEFINE entry == furi_record_data_get_or_create(n, a)
<1>t. TypeOK /\ ~Published(n)
  BY DEF RecordInv, furi_record_create
<1>1. entry \in FuriRecordData /\ entry.data = NULL
  BY <1>t DEF RecordInv, TypeOK, EntriesConsistent, GetOrCreate, furi_record_exists,
     furi_record_data_get_or_create, NewRecord, FuriRecordData
<1>2. /\ records' = [records EXCEPT ![n] = a]
      /\ heap' = [heap EXCEPT ![a] = Filled(entry, d)]
      /\ UNCHANGED <<pc, name, record_data, handle>>
  BY <1>1 DEF furi_record_create, userVars
<1>3. \A m \in Names : records[m] = a => m = n
  BY DEF GetOrCreate, furi_record_exists, Allocated, RecordInv, EntriesConsistent
<1>4. records[n] # NULL => heap[records[n]].data = NULL
  BY <1>t DEF RecordInv, EntriesConsistent
<1> HIDE DEF entry
<1>5. Filled(entry, d).data = d
  BY <1>1 DEF Filled, FuriRecordData
<1> QED
  BY <1>t, <1>2, <1>3, <1>4, <1>5 DEF Registry!Publish, TypeOK

\* furi_record_destroy withdraws an object nobody holds, or does nothing.
LEMMA RegistryDestroy ==
    ASSUME RecordInv, NEW t \in Threads, NEW n \in Names,
           furi_record_destroy(t, n)
    PROVE  Registry!Withdraw(n) \/ UNCHANGED Registry!regVars
<1> USE RecordAssumption
<1>t. TypeOK /\ Published(n) /\ records[n] # NULL /\ heap[records[n]].data # NULL
  BY DEF RecordInv, EntriesConsistent, furi_record_destroy
<1>u. UNCHANGED <<heap, creator, pc, name, record_data, handle>>
  BY DEF furi_record_destroy, userVars
<1>1. CASE UNCHANGED <<records, destroyer, crashed>>
  BY <1>1, <1>u DEF Registry!regVars
<1>2. CASE /\ NotHeld(n)
           /\ records' = [records EXCEPT ![n] = NULL]
  <2>1. UsersOf(n) = {}
    BY <1>2, <1>t, UsersOfFinite, FS_EmptySet DEF RecordInv, HoldersExact, NotHeld
  <2>2. Registry!Holders(n) = {}
    BY <2>1 DEF UsersOf, Registry!Holders
  <2> QED
    BY <1>2, <1>t, <1>u, <2>2 DEF Registry!Withdraw, TypeOK
<1> QED
  BY <1>t, <1>1, <1>2 DEF furi_record_destroy, furi_record_exists

\* Counting a user in furi_record_open changes nothing the registry shows.
LEMMA RegistryOpen ==
    ASSUME RecordInv, NEW u \in Users, NEW n \in Names, furi_record_open(u, n)
    PROVE  UNCHANGED Registry!regVars
<1> USE RecordAssumption
<1> PICK a \in Addr :
        LET entry == furi_record_data_get_or_create(n, a)
        IN  /\ GetOrCreate(n, a)
            /\ records' = [records EXCEPT ![n] = a]
            /\ heap' = [heap EXCEPT ![a] = Counted(entry)]
            /\ record_data' = [record_data EXCEPT ![u] = a]
  BY DEF furi_record_open
<1> DEFINE entry == furi_record_data_get_or_create(n, a)
<1>t. TypeOK
  BY DEF RecordInv
<1>1. /\ records[n] # NULL => a = records[n] /\ entry = heap[a]
      /\ records[n] = NULL => entry = NewRecord
      /\ \A m \in Names : records[m] = a => m = n
      /\ entry \in FuriRecordData
  BY <1>t DEF RecordInv, EntriesConsistent, GetOrCreate, furi_record_exists, Allocated,
     furi_record_data_get_or_create, TypeOK, NewRecord, FuriRecordData
<1> HIDE DEF entry
<1>2. Counted(entry).data = entry.data
  BY <1>1 DEF Counted, FuriRecordData
<1>3. /\ records' = [records EXCEPT ![n] = a]
      /\ heap' = [heap EXCEPT ![a] = Counted(entry)]
      /\ name' = [name EXCEPT ![u] = n]
      /\ pc' = [pc EXCEPT ![u] = "wait"] /\ pc[u] = "idle"
      /\ UNCHANGED handle
  BY DEF furi_record_open, entry
<1>4. \A m \in Names : (IF records[m] = NULL THEN NULL ELSE heap[records[m]].data)
                    = (IF records'[m] = NULL THEN NULL ELSE heap'[records'[m]].data)
  BY <1>t, <1>1, <1>2, <1>3 DEF TypeOK, NewRecord
<1>5. \A v \in Users :
        (IF pc'[v] = "hold" THEN [name |-> name'[v], data |-> handle'[v]] ELSE NULL)
        = (IF pc[v] = "hold" THEN [name |-> name[v], data |-> handle[v]] ELSE NULL)
  BY <1>t, <1>3 DEF TypeOK
<1>6. UNCHANGED [m \in Names |-> IF records[m] = NULL THEN NULL
                                 ELSE heap[records[m]].data]
  BY <1>4
<1>7. UNCHANGED [v \in Users |-> IF pc[v] = "hold"
                                 THEN [name |-> name[v], data |-> handle[v]]
                                 ELSE NULL]
  BY <1>5
<1> QED
  BY <1>6, <1>7 DEF Registry!regVars

\* The return of furi_record_open acquires what is published.
LEMMA RegistryWait ==
    ASSUME RecordInv, NEW u \in Users, OpenReady(u) \/ OpenReturn(u)
    PROVE  \/ \E n \in Names : Registry!Acquire(u, n)
           \/ UNCHANGED Registry!regVars
<1> USE RecordAssumption
<1>t. TypeOK
  BY DEF RecordInv
<1>1. CASE OpenReady(u)
  <2>1. \A v \in Users : (pc[v] = "hold") <=> (pc'[v] = "hold")
    BY <1>1, <1>t DEF OpenReady, TypeOK
  <2> QED BY <1>1, <2>1 DEF OpenReady, Registry!regVars
<1>2. CASE OpenReturn(u)
  <2> PICK n \in Names : n = name[u]
    BY <1>2, <1>t DEF OpenReturn, RecordInv, NoDanglingRecord, TypeOK
  <2>1. /\ record_data[u] = records[n] /\ records[n] # NULL
        /\ heap[records[n]].data # NULL
    BY <1>2, <1>t DEF OpenReturn, RecordInv, NoDanglingRecord, EntriesConsistent
  <2>2. Registry!Acquire(u, n)
    BY <1>2, <1>t, <2>1 DEF OpenReturn, Registry!Acquire, TypeOK
  <2> QED BY <2>2
<1> QED
  BY <1>1, <1>2

\* furi_record_close releases what is held.
LEMMA RegistryClose ==
    ASSUME RecordInv, NEW u \in Users, furi_record_close(u)
    PROVE  Registry!Release(u)
<1> USE RecordAssumption
<1>t. TypeOK /\ pc[u] = "hold" /\ name[u] \in Names /\ handle[u] \in Data
      /\ records[name[u]] \in Addr
  BY DEF RecordInv, NoDanglingRecord, TypeOK, furi_record_close
<1>1. /\ heap' = [heap EXCEPT ![records[name[u]]].holders_count = Decrement(@)]
      /\ pc' = [pc EXCEPT ![u] = "idle"]
      /\ name' = [name EXCEPT ![u] = NULL]
      /\ handle' = [handle EXCEPT ![u] = NULL]
      /\ UNCHANGED records
  BY <1>t DEF furi_record_close, furi_record_exists
<1>2. \A b \in Addr : heap'[b].data = heap[b].data
  BY <1>t, <1>1 DEF TypeOK, FuriRecordData
<1>3. \A m \in Names : (IF records[m] = NULL THEN NULL ELSE heap[records[m]].data)
                    = (IF records'[m] = NULL THEN NULL ELSE heap'[records'[m]].data)
  BY <1>t, <1>1, <1>2 DEF TypeOK
<1>4. UNCHANGED [m \in Names |-> IF records[m] = NULL THEN NULL
                                 ELSE heap[records[m]].data]
  BY <1>3
<1>5. \A v \in Users :
        (IF pc'[v] = "hold" THEN [name |-> name'[v], data |-> handle'[v]] ELSE NULL)
        = IF v = u THEN NULL
          ELSE IF pc[v] = "hold" THEN [name |-> name[v], data |-> handle[v]] ELSE NULL
  BY <1>t, <1>1 DEF TypeOK
<1>6. [name |-> name[u], data |-> handle[u]] # NULL
  BY <1>t
<1> QED
  BY <1>t, <1>4, <1>5, <1>6 DEF Registry!Release

\* Every step of record.c is a step of the registry or invisible there.
LEMMA RegistryStep ==
    RecordInv /\ [Next]_vars => [Registry!RegNext]_(Registry!regVars)
<1> SUFFICES ASSUME RecordInv, [Next]_vars
             PROVE  [Registry!RegNext]_(Registry!regVars)
    OBVIOUS
<1>1. ASSUME NEW t \in Threads, NEW n \in Names, NEW d \in Data,
             furi_record_create(t, n, d)
      PROVE  Registry!RegNext
  BY <1>1, RegistryCreate DEF Registry!RegNext
<1>2. ASSUME NEW t \in Threads, NEW n \in Names, furi_record_destroy(t, n)
      PROVE  [Registry!RegNext]_(Registry!regVars)
  BY <1>2, RegistryDestroy DEF Registry!RegNext
<1>3. ASSUME NEW u \in Users, NEW n \in Names, furi_record_open(u, n)
      PROVE  UNCHANGED Registry!regVars
  BY <1>3, RegistryOpen
<1>4. ASSUME NEW u \in Users, OpenReady(u) \/ OpenReturn(u)
      PROVE  [Registry!RegNext]_(Registry!regVars)
  BY <1>4, RegistryWait DEF Registry!RegNext
<1>5. ASSUME NEW u \in Users, furi_record_close(u)
      PROVE  Registry!RegNext
  BY <1>5, RegistryClose DEF Registry!RegNext
<1>6. CASE UNCHANGED vars
  BY <1>6 DEF vars, Registry!regVars
<1> QED
  BY <1>1, <1>2, <1>3, <1>4, <1>5, <1>6 DEF Next

\* record.c implements the registry of RecordRegistry.
THEOREM RecordImplementsRegistry == Spec => ImplementsRegistry
<1> QED
  BY RegistryInit, RegistryStep, RecordInvariant, PTL
     DEF Spec, ImplementsRegistry, Registry!RegSpec
=============================================================================
