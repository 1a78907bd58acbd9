--------------------------- MODULE StorageProofs ---------------------------
(***************************************************************************)
(* Proofs about the storage service, for any number of clients and any     *)
(* paths: the lists of open files and the clients' File objects agree, and *)
(* a rename never loses a file.  The first holds when the File objects     *)
(* that storage_process_common_copy leaves uninitialised are zero, the     *)
(* second when the card neither fills up nor is pulled out during a copy:  *)
(* what happens otherwise is shown by TLC.                                 *)
(***************************************************************************)
EXTENDS Storage, FiniteSetTheorems, TLAPS

(***************************************************************************)
(* The lookups.                                                            *)
(***************************************************************************)

\* storage_get_storage_by_type finds one of the two storages.
LEMMA ResolveType ==
    ASSUME NEW p, p.st \in {"ext", "int", "any"}
    PROVE  Resolve(p) \in Stores
BY DEF Resolve, Stores

\* The paths of requests that reach a file system.
LEMMA GivenPaths ==
    /\ \A p \in Paths : p.st \in {"ext", "int", "any"} /\ p.name \in Names
    /\ \A mv \in Moves : /\ mv[1].st \in {"ext", "int", "any"} /\ mv[1].name \in Names
                         /\ mv[2].st \in {"ext", "int", "any"} /\ mv[2].name \in Names
BY StorageAssumption

Disks == [Stores -> [Names -> {"none", "cut", "whole"}]]

\* What a file system answers.
LEMMA ContentType ==
    ASSUME NEW d \in Disks, NEW p, p.st \in {"ext", "int", "any"}, p.name \in Names
    PROVE  Content(d, p) \in {"none", "cut", "whole"}
BY ResolveType DEF Content, Disks

\* A file that is written is there; the others are as they were.
LEMMA PutType ==
    ASSUME NEW d \in Disks, NEW p, p.st \in {"ext", "int", "any"}, p.name \in Names,
           NEW x \in {"none", "cut", "whole"}
    PROVE  Put(d, p, x) \in Disks
BY ResolveType DEF Put, Disks

LEMMA PutHere ==
    ASSUME NEW d \in Disks, NEW p, p.st \in {"ext", "int", "any"}, p.name \in Names,
           NEW x
    PROVE  Put(d, p, x)[Resolve(p)][p.name] = x
BY ResolveType DEF Put, Disks

LEMMA PutElsewhere ==
    ASSUME NEW d \in Disks, NEW p, p.st \in {"ext", "int", "any"}, p.name \in Names,
           NEW x, NEW s \in Stores, NEW n \in Names, s # Resolve(p) \/ n # p.name
    PROVE  Put(d, p, x)[s][n] = d[s][n]
BY ResolveType DEF Put, Disks

(***************************************************************************)
(* Requests.                                                               *)
(***************************************************************************)

\* What a request is.
LEMMA RequestClient == \A m \in Requests : m.client \in Clients
BY DEF Requests

\* Posting: the client was idle, so nothing of it is in the queue yet.
LEMMA PostRequests ==
    ASSUME StorageInv, NEW c \in Clients, pc[c] = "idle",
           NEW m \in Requests, NEW x \in {"keep", "close", "free"}, m.client = c,
           queue' = Append(queue, m),
           pc' = [pc EXCEPT ![c] = "wait"], then' = [then EXCEPT ![c] = x],
           \A d \in Clients \ {c} : file'[d] = file[d],
           m.cmd \in {"open", "create"} => file'[c] = FILE_OPENED,
           m.cmd = "close" <=> x # "keep",
           m.cmd \in {"open", "create", "remove"} => m.old \in Paths,
           m.cmd \in {"rename", "copy"} => \E mv \in Moves : m.old = mv[1] /\ m.new = mv[2]
    PROVE  RequestsConsistent'
<1>1. queue \in Seq(Requests) /\ pc \in [Clients -> {"idle", "wait", "replied"}]
      /\ then \in [Clients -> {"keep", "close", "free"}]
  BY DEF StorageInv, RequestsConsistent, StorageTypeOK
<1>2. \A i \in 1 .. Len(queue) : queue[i] \in Requests /\ queue[i].client \in Clients
  BY <1>1, RequestClient
<1>3. \A i \in 1 .. Len(queue) : RequestOK(queue[i]) /\ queue[i].client # c
  BY <1>1 DEF StorageInv, RequestsConsistent, RequestOK
<1>4. /\ queue' \in Seq(Requests) /\ Len(queue') = Len(queue) + 1
      /\ queue'[Len(queue) + 1] = m
      /\ \A i \in 1 .. Len(queue) : queue'[i] = queue[i]
  BY <1>1
<1>5. RequestOK(m)'
  BY <1>1 DEF RequestOK
<1>6. ASSUME NEW i \in 1 .. Len(queue) PROVE RequestOK(queue[i])'
  BY <1>1, <1>2, <1>3, <1>4, <1>6 DEF RequestOK
<1>7. \A i \in 1 .. Len(queue') : RequestOK(queue[i])'
  <2> SUFFICES ASSUME NEW i \in 1 .. Len(queue') PROVE RequestOK(queue[i])'
    OBVIOUS
  <2>1. CASE i = Len(queue) + 1
    BY <2>1, <1>4, <1>5 DEF RequestOK
  <2>2. CASE i \in 1 .. Len(queue)
    BY <2>2, <1>6
  <2> QED BY <2>1, <2>2, <1>4, <1>1
<1>8. \A i, j \in 1 .. Len(queue') : queue'[i].client = queue'[j].client => i = j
  <2> SUFFICES ASSUME NEW i \in 1 .. Len(queue'), NEW j \in 1 .. Len(queue'),
                      queue'[i].client = queue'[j].client
               PROVE  i = j
    OBVIOUS
  <2>1. \A k \in 1 .. Len(queue) : queue'[k].client # c
    BY <1>3, <1>4
  <2>2. CASE i \in 1 .. Len(queue) /\ j \in 1 .. Len(queue)
    BY <2>2, <1>4 DEF StorageInv, RequestsConsistent
  <2> QED BY <2>1, <2>2, <1>4, <1>1
<1> QED BY <1>4, <1>7, <1>8 DEF RequestsConsistent

\* Serving: the answered client has nothing else in the queue.
LEMMA ServeRequests ==
    ASSUME StorageInv, NEW cmd, Serve(cmd),
           \A d \in Clients \ {msg.client} : file'[d] = file[d]
    PROVE  RequestsConsistent'
<1>1. queue \in Seq(Requests) /\ pc \in [Clients -> {"idle", "wait", "replied"}] /\ queue # <<>>
  BY DEF StorageInv, RequestsConsistent, StorageTypeOK, Serve
<1>2. \A i \in 1 .. Len(queue) : queue[i] \in Requests /\ queue[i].client \in Clients
  BY <1>1, RequestClient
<1>3. /\ queue' \in Seq(Requests) /\ Len(queue') = Len(queue) - 1 /\ Len(queue) \in Nat \ {0}
      /\ \A i \in 1 .. Len(queue') : queue'[i] = queue[i + 1]
      /\ msg = queue[1]
  BY <1>1 DEF Serve, msg
<1>4. ASSUME NEW i \in 1 .. Len(queue') PROVE RequestOK(queue[i])'
  <2>1. i + 1 \in 1 .. Len(queue) /\ 1 \in 1 .. Len(queue) /\ queue'[i] = queue[i + 1]
    BY <1>3
  <2>2. queue[i + 1].client # msg.client
    <3>1. queue[i + 1].client = queue[1].client => i + 1 = 1
      BY <2>1 DEF StorageInv, RequestsConsistent
    <3> QED BY <3>1, <1>3
  <2>3. RequestOK(queue[i + 1]) /\ queue[i + 1].client \in Clients
    BY <2>1, <1>2 DEF StorageInv, RequestsConsistent
  <2>4. /\ pc'[queue[i + 1].client] = pc[queue[i + 1].client]
        /\ file'[queue[i + 1].client] = file[queue[i + 1].client]
        /\ then' = then
    BY <2>2, <2>3, <1>1 DEF Serve, msg
  <2> QED BY <2>1, <2>3, <2>4 DEF RequestOK
<1>5. \A i, j \in 1 .. Len(queue') : queue'[i].client = queue'[j].client => i = j
  <2> SUFFICES ASSUME NEW i \in 1 .. Len(queue'), NEW j \in 1 .. Len(queue'),
                      queue'[i].client = queue'[j].client
               PROVE  i = j
    OBVIOUS
  <2>1. i + 1 \in 1 .. Len(queue) /\ j + 1 \in 1 .. Len(queue)
        /\ queue'[i] = queue[i + 1] /\ queue'[j] = queue[j + 1]
    BY <1>3
  <2>2. i + 1 = j + 1
    BY <2>1 DEF StorageInv, RequestsConsistent
  <2> QED BY <2>2, <1>3
<1> QED BY <1>3, <1>4, <1>5 DEF RequestsConsistent

\* The request at the head of the queue.
LEMMA HeadRequest ==
    ASSUME StorageInv, NEW cmd, Serve(cmd)
    PROVE  /\ msg \in Requests /\ msg.client \in Clients /\ msg.cmd = cmd /\ RequestOK(msg)
           /\ pc' = [pc EXCEPT ![msg.client] = "replied"] /\ then' = then
           /\ \A i \in DOMAIN queue' : queue'[i].client \in Clients
<1>1. queue \in Seq(Requests) /\ queue # <<>> /\ msg = queue[1] /\ 1 \in 1 .. Len(queue)
  BY DEF StorageInv, RequestsConsistent, Serve, msg
<1>2. msg \in Requests /\ RequestOK(msg)
  BY <1>1 DEF StorageInv, RequestsConsistent
<1>3. queue' \in Seq(Requests)
  BY <1>1 DEF Serve
<1>4. \A i \in DOMAIN queue' : queue'[i].client \in Clients
  BY <1>3, RequestClient
<1> QED BY <1>1, <1>2, <1>4, RequestClient DEF Serve, msg

(***************************************************************************)
(* Entries.                                                                *)
(***************************************************************************)

\* A file_id is the address of a list node, and none of the marks.
LEMMA IdsAreNoMarks ==
    /\ Ids \subseteq Nat
    /\ FILE_FREED \notin Ids /\ FILE_CLOSED \notin Ids /\ FILE_OPENED \notin Ids
BY StorageAssumption, FS_CardinalityType DEF Ids, FILE_FREED, FILE_CLOSED, FILE_OPENED

\* What a step does to client c's File while the others' stay (all of them if
\* c is none): it keeps its file_id and is not given up, or it has no entry
\* before and after.
FileMoves(c) ==
    /\ \A d \in Clients \ {c} : pc'[d] = pc[d] /\ then'[d] = then[d] /\ file'[d] = file[d]
    /\ \/ c \notin Clients
       \/ file'[c] = file[c] /\ ~Leaving(c) /\ ~Leaving(c)'
       \/ file'[c] \notin Ids /\ (file[c] \notin Ids \/ Leaving(c))

\* The lists keep the entries they had, though these may become invalid.
SameEntries ==
    /\ files' \in [Stores -> SUBSET Entry]
    /\ \A s \in Stores : IsFiniteSet(files'[s])
    /\ \A s \in Stores : \A e \in files'[s] : \E f \in files[s] : f.id = e.id /\ f.file = e.file
    /\ \A s \in Stores : \A f \in files[s] : \E e \in files'[s] : f.id = e.id /\ f.file = e.file
    /\ \A s \in Stores : \A e, f \in files'[s] : e.id = f.id => e = f

LEMMA EntriesKept ==
    ASSUME StorageInv, NEW c, FileMoves(c), SameEntries
    PROVE  EntriesConsistent'
<1>1. EntriesConsistent
  BY DEF StorageInv
<1>2. \A s \in Stores : \A e \in files[s] : e.id \in Ids /\ e.file \in Clients
  BY <1>1 DEF EntriesConsistent, Entry
<1>3. ASSUME NEW s \in Stores, NEW e \in files'[s]
      PROVE  file'[e.file] = e.id /\ ~Leaving(e.file)'
  <2>1. PICK f \in files[s] : f.id = e.id /\ f.file = e.file
    BY <1>3 DEF SameEntries
  <2>2. file[f.file] = f.id /\ ~Leaving(f.file) /\ f.id \in Ids /\ f.file \in Clients
    BY <1>1, <1>2, <2>1 DEF EntriesConsistent
  <2>3. CASE e.file = c
    BY <2>1, <2>2, <2>3 DEF FileMoves
  <2>4. CASE e.file # c
    BY <2>1, <2>2, <2>4 DEF FileMoves, Leaving
  <2> QED BY <2>3, <2>4
<1>4. ASSUME NEW s \in Stores, NEW t \in Stores, NEW e \in files'[s], NEW f \in files'[t],
             e.id = f.id
      PROVE  s = t /\ e = f
  <2>1. PICK e0 \in files[s] : e0.id = e.id
    BY <1>4 DEF SameEntries
  <2>2. PICK f0 \in files[t] : f0.id = f.id
    BY <1>4 DEF SameEntries
  <2>3. s = t
    BY <2>1, <2>2, <1>4, <1>1 DEF EntriesConsistent
  <2> QED BY <2>3, <1>4 DEF SameEntries
<1>5. ASSUME NEW d \in Clients, file'[d] \in Ids, ~Leaving(d)'
      PROVE  \E s \in Stores : \E e \in files'[s] : e.file = d
  <2>1. file[d] \in Ids /\ ~Leaving(d)
    <3>1. CASE d = c
      BY <3>1, <1>5 DEF FileMoves
    <3>2. CASE d # c
      BY <3>2, <1>5 DEF FileMoves, Leaving
    <3> QED BY <3>1, <3>2
  <2>2. PICK s \in Stores : \E f \in files[s] : f.file = d
    BY <2>1, <1>1 DEF EntriesConsistent
  <2>3. PICK f \in files[s] : f.file = d
    BY <2>2
  <2> QED BY <2>3 DEF SameEntries
<1>6. files' \in [Stores -> SUBSET Entry] /\ \A s \in Stores : IsFiniteSet(files'[s])
  BY DEF SameEntries
<1>7. Ids' = Ids /\ Entry' = Entry
  BY DEF Ids, Entry
<1> QED BY <1>3, <1>4, <1>5, <1>6, <1>7 DEF EntriesConsistent

LEMMA UnchangedEntries ==
    ASSUME StorageInv, files' = files
    PROVE  SameEntries
BY DEF StorageInv, EntriesConsistent, SameEntries

\* f_mount: the card's entries become invalid.
LEMMA InvalidatedEntries ==
    ASSUME StorageInv, files' = Invalidated
    PROVE  SameEntries /\ files'["ext"] \subseteq Entry /\ files'["int"] \subseteq Entry
<1> DEFINE Inv(e) == [e EXCEPT !.valid = FALSE]
<1>1. /\ files \in [Stores -> SUBSET Entry] /\ "ext" \in Stores /\ "int" \in Stores
      /\ Stores = {"ext", "int"}
      /\ IsFiniteSet(files["ext"]) /\ IsFiniteSet(files["int"])
      /\ \A s \in Stores : \A e, f \in files[s] : e.id = f.id => e = f
  BY DEF StorageInv, EntriesConsistent, Stores
<1>2. files'["ext"] = {Inv(e) : e \in files["ext"]} /\ files'["int"] = files["int"]
      /\ DOMAIN files' = Stores
  BY <1>1 DEF Invalidated
<1>3. \A e \in Entry : Inv(e) \in Entry /\ Inv(e).id = e.id /\ Inv(e).file = e.file
  BY DEF Entry
<1>4. IsFiniteSet(files'["ext"])
  <2> DEFINE inv == [e \in files["ext"] |-> Inv(e)]
  <2>1. inv \in Surjection(files["ext"], files'["ext"])
    BY <1>2 DEF Surjection
  <2> QED BY <2>1, <1>1, FS_Surjection
<1>5. files' \in [Stores -> SUBSET Entry]
  BY <1>1, <1>2, <1>3 DEF Invalidated
<1> HIDE DEF Inv
<1>6. ASSUME NEW e \in files'["ext"]
      PROVE  \E f \in files["ext"] : e = Inv(f) /\ f.id = e.id /\ f.file = e.file
  <2>1. PICK f \in files["ext"] : e = Inv(f)
    BY <1>2
  <2>2. f \in Entry
    BY <1>1
  <2> QED BY <2>1, <2>2, <1>3
<1>7. ASSUME NEW f \in files["ext"]
      PROVE  \E e \in files'["ext"] : f.id = e.id /\ f.file = e.file
  <2>1. f \in Entry /\ Inv(f) \in files'["ext"]
    BY <1>1, <1>2
  <2> QED BY <2>1, <1>3
<1>8. ASSUME NEW e \in files'["ext"], NEW f \in files'["ext"], e.id = f.id PROVE e = f
  <2>1. PICK e0 \in files["ext"] : e = Inv(e0) /\ e0.id = e.id
    BY <1>6
  <2>2. PICK f0 \in files["ext"] : f = Inv(f0) /\ f0.id = f.id
    BY <1>6
  <2>3. e0 = f0
    BY <2>1, <2>2, <1>1, <1>8
  <2> QED BY <2>1, <2>2, <2>3
<1>9. ASSUME NEW s \in Stores
      PROVE  /\ IsFiniteSet(files'[s])
             /\ \A e \in files'[s] : \E f \in files[s] : f.id = e.id /\ f.file = e.file
             /\ \A f \in files[s] : \E e \in files'[s] : f.id = e.id /\ f.file = e.file
             /\ \A e, f \in files'[s] : e.id = f.id => e = f
  <2>1. CASE s = "ext"
    BY <2>1, <1>4, <1>6, <1>7, <1>8
  <2>2. CASE s = "int"
    BY <2>2, <1>1, <1>2
  <2> QED BY <2>1, <2>2, <1>1
<1> QED BY <1>1, <1>5, <1>9 DEF SameEntries

(***************************************************************************)
(* The steps.                                                              *)
(***************************************************************************)
FileIds == {FILE_FREED, FILE_CLOSED, FILE_OPENED} \cup Ids

\* What a client posts, whatever function posts it.
LEMMA PostPreserves ==
    ASSUME StorageInv, NEW c \in Clients, pc[c] = "idle",
           NEW cmd \in Cmds, NEW old \in Given, NEW new \in Given,
           NEW x \in {"keep", "close", "free"},
           Post(c, Request(cmd, old, new), x),
           file' \in [Clients -> FileIds],
           \A d \in Clients \ {c} : file'[d] = file[d],
           file'[c] = file[c] \/ (file[c] \notin Ids /\ file'[c] \notin Ids),
           cmd \in {"open", "create"} => file'[c] = FILE_OPENED,
           cmd = "close" <=> x # "keep",
           cmd \in {"open", "create", "remove"} => old \in Paths,
           cmd \in {"rename", "copy"} => \E mv \in Moves : old = mv[1] /\ new = mv[2]
    PROVE  StorageInv'
<1> DEFINE m == [client |-> c, cmd |-> cmd, old |-> old, new |-> new]
<1>1. StorageTypeOK
  BY DEF StorageInv
<1>2. /\ queue' = Append(queue, m)
      /\ pc' = [pc EXCEPT ![c] = "wait"] /\ then' = [then EXCEPT ![c] = x]
      /\ files' = files
      /\ UNCHANGED <<disk, status, published, icon, sd_was_present, card, svc>>
  BY DEF Post, Request, cardVars
<1>3. m \in Requests /\ m.client = c /\ m.cmd = cmd /\ m.old = old /\ m.new = new
  BY DEF Requests
<1> HIDE DEF m
<1>4. RequestsConsistent'
  BY <1>2, <1>3, PostRequests
<1>5. FileMoves(c)
  <2>1. ~Leaving(c) /\ ~Leaving(c)'
    BY <1>1, <1>2 DEF Leaving, StorageTypeOK
  <2>2. \A d \in Clients \ {c} : pc'[d] = pc[d] /\ then'[d] = then[d]
    BY <1>1, <1>2 DEF StorageTypeOK
  <2> QED BY <2>1, <2>2 DEF FileMoves
<1>6. EntriesConsistent'
  BY <1>2, <1>5, EntriesKept, UnchangedEntries
<1>7. \A i \in DOMAIN queue' : queue'[i].client \in Clients
  BY <1>4, RequestClient DEF RequestsConsistent
<1>8. StorageTypeOK'
  BY <1>1, <1>2, <1>7 DEF StorageTypeOK, FileIds
<1> QED BY <1>4, <1>6, <1>8 DEF StorageInv

LEMMA ClientPreserves ==
    ASSUME StorageInv, NEW c \in Clients, Client(c)
    PROVE  StorageInv'
<1>1. /\ StorageTypeOK /\ file \in [Clients -> FileIds]
      /\ AnyPath \in Given /\ Paths \subseteq Given
      /\ \A mv \in Moves : mv[1] \in Given /\ mv[2] \in Given
  BY DEF StorageInv, StorageTypeOK, FileIds, Given
<1>2. Cmds = {"open", "create", "write", "close", "remove", "rename", "copy", "unmount", "format"}
  BY DEF Cmds
<1>3. CASE FileWrite(c)
  BY <1>1, <1>2, <1>3, PostPreserves DEF FileWrite
<1>4. CASE FileClose(c)
  BY <1>1, <1>2, <1>4, PostPreserves DEF FileClose
<1>5. CASE FileFree(c)
  <2>1. CASE Post(c, Request("close", AnyPath, AnyPath), "free") /\ UNCHANGED file /\ pc[c] = "idle"
    BY <1>1, <1>2, <2>1, PostPreserves
  <2>2. CASE /\ file[c] = FILE_CLOSED
             /\ file' = [file EXCEPT ![c] = FILE_FREED]
             /\ UNCHANGED <<pc, then, queue, posts, files, disk, cardVars>>
             /\ pc[c] = "idle"
    <3>1. RequestsConsistent'
      <4>1. \A i \in 1 .. Len(queue) : queue[i].client \in Clients \ {c}
        <5>1. \A i \in 1 .. Len(queue) : queue[i] \in Requests /\ RequestOK(queue[i])
          BY DEF StorageInv, RequestsConsistent
        <5> QED BY <5>1, <2>2, RequestClient DEF RequestOK
      <4>2. \A d \in Clients \ {c} : file'[d] = file[d]
        BY <2>2, <1>1
      <4>3. \A i \in 1 .. Len(queue) : RequestOK(queue[i])'
        BY <4>1, <4>2, <2>2 DEF StorageInv, RequestsConsistent, RequestOK
      <4> QED BY <4>3, <2>2 DEF StorageInv, RequestsConsistent
    <3>2. FileMoves(c)
      BY <1>1, <2>2, IdsAreNoMarks DEF FileMoves
    <3>3. EntriesConsistent'
      BY <3>2, <2>2, EntriesKept, UnchangedEntries
    <3>4. StorageTypeOK'
      BY <1>1, <2>2 DEF StorageTypeOK, cardVars
    <3> QED BY <3>1, <3>3, <3>4 DEF StorageInv
  <2> QED BY <2>1, <2>2, <1>5 DEF FileFree
<1>6. ASSUME NEW p \in Paths, NEW mode \in {"open", "create"}, FileOpen(c, mode, p)
      PROVE  StorageInv'
  <2>1. /\ file[c] \notin Ids /\ FILE_OPENED \notin Ids
        /\ file' = [file EXCEPT ![c] = FILE_OPENED]
    BY <1>6, IdsAreNoMarks DEF FileOpen
  <2>2. /\ file' \in [Clients -> FileIds] /\ file'[c] = FILE_OPENED
        /\ \A d \in Clients \ {c} : file'[d] = file[d]
    BY <1>1, <2>1 DEF FileIds
  <2> QED BY <1>1, <1>2, <1>6, <2>1, <2>2, PostPreserves DEF FileOpen
<1>7. ASSUME NEW cmd, NEW old \in Given, NEW new \in Given, CommonCall(c, cmd, old, new),
             \/ cmd = "remove" /\ old \in Paths
             \/ cmd \in {"rename", "copy"} /\ \E mv \in Moves : old = mv[1] /\ new = mv[2]
             \/ cmd \in {"unmount", "format"}
      PROVE  StorageInv'
  BY <1>1, <1>2, <1>7, PostPreserves DEF CommonCall
<1> QED BY <1>1, <1>3, <1>4, <1>5, <1>6, <1>7 DEF Client

\* A client that runs on.  Its entry is gone if it gives up its file_id.
LEMMA ResumePreserves ==
    ASSUME StorageInv, NEW c \in Clients, Resume(c)
    PROVE  StorageInv'
<1>1. /\ StorageTypeOK /\ pc[c] = "replied"
      /\ pc' = [pc EXCEPT ![c] = "idle"] /\ then' = [then EXCEPT ![c] = "keep"]
      /\ UNCHANGED <<queue, files, disk, status, published, icon, sd_was_present, card, svc>>
  BY DEF StorageInv, Resume, cardVars
<1>2. /\ \A d \in Clients \ {c} : pc'[d] = pc[d] /\ then'[d] = then[d] /\ file'[d] = file[d]
      /\ file' \in [Clients -> FileIds]
      /\ \/ then[c] = "keep" /\ file'[c] = file[c]
         \/ then[c] # "keep" /\ file'[c] \notin Ids
  <2>1. CASE then[c] = "close"
    BY <2>1, <1>1, IdsAreNoMarks DEF Resume, StorageTypeOK, FileIds
  <2>2. CASE then[c] = "free"
    BY <2>2, <1>1, IdsAreNoMarks DEF Resume, StorageTypeOK, FileIds
  <2>3. CASE then[c] = "keep"
    <3>1. file' = [file EXCEPT ![c] = file[c]]
      BY <2>3 DEF Resume
    <3>2. file \in [Clients -> FileIds]
      BY <1>1 DEF StorageTypeOK, FileIds
    <3>3. file' = file
      BY <3>1, <3>2
    <3>4. \A d \in Clients \ {c} : pc'[d] = pc[d] /\ then'[d] = then[d]
      BY <1>1 DEF StorageTypeOK
    <3> QED BY <2>3, <3>2, <3>3, <3>4
  <2> QED BY <2>1, <2>2, <2>3, <1>1 DEF StorageTypeOK
<1>3. RequestsConsistent'
  <2>1. \A i \in 1 .. Len(queue) : queue[i] \in Requests /\ RequestOK(queue[i])
    BY DEF StorageInv, RequestsConsistent
  <2>2. \A i \in 1 .. Len(queue) : queue[i].client \in Clients \ {c}
    BY <2>1, <1>1, RequestClient DEF RequestOK
  <2>3. \A i \in 1 .. Len(queue) : RequestOK(queue[i])'
    BY <2>1, <2>2, <1>1, <1>2 DEF RequestOK
  <2> QED BY <2>3, <1>1 DEF StorageInv, RequestsConsistent
<1>4. FileMoves(c)
  BY <1>1, <1>2 DEF FileMoves, Leaving, StorageTypeOK
<1>5. EntriesConsistent'
  BY <1>1, <1>4, EntriesKept, UnchangedEntries
<1>6. StorageTypeOK'
  BY <1>1, <1>2 DEF StorageTypeOK, FileIds
<1> QED BY <1>3, <1>5, <1>6 DEF StorageInv

\* A request that leaves the File objects alone: only the answer counts, and
\* what became of the lists.  Closing is not among them.
LEMMA ServePreserves ==
    ASSUME StorageInv, NEW cmd, Serve(cmd), cmd # "close",
           UNCHANGED <<file, sd_was_present>>, SameEntries, disk' \in Disks,
           status' \in {"OK", "NotReady", "Error"}
    PROVE  StorageInv'
<1>1. StorageTypeOK
  BY DEF StorageInv
<1>2. /\ msg.client \in Clients /\ RequestOK(msg) /\ msg.cmd = cmd
      /\ pc' = [pc EXCEPT ![msg.client] = "replied"] /\ then' = then
      /\ \A i \in DOMAIN queue' : queue'[i].client \in Clients
  BY HeadRequest
<1>3. RequestsConsistent'
  BY ServeRequests
<1>4. FileMoves(msg.client)
  <2>1. pc[msg.client] = "wait" /\ then[msg.client] = "keep"
    BY <1>2 DEF RequestOK
  <2>2. \A d \in Clients \ {msg.client} : pc'[d] = pc[d] /\ then'[d] = then[d] /\ file'[d] = file[d]
    BY <1>1, <1>2 DEF StorageTypeOK
  <2>3. ~Leaving(msg.client)
    BY <2>1 DEF Leaving
  <2>4. then'[msg.client] = "keep" /\ file'[msg.client] = file[msg.client]
    BY <2>1, <1>2
  <2>5. \A d : then'[d] = "keep" => ~(pc'[d] = "replied" /\ then'[d] # "keep")
    OBVIOUS
  <2>6. ASSUME NEW d, d = msg.client PROVE FileMoves(d)
    BY <2>2, <2>3, <2>4, <2>5, <2>6 DEF FileMoves, Leaving
  <2> QED BY <2>6
<1>5. EntriesConsistent'
  BY <1>2, <1>4, EntriesKept
<1>6. StorageTypeOK'
  BY <1>1, <1>2 DEF StorageTypeOK, Serve, SameEntries, Disks, Stores
<1> QED BY <1>3, <1>5, <1>6 DEF StorageInv

LEMMA DiskType ==
    ASSUME StorageInv
    PROVE  disk \in Disks /\ status \in {"OK", "NotReady", "Error"}
BY DEF StorageInv, StorageTypeOK, Disks

LEMMA ServeWritePreserves ==
    ASSUME StorageInv, ServeWrite
    PROVE  StorageInv'
<1>1. disk' \in Disks
  BY DiskType DEF ServeWrite, Disks
<1>2. Serve("write") /\ UNCHANGED <<file, files, status, sd_was_present>>
  BY DEF ServeWrite, sdVars
<1> QED BY <1>1, <1>2, DiskType, UnchangedEntries, ServePreserves

\* Removing writes at most one file.
LEMMA RemovedType ==
    ASSUME NEW r, r.disk \in Disks, NEW p, p.st \in {"ext", "int", "any"}, p.name \in Names,
           r \in [ok : BOOLEAN, files : {r.files}, disk : {r.disk}]
    PROVE  Removed(r, p).disk \in Disks /\ Removed(r, p).files = r.files
<1>1. Put(r.disk, p, "none") \in Disks
  BY PutType
<1> QED BY <1>1 DEF Removed

LEMMA ServeRemovePreserves ==
    ASSUME StorageInv, ServeRemove
    PROVE  StorageInv'
<1>1. Serve("remove") /\ UNCHANGED <<file, files, status, sd_was_present>>
  BY DEF ServeRemove, sdVars
<1>2. msg.old.st \in {"ext", "int", "any"} /\ msg.old.name \in Names
  BY <1>1, HeadRequest, GivenPaths DEF RequestOK
<1>3. disk' \in Disks
  <2> DEFINE r == [ok |-> TRUE, files |-> files, disk |-> disk]
  <2>1. r.disk \in Disks /\ r \in [ok : BOOLEAN, files : {r.files}, disk : {r.disk}]
    BY DiskType
  <2>2. disk' = Removed(r, msg.old).disk
    BY DEF ServeRemove
  <2> HIDE DEF r
  <2> QED BY <2>1, <2>2, <1>2, RemovedType
<1> QED BY <1>1, <1>3, DiskType, UnchangedEntries, ServePreserves

(***************************************************************************)
(* Copy and rename.                                                        *)
(***************************************************************************)

\* Closing a File that was never opened closes nothing: no entry has
\* FILE_CLOSED as its file_id.
LEMMA ClosingNothing ==
    ASSUME StorageInv
    PROVE  Closed(files, FILE_CLOSED) = files
<1>1. /\ files \in [Stores -> SUBSET Entry]
      /\ \A s \in Stores : \A e \in files[s] : file[e.file] # FILE_CLOSED
  BY IdsAreNoMarks DEF StorageInv, EntriesConsistent, Entry
<1> QED BY <1>1 DEF Closed, Found

\* Every way a copy may end.  The lists stay as they are if the File whose
\* open was refused has file_id 0; the original stays in any case, and the
\* copy is whole where no card is in trouble.
LEMMA CopiesType ==
    ASSUME StorageInv, Residue \subseteq {FILE_CLOSED}, NEW old, NEW new,
           old.st \in {"ext", "int", "any"}, old.name \in Names,
           new.st \in {"ext", "int", "any"}, new.name \in Names,
           NEW r \in Copies(old, new)
    PROVE  /\ r = [ok |-> r.ok, files |-> files, disk |-> r.disk]
           /\ r.ok \in BOOLEAN
           /\ r.disk \in Disks
<1> DEFINE x    == Content(disk, old)
           fail == [ok |-> FALSE, files |-> files, disk |-> disk]
<1>1. disk \in Disks /\ x \in {"none", "cut", "whole"}
  BY DiskType, ContentType
<1>2. Closed(files, FILE_CLOSED) = files
  BY ClosingNothing
<1>3. ASSUME NEW y \in {"none", "cut", "whole"} PROVE Put(disk, new, y) \in Disks
  BY <1>1, <1>3, PutType
<1>4. CopiedAs(x, new) \subseteq {"none", "cut", "whole"}
  BY <1>1 DEF CopiedAs
<1>5. \/ r = fail
      \/ \E g \in Residue : r = [fail EXCEPT !.files = Closed(files, g)]
      \/ \E y \in CopiedAs(x, new) : r = [ok |-> TRUE, files |-> files, disk |-> Put(disk, new, y)]
      \/ r = [fail EXCEPT !.disk = Put(disk, new, "cut")]
  BY DEF Copies
<1>6. CASE r = fail
  BY <1>1, <1>6
<1>7. ASSUME NEW g \in Residue, r = [fail EXCEPT !.files = Closed(files, g)]
      PROVE  r = fail
  BY <1>2, <1>7
<1>8. ASSUME NEW y \in CopiedAs(x, new),
             r = [ok |-> TRUE, files |-> files, disk |-> Put(disk, new, y)]
      PROVE  /\ r = [ok |-> r.ok, files |-> files, disk |-> r.disk]
             /\ r.ok \in BOOLEAN
             /\ r.disk \in Disks
  BY <1>3, <1>4, <1>8
<1>9. CASE r = [fail EXCEPT !.disk = Put(disk, new, "cut")]
  BY <1>3, <1>9
<1> QED BY <1>5, <1>6, <1>7, <1>8, <1>9

\* The paths of a rename or a copy.
LEMMA MovePaths ==
    ASSUME StorageInv, NEW cmd \in {"rename", "copy"}, Serve(cmd)
    PROVE  /\ msg.old.st \in {"ext", "int", "any"} /\ msg.old.name \in Names
           /\ msg.new.st \in {"ext", "int", "any"} /\ msg.new.name \in Names
BY HeadRequest, GivenPaths DEF RequestOK

LEMMA ServeCopyPreserves ==
    ASSUME StorageInv, Residue \subseteq {FILE_CLOSED}, ServeCopy
    PROVE  StorageInv'
<1>1. Serve("copy") /\ UNCHANGED <<file, status, sd_was_present>>
  BY DEF ServeCopy, sdVars
<1>2. PICK r \in Copies(msg.old, msg.new) : files' = r.files /\ disk' = r.disk
  BY DEF ServeCopy
<1>3. r = [ok |-> r.ok, files |-> files, disk |-> r.disk] /\ r.disk \in Disks
  BY <1>1, MovePaths, CopiesType
<1>4. files' = files /\ disk' \in Disks
  BY <1>2, <1>3
<1> QED BY <1>1, <1>4, DiskType, UnchangedEntries, ServePreserves

\* lfs_rename and f_rename.
LEMMA MovedType ==
    ASSUME StorageInv, NEW old, NEW new,
           old.st \in {"ext", "int", "any"}, old.name \in Names,
           new.st \in {"ext", "int", "any"}, new.name \in Names
    PROVE  Moved(old, new) \in Disks
<1>1. disk \in Disks /\ Content(disk, old) \in {"none", "cut", "whole"}
  BY DiskType, ContentType
<1>2. Put(disk, old, "none") \in Disks
  BY <1>1, PutType
<1>3. Put(Put(disk, old, "none"), new, Content(disk, old)) \in Disks
  BY <1>1, <1>2, PutType
<1> QED BY <1>1, <1>3 DEF Moved

LEMMA ServeRenamePreserves ==
    ASSUME StorageInv, Residue \subseteq {FILE_CLOSED}, ServeRename
    PROVE  StorageInv'
<1>1. Serve("rename") /\ UNCHANGED <<file, status, sd_was_present>>
  BY DEF ServeRename, sdVars
<1>2. /\ msg.old.st \in {"ext", "int", "any"} /\ msg.old.name \in Names
      /\ msg.new.st \in {"ext", "int", "any"} /\ msg.new.name \in Names
  BY <1>1, MovePaths
<1>3. files' = files /\ disk' \in Disks
  <2>1. CASE msg.old.st = msg.new.st
    BY <1>2, <2>1, MovedType DEF ServeRename
  <2>2. CASE msg.old.st # msg.new.st
    <3>1. PICK r \in Copies(msg.old, msg.new) :
            LET q == IF r.ok THEN Removed(r, msg.old) ELSE r
            IN  files' = q.files /\ disk' = q.disk
      BY <2>2 DEF ServeRename
    <3>2. r = [ok |-> r.ok, files |-> files, disk |-> r.disk] /\ r.ok \in BOOLEAN /\ r.disk \in Disks
      BY <1>2, CopiesType
    <3>3. r.files = files /\ r \in [ok : BOOLEAN, files : {r.files}, disk : {r.disk}]
      BY <3>2
    <3>4. Removed(r, msg.old).disk \in Disks /\ Removed(r, msg.old).files = r.files
      BY <1>2, <3>2, <3>3, RemovedType
    <3>5. CASE r.ok
      BY <3>1, <3>3, <3>4, <3>5
    <3>6. CASE ~r.ok
      BY <3>1, <3>2, <3>3, <3>6
    <3> QED BY <3>5, <3>6
  <2> QED BY <2>1, <2>2
<1> QED BY <1>1, <1>3, DiskType, UnchangedEntries, ServePreserves

(***************************************************************************)
(* Open and close.                                                         *)
(***************************************************************************)

\* There is a free address for the client that opens: the entries have the
\* addresses of other clients' Files, and there are as many as clients.
LEMMA AddressLeft ==
    ASSUME StorageInv, NEW c \in Clients, file[c] = FILE_OPENED
    PROVE  FreshId \in FreeIds
<1>1. SUFFICES FreeIds # {}
  BY DEF FreshId
<1>2. SUFFICES ASSUME FreeIds = {} PROVE FALSE
  OBVIOUS
<1> DEFINE Entries == files["ext"] \cup files["int"]
<1>3. \A i \in Ids : \E e \in Entries : e.id = i
  BY <1>2 DEF FreeIds, Stores
<1>4. \A e \in Entries : e.file \in Clients \ {c} /\ file[e.file] = e.id
  <2>1. \A s \in Stores : \A e \in files[s] : e.file \in Clients /\ e.id \in Ids /\ file[e.file] = e.id
    BY DEF StorageInv, EntriesConsistent, Entry
  <2> QED BY <2>1, IdsAreNoMarks DEF Stores
<1> DEFINE owner == [i \in Ids |-> (CHOOSE e \in Entries : e.id = i).file]
<1>5. \A i \in Ids : owner[i] \in Clients \ {c} /\ file[owner[i]] = i
  <2> SUFFICES ASSUME NEW i \in Ids
               PROVE  owner[i] \in Clients \ {c} /\ file[owner[i]] = i
    OBVIOUS
  <2> DEFINE e == CHOOSE e \in Entries : e.id = i
  <2>1. e \in Entries /\ e.id = i
    BY <1>3
  <2>2. owner[i] = e.file
    OBVIOUS
  <2> HIDE DEF e, owner, Entries
  <2> QED BY <2>1, <2>2, <1>4
<1>6. owner \in [Ids -> Clients \ {c}]
  BY <1>5
<1>7. /\ IsFiniteSet(Clients \ {c}) /\ Cardinality(Clients) \in Nat
      /\ Cardinality(Clients \ {c}) = Cardinality(Clients) - 1
  BY StorageAssumption, FS_RemoveElement, FS_CardinalityType
<1>8. IsFiniteSet(Ids) /\ Cardinality(Ids) = Cardinality(Clients)
  <2>1. Cardinality(Clients) # 0
    BY StorageAssumption, FS_EmptySet
  <2>2. IsFiniteSet(2 .. (Cardinality(Clients) + 1))
        /\ Cardinality(2 .. (Cardinality(Clients) + 1))
             = IF 2 > Cardinality(Clients) + 1 THEN 0 ELSE (Cardinality(Clients) + 1) - 2 + 1
    BY <1>7, FS_Interval
  <2> QED BY <2>1, <2>2, <1>7 DEF Ids
<1> HIDE DEF owner
<1>9. PICK i, j \in Ids : i # j /\ owner[i] = owner[j]
  BY <1>6, <1>7, <1>8, FS_PigeonHole
<1> QED BY <1>5, <1>9

LEMMA ServeOpenPreserves ==
    ASSUME StorageInv, NEW mode \in {"open", "create"}, ServeOpen(mode)
    PROVE  StorageInv'
<1>1. Serve(mode) /\ UNCHANGED <<status, sd_was_present>>
  BY DEF ServeOpen, sdVars
<1>2. CASE AlreadyOpen(files, msg.old)
  <2>1. UNCHANGED <<file, files, disk>>
    BY <1>2 DEF ServeOpen
  <2> QED BY <1>1, <2>1, DiskType, UnchangedEntries, ServePreserves
<1>3. CASE ~AlreadyOpen(files, msg.old)
  <2> DEFINE c  == msg.client
             st == Resolve(msg.old)
             ok == Usable(st) /\ (mode = "create" \/ Content(disk, msg.old) # "none")
             new == [id |-> FreshId, file |-> c, path |-> msg.old, valid |-> ok]
  <2>1. /\ c \in Clients /\ RequestOK(msg) /\ msg.cmd = mode
        /\ pc' = [pc EXCEPT ![c] = "replied"] /\ then' = then
        /\ \A i \in DOMAIN queue' : queue'[i].client \in Clients
    BY <1>1, HeadRequest
  <2>2. /\ file[c] = FILE_OPENED /\ then[c] = "keep" /\ pc[c] = "wait" /\ msg.old \in Paths
    BY <2>1 DEF RequestOK
  <2>3. st \in Stores /\ msg.old.st \in {"ext", "int", "any"} /\ msg.old.name \in Names
    BY <2>2, GivenPaths, ResolveType
  <2>4. FreshId \in Ids /\ \A s \in Stores : \A e \in files[s] : e.id # FreshId
    BY <2>1, <2>2, AddressLeft DEF FreeIds
  <2>5. /\ file' = [file EXCEPT ![c] = FreshId]
        /\ files' = [files EXCEPT ![st] = @ \cup {new}]
        /\ disk' = IF ok /\ mode = "create" THEN Put(disk, msg.old, "cut") ELSE disk
    BY <1>3 DEF ServeOpen
  <2>6. disk' \in Disks
    BY <2>3, <2>5, DiskType, PutType
  <2>7. new \in Entry /\ new.id = FreshId /\ new.file = c
    BY <2>1, <2>2, <2>4 DEF Entry
  <2> HIDE DEF c, st, ok, new
  <2>8. StorageTypeOK /\ EntriesConsistent
    BY DEF StorageInv
  <2>9. /\ files \in [Stores -> SUBSET Entry] /\ files' \in [Stores -> SUBSET Entry]
        /\ files'[st] = files[st] \cup {new}
        /\ \A s \in Stores \ {st} : files'[s] = files[s]
    BY <2>3, <2>5, <2>7, <2>8 DEF EntriesConsistent
  <2>10. /\ file' \in [Clients -> FileIds] /\ file'[c] = FreshId
         /\ \A d \in Clients \ {c} : file'[d] = file[d]
    BY <2>1, <2>4, <2>5, <2>8 DEF StorageTypeOK, FileIds
  <2>11. RequestsConsistent'
    BY <1>1, <2>10, ServeRequests DEF c
  <2>12. StorageTypeOK'
    BY <1>1, <2>1, <2>6, <2>8, <2>9, <2>10 DEF StorageTypeOK, Serve, Disks, FileIds, Stores
  <2>13. \A s \in Stores : \A e \in files[s] : e.file \in Clients \ {c} /\ e.id \in Ids
    <3>1. \A s \in Stores : \A e \in files[s] : e.file \in Clients /\ e.id \in Ids /\ file[e.file] = e.id
      BY <2>8 DEF EntriesConsistent, Entry
    <3> QED BY <3>1, <2>2, IdsAreNoMarks
  <2>14. \A s \in Stores : \A e \in files'[s] : (e = new /\ s = st) \/ e \in files[s]
    BY <2>9
  <2>15. \A d \in Clients : Leaving(d)' <=> (d # c /\ Leaving(d))
    BY <2>1, <2>2, <2>8 DEF Leaving, StorageTypeOK
  <2>16. EntriesConsistent'
    <3>1. \A s \in Stores : IsFiniteSet(files'[s])
      <4>1. IsFiniteSet(files[st] \cup {new})
        BY <2>3, <2>8, FS_AddElement DEF EntriesConsistent
      <4> QED BY <4>1, <2>8, <2>9 DEF EntriesConsistent
    <3>2. ASSUME NEW s \in Stores, NEW t \in Stores, NEW e \in files'[s], NEW f \in files'[t],
                 e.id = f.id
          PROVE  s = t /\ e = f
      <4>1. CASE e \in files[s] /\ f \in files[t]
        BY <4>1, <3>2, <2>8 DEF EntriesConsistent
      <4>2. CASE e = new /\ f = new /\ s = st /\ t = st
        BY <4>2
      <4> QED BY <4>1, <4>2, <2>4, <2>7, <2>14, <3>2
    <3>3. ASSUME NEW s \in Stores, NEW e \in files'[s]
          PROVE  file'[e.file] = e.id /\ ~Leaving(e.file)'
      <4>1. CASE e = new
        BY <4>1, <2>1, <2>7, <2>10, <2>15 DEF c
      <4>2. CASE e \in files[s]
        BY <4>2, <2>8, <2>10, <2>13, <2>15 DEF EntriesConsistent
      <4> QED BY <4>1, <4>2, <2>14
    <3>4. ASSUME NEW d \in Clients, file'[d] \in Ids, ~Leaving(d)'
          PROVE  \E s \in Stores : \E e \in files'[s] : e.file = d
      <4>1. CASE d = c
        BY <4>1, <2>3, <2>7, <2>9
      <4>2. CASE d # c
        <5>1. PICK s \in Stores : \E e \in files[s] : e.file = d
          BY <4>2, <3>4, <2>8, <2>10, <2>15 DEF EntriesConsistent
        <5>2. files[s] \subseteq files'[s]
          BY <2>9
        <5> QED BY <5>1, <5>2
      <4> QED BY <4>1, <4>2
    <3> QED BY <3>1, <3>2, <3>3, <3>4, <2>9 DEF EntriesConsistent, Ids, Entry
  <2> QED BY <2>11, <2>12, <2>16 DEF StorageInv
<1> QED BY <1>2, <1>3

\* storage_has_file finds the client's own entry, if any, and no other.
LEMMA FindsItsOwn ==
    ASSUME StorageInv, NEW c \in Clients, ~Leaving(c), NEW s \in Stores, NEW e \in files[s]
    PROVE  file[e.file] = file[c] <=> e.file = c
<1>1. EntriesConsistent
  BY DEF StorageInv
<1>2. e.id \in Ids /\ file[e.file] = e.id
  BY <1>1 DEF EntriesConsistent, Entry
<1>3. ASSUME file[e.file] = file[c] PROVE e.file = c
  <2>1. PICK t \in Stores : \E f \in files[t] : f.file = c
    BY <1>1, <1>2, <1>3 DEF EntriesConsistent
  <2>2. PICK f \in files[t] : f.file = c
    BY <2>1
  <2>3. f.id = e.id
    BY <1>1, <1>2, <1>3, <2>2 DEF EntriesConsistent
  <2> QED BY <1>1, <2>2, <2>3 DEF EntriesConsistent
<1> QED BY <1>3

LEMMA ServeClosePreserves ==
    ASSUME StorageInv, ServeClose
    PROVE  StorageInv'
<1> DEFINE c == msg.client
<1>1. Serve("close") /\ UNCHANGED <<file, disk, status, sd_was_present>>
      /\ files' = Closed(files, file[c])
  BY DEF ServeClose, sdVars
<1>2. /\ c \in Clients /\ RequestOK(msg) /\ msg.cmd = "close"
      /\ pc' = [pc EXCEPT ![c] = "replied"] /\ then' = then
      /\ \A i \in DOMAIN queue' : queue'[i].client \in Clients
  BY <1>1, HeadRequest
<1>3. then[c] # "keep" /\ pc[c] = "wait" /\ ~Leaving(c)
  BY <1>2 DEF RequestOK, Leaving
<1> HIDE DEF c
<1>4. StorageTypeOK /\ EntriesConsistent
  BY DEF StorageInv
<1>5. RequestsConsistent'
  BY <1>1, ServeRequests
<1>6. /\ DOMAIN files' = Stores
      /\ \A s \in Stores : files'[s] = {e \in files[s] : e.file # c}
  <2>1. \A s \in Stores : \A e \in files[s] : file[e.file] = file[c] <=> e.file = c
    BY <1>2, <1>3, FindsItsOwn
  <2> QED BY <1>1, <2>1 DEF Closed, Found
<1>7. files' \in [Stores -> SUBSET Entry]
  <2>1. files \in [Stores -> SUBSET Entry]
    BY <1>4 DEF EntriesConsistent
  <2>2. files' = [s \in Stores |-> files'[s]]
    BY <1>1 DEF Closed
  <2> QED BY <1>6, <2>1, <2>2
<1>8. \A s \in Stores : IsFiniteSet(files'[s])
  <2> TAKE s \in Stores
  <2>1. IsFiniteSet(files[s]) /\ files'[s] \in SUBSET files[s]
    BY <1>4, <1>6 DEF EntriesConsistent
  <2> QED BY <2>1, FS_Subset
<1>9. \A d \in Clients : Leaving(d)' <=> (d = c \/ Leaving(d))
  BY <1>2, <1>3, <1>4 DEF Leaving, StorageTypeOK
<1>10. EntriesConsistent'
  <2>1. \A s \in Stores : \A e \in files[s] : e.file \in Clients
    BY <1>4 DEF EntriesConsistent, Entry
  <2>2. ASSUME NEW s \in Stores, NEW e \in files'[s]
        PROVE  file'[e.file] = e.id /\ ~Leaving(e.file)'
    BY <2>1, <2>2, <1>1, <1>4, <1>6, <1>9 DEF EntriesConsistent
  <2>3. ASSUME NEW d \in Clients, file'[d] \in Ids, ~Leaving(d)'
        PROVE  \E s \in Stores : \E e \in files'[s] : e.file = d
    <3>1. d # c /\ ~Leaving(d)
      BY <1>9, <2>3
    <3>2. PICK s \in Stores : \E e \in files[s] : e.file = d
      BY <3>1, <2>3, <1>1, <1>4 DEF EntriesConsistent
    <3> QED BY <3>1, <3>2, <1>6
  <2>4. \A s, t \in Stores : \A e \in files'[s], f \in files'[t] : e.id = f.id => s = t /\ e = f
    BY <1>4, <1>6 DEF EntriesConsistent
  <2> QED BY <1>7, <1>8, <2>2, <2>3, <2>4 DEF EntriesConsistent, Ids, Entry
<1>11. StorageTypeOK'
  BY <1>1, <1>2, <1>4, <1>7 DEF StorageTypeOK, Serve, Stores
<1> QED BY <1>5, <1>10, <1>11 DEF StorageInv

(***************************************************************************)
(* The card.                                                               *)
(***************************************************************************)
LEMMA ServeCardPreserves ==
    ASSUME StorageInv, ServeUnmount \/ ServeFormat
    PROVE  StorageInv'
<1>1. \E cmd \in {"unmount", "format"} : Serve(cmd)
  BY DEF ServeUnmount, ServeFormat
<1>2. UNCHANGED <<file, sd_was_present>> /\ (files' = files \/ files' = Invalidated)
  BY DEF ServeUnmount, ServeFormat
<1>3. SameEntries
  BY <1>2, UnchangedEntries, InvalidatedEntries
<1>4. status' \in {"OK", "NotReady", "Error"}
  BY DiskType DEF ServeUnmount, ServeFormat
<1>5. disk' \in Disks
  BY DiskType DEF ServeUnmount, ServeFormat, Disks
<1> QED BY <1>1, <1>2, <1>3, <1>4, <1>5, ServePreserves

\* What the ticks and the user do: the clients and their Files are left alone.
LEMMA CardPreserves ==
    ASSUME StorageInv, UNCHANGED <<clientVars, disk>>, files' = files \/ files' = Invalidated,
           {status', published'} \subseteq {"OK", "NotReady", "Error"},
           {icon', sd_was_present', card'} \subseteq BOOLEAN,
           svc' \in {"idle", "mounting", "bounced"}
    PROVE  StorageInv'
<1>1. UNCHANGED <<pc, then, file, queue, disk>>
  BY DEF clientVars
<1>2. SameEntries
  BY UnchangedEntries, InvalidatedEntries
<1>3. StorageTypeOK'
  BY <1>1, <1>2 DEF StorageInv, StorageTypeOK, SameEntries, Stores
<1>4. RequestsConsistent'
  BY <1>1 DEF StorageInv, RequestsConsistent, RequestOK
<1>5. EntriesConsistent'
  <2>1. PICK c : c \notin Clients
    <3>1. {x \in Clients : x \notin x} \notin Clients
      OBVIOUS
    <3> QED BY <3>1
  <2>2. FileMoves(c)
    BY <2>1, <1>1 DEF FileMoves
  <2> QED BY <2>2, <1>2, EntriesKept
<1> QED BY <1>3, <1>4, <1>5 DEF StorageInv

LEMMA TickPreserves ==
    ASSUME StorageInv, Tick
    PROVE  StorageInv'
<1>1. /\ {status, published} \subseteq {"OK", "NotReady", "Error"}
      /\ {icon, sd_was_present, card} \subseteq BOOLEAN
      /\ svc = "idle"
  BY DEF StorageInv, StorageTypeOK, Tick
<1>2. UNCHANGED <<clientVars, disk, card>>
  BY DEF Tick
<1>3. CASE sd_was_present /\ card
  <2>1. svc' = "mounting" /\ UNCHANGED <<status, files, published, icon, sd_was_present>>
    BY <1>3 DEF Tick
  <2> QED BY <1>1, <1>2, <2>1, CardPreserves
<1>4. CASE ~sd_was_present /\ ~card
  <2>1. /\ sd_was_present' = TRUE /\ status' = "NotReady" /\ files' = Invalidated
        /\ published' = "NotReady" /\ icon' \in BOOLEAN /\ svc' = svc
    BY <1>4 DEF Tick, Publish
  <2> QED BY <1>1, <1>2, <2>1, CardPreserves
<1>5. CASE ~(sd_was_present /\ card) /\ ~(~sd_was_present /\ ~card)
  <2>1. /\ published' = status /\ icon' \in BOOLEAN
        /\ UNCHANGED <<status, files, sd_was_present, svc>>
    BY <1>5 DEF Tick, IdleTick, Publish
  <2> QED BY <1>1, <1>2, <2>1, CardPreserves
<1> QED BY <1>3, <1>4, <1>5

LEMMA MountedPreserves ==
    ASSUME StorageInv, Mounted
    PROVE  StorageInv'
<1>1. /\ {status, published} \subseteq {"OK", "NotReady", "Error"}
      /\ {icon, sd_was_present, card} \subseteq BOOLEAN
  BY DEF StorageInv, StorageTypeOK
<1>2. status' \in {"OK", "NotReady", "Error"}
  <2>1. PICK s \in {"OK", "Error"} \cup (IF svc = "bounced" THEN {status} ELSE {}) :
          status' = IF card THEN s ELSE "NotReady"
    BY DEF Mounted
  <2> QED BY <2>1, <1>1
<1>3. /\ published' = status' /\ icon' \in BOOLEAN /\ sd_was_present' \in BOOLEAN
      /\ svc' = "idle" /\ files' = Invalidated /\ UNCHANGED <<clientVars, disk, card>>
  BY DEF Mounted, Publish
<1> QED BY <1>1, <1>2, <1>3, CardPreserves

LEMMA CardMovesPreserves ==
    ASSUME StorageInv, CardMoves
    PROVE  StorageInv'
<1>1. /\ {status, published} \subseteq {"OK", "NotReady", "Error"}
      /\ {icon, sd_was_present, card} \subseteq BOOLEAN
      /\ svc \in {"idle", "mounting", "bounced"}
  BY DEF StorageInv, StorageTypeOK
<1>2. /\ UNCHANGED <<clientVars, files, disk, status, published, icon, sd_was_present>>
      /\ card' \in BOOLEAN /\ svc' \in {"idle", "mounting", "bounced"}
  BY <1>1 DEF CardMoves
<1> QED BY <1>1, <1>2, CardPreserves

(***************************************************************************)
(* The theorems.                                                           *)
(***************************************************************************)
LEMMA InitStorageInv ==
    ASSUME Init
    PROVE  StorageInv
<1>1. StorageTypeOK
  <2>1. /\ pc \in [Clients -> {"idle", "wait", "replied"}]
        /\ then \in [Clients -> {"keep", "close", "free"}]
        /\ file \in [Clients -> {FILE_FREED, FILE_CLOSED, FILE_OPENED} \cup Ids]
        /\ \A i \in DOMAIN queue : queue[i].client \in Clients
        /\ files["ext"] \subseteq Entry /\ files["int"] \subseteq Entry
    BY DEF Init, Stores
  <2>2. disk \in [Stores -> [Names -> {"none", "cut", "whole"}]]
    BY DEF Init
  <2>3. /\ {status, published} \subseteq {"OK", "NotReady", "Error"}
        /\ {icon, sd_was_present, card} \subseteq BOOLEAN
        /\ svc \in {"idle", "mounting", "bounced"}
    BY DEF Init
  <2> QED BY <2>1, <2>2, <2>3 DEF StorageTypeOK
<1>2. RequestsConsistent
  BY DEF Init, RequestsConsistent
<1>3. EntriesConsistent
  <2>1. files = [s \in Stores |-> {}] /\ file = [c \in Clients |-> FILE_FREED]
    BY DEF Init
  <2> QED BY <2>1, FS_EmptySet, IdsAreNoMarks DEF EntriesConsistent
<1> QED BY <1>1, <1>2, <1>3 DEF StorageInv

LEMMA NextStorageInv ==
    ASSUME Residue \subseteq {FILE_CLOSED}, StorageInv, [Next]_vars
    PROVE  StorageInv'
<1>1. ASSUME NEW c \in Clients, Client(c) PROVE StorageInv'
  BY <1>1, ClientPreserves
<1>2. ASSUME NEW c \in Clients, Resume(c) PROVE StorageInv'
  BY <1>2, ResumePreserves
<1>3. CASE ServeOpen("open") \/ ServeOpen("create")
  BY <1>3, ServeOpenPreserves
<1>4. CASE ServeWrite
  BY <1>4, ServeWritePreserves
<1>5. CASE ServeClose
  BY <1>5, ServeClosePreserves
<1>6. CASE ServeRemove
  BY <1>6, ServeRemovePreserves
<1>7. CASE ServeCopy
  BY <1>7, ServeCopyPreserves
<1>8. CASE ServeRename
  BY <1>8, ServeRenamePreserves
<1>9. CASE ServeUnmount \/ ServeFormat
  BY <1>9, ServeCardPreserves
<1>10. CASE Tick
  BY <1>10, TickPreserves
<1>11. CASE Mounted
  BY <1>11, MountedPreserves
<1>12. CASE CardMoves
  BY <1>12, CardMovesPreserves
<1>13. CASE UNCHANGED vars
  <2>1. UNCHANGED <<pc, then, file, queue, files, disk, status, published, icon, sd_was_present,
                    card, svc>>
    BY <1>13 DEF vars
  <2> QED BY <2>1 DEF StorageInv, StorageTypeOK, RequestsConsistent, RequestOK, EntriesConsistent,
                      Leaving
<1> QED BY <1>1, <1>2, <1>3, <1>4, <1>5, <1>6, <1>7, <1>8, <1>9, <1>10, <1>11, <1>12, <1>13
        DEF Next, Service

\* The inductive invariant: a request is in the queue once and fits its
\* client's File, each entry carries the file_id of its client's File, and a
\* client gives up its file_id only when its entry is gone.
THEOREM StorageInvariant ==
    ASSUME Residue \subseteq {FILE_CLOSED}
    PROVE  Spec => []StorageInv
<1>1. Init => StorageInv
  BY InitStorageInv
<1>2. StorageInv /\ [Next]_vars => StorageInv'
  BY NextStorageInv
<1> QED BY <1>1, <1>2, PTL DEF Spec

\* The lists of open files and the clients' Files agree, for any number of
\* clients and any requests, as long as the Files of
\* storage_process_common_copy (storage_processing.c:337) are zero.
THEOREM HandlesOwnEntries ==
    ASSUME Residue \subseteq {FILE_CLOSED}
    PROVE  Spec => []HandleOwnsEntry
<1>1. ASSUME StorageInv PROVE HandleOwnsEntry
  <2>1. EntriesConsistent /\ StorageTypeOK
    BY <1>1 DEF StorageInv
  <2>2. IsFiniteSet(files["ext"]) /\ IsFiniteSet(files["int"])
    BY <2>1 DEF EntriesConsistent, Stores
  <2>3. files["ext"] \cap files["int"] = {}
    BY <2>1 DEF EntriesConsistent, Stores
  <2>4. Cardinality(files["ext"] \cup files["int"])
          = Cardinality(files["ext"]) + Cardinality(files["int"])
    <3>1. Cardinality({}) = 0
      BY FS_EmptySet
    <3>2. Cardinality(files["ext"] \cup files["int"]) = Cardinality(files["ext"])
            + Cardinality(files["int"]) - Cardinality(files["ext"] \cap files["int"])
      BY <2>2, FS_Union
    <3>3. Cardinality(files["ext"]) \in Nat /\ Cardinality(files["int"]) \in Nat
      BY <2>2, FS_CardinalityType
    <3>4. Cardinality(files["ext"] \cap files["int"]) = 0
      BY <2>3, <3>1, Zenon
    <3>5. \A a, b \in Nat : a + b - 0 = a + b
      OBVIOUS
    <3> QED BY <3>2, <3>3, <3>4, <3>5
  <2>5. \A e \in files["ext"] \cup files["int"] : file[e.file] = e.id
    BY <2>1 DEF EntriesConsistent, Stores
  <2>6. \A e, f \in files["ext"] \cup files["int"] : e.id = f.id => e = f
    BY <2>1 DEF EntriesConsistent, Stores
  <2>7. \A c \in Clients : file[c] \in Ids /\ ~(pc[c] = "replied" /\ then[c] # "keep")
          => \E e \in files["ext"] \cup files["int"] : e.file = c
    BY <2>1 DEF EntriesConsistent, Stores, Leaving
  <2> QED BY <2>1, <2>4, <2>5, <2>6, <2>7 DEF HandleOwnsEntry
<1> QED BY <1>1, StorageInvariant, PTL

(***************************************************************************)
(* A rename keeps the content.                                             *)
(***************************************************************************)

\* Whatever is found in a file system is there.
LEMMA ContentIsThere ==
    ASSUME NEW d \in Disks, NEW p, p.st \in {"ext", "int", "any"}, p.name \in Names
    PROVE  /\ Content(d, p) # "none" => d[Resolve(p)][p.name] = Content(d, p)
           /\ Usable(Resolve(p)) => d[Resolve(p)][p.name] = Content(d, p)
BY DEF Content

\* A copy that ends with FSE_OK has the whole file under its new name when no
\* card is in trouble; one that fails has not touched the original.
LEMMA CopyKeeps ==
    ASSUME StorageInv, Residue \subseteq {FILE_CLOSED}, ~CardTrouble, NEW old, NEW new,
           old.st \in {"ext", "int", "any"}, old.name \in Names,
           new.st \in {"ext", "int", "any"}, new.name \in Names,
           Content(disk, old) = "whole", NEW r \in Copies(old, new)
    PROVE  /\ r.ok => /\ r.disk[Resolve(new)][new.name] = "whole"
                      /\ Resolve(old) # Resolve(new) \/ old.name # new.name
           /\ ~r.ok => r.disk[Resolve(old)][old.name] = "whole"
<1> DEFINE fail == [ok |-> FALSE, files |-> files, disk |-> disk]
<1>1. disk \in Disks /\ disk[Resolve(old)][old.name] = "whole"
  BY DiskType, ContentIsThere
<1>2. Closed(files, FILE_CLOSED) = files
  BY ClosingNothing
<1>3. CopiedAs("whole", new) = {"whole"}
  BY DEF CopiedAs
<1>4. CASE r = fail
  BY <1>1, <1>4
<1>5. ASSUME NEW g \in Residue, r = [fail EXCEPT !.files = Closed(files, g)]
      PROVE  r = fail
  BY <1>2, <1>5
<1>6. CASE /\ Usable(Resolve(new)) /\ Content(disk, new) = "none"
           /\ \/ r = [ok |-> TRUE, files |-> files, disk |-> Put(disk, new, "whole")]
              \/ r = [fail EXCEPT !.disk = Put(disk, new, "cut")]
  <2>1. Resolve(old) # Resolve(new) \/ old.name # new.name
    BY <1>1, <1>6, ContentIsThere
  <2>2. Resolve(old) \in Stores /\ Resolve(new) \in Stores
    BY ResolveType
  <2>3. CASE r = [ok |-> TRUE, files |-> files, disk |-> Put(disk, new, "whole")]
    <3>1. Put(disk, new, "whole")[Resolve(new)][new.name] = "whole"
      BY <1>1, PutHere
    <3> QED BY <2>1, <2>3, <3>1
  <2>4. CASE r = [fail EXCEPT !.disk = Put(disk, new, "cut")]
    <3>1. Put(disk, new, "cut")[Resolve(old)][old.name] = disk[Resolve(old)][old.name]
      BY <1>1, <2>1, <2>2, PutElsewhere
    <3> QED BY <1>1, <2>4, <3>1
  <2> QED BY <1>6, <2>3, <2>4
<1>7. \/ r = fail
      \/ \E g \in Residue : r = [fail EXCEPT !.files = Closed(files, g)]
      \/ /\ Usable(Resolve(new)) /\ Content(disk, new) = "none"
         /\ \/ r = [ok |-> TRUE, files |-> files, disk |-> Put(disk, new, "whole")]
            \/ r = [fail EXCEPT !.disk = Put(disk, new, "cut")]
  BY <1>3 DEF Copies
<1> QED BY <1>4, <1>5, <1>6, <1>7

\* storage_process_common_rename.
LEMMA RenameKeeps ==
    ASSUME StorageInv, Residue \subseteq {FILE_CLOSED}, ~CardTrouble, ServeRename,
           Content(disk, msg.old) = "whole"
    PROVE  "whole" \in {disk'[Resolve(p)][p.name] : p \in {msg.old, msg.new}}
<1> DEFINE old == msg.old
           new == msg.new
<1>1. /\ old.st \in {"ext", "int", "any"} /\ old.name \in Names
      /\ new.st \in {"ext", "int", "any"} /\ new.name \in Names
  BY MovePaths DEF ServeRename
<1> HIDE DEF old, new
<1>2. SUFFICES \/ disk'[Resolve(old)][old.name] = "whole"
               \/ disk'[Resolve(new)][new.name] = "whole"
  BY DEF old, new
<1>3. disk \in Disks /\ disk[Resolve(old)][old.name] = "whole" /\ Content(disk, old) = "whole"
  BY <1>1, DiskType, ContentIsThere DEF old
<1>4. Resolve(old) \in Stores /\ Resolve(new) \in Stores
  BY <1>1, ResolveType
<1>5. CASE old.st = new.st
  <2>1. disk' = Moved(old, new)
    BY <1>5 DEF ServeRename, old, new
  <2>2. CASE disk' = disk
    BY <2>2, <1>3
  <2>3. CASE disk' = Put(Put(disk, old, "none"), new, "whole")
    <3>1. Put(disk, old, "none") \in Disks
      BY <1>1, <1>3, PutType
    <3> QED BY <2>3, <3>1, <1>1, PutHere
  <2> QED BY <2>1, <2>2, <2>3, <1>3 DEF Moved
<1>6. CASE old.st # new.st
  <2>1. PICK r \in Copies(old, new) : disk' = (IF r.ok THEN Removed(r, old) ELSE r).disk
    BY <1>6 DEF ServeRename, old, new
  <2>2. /\ r = [ok |-> r.ok, files |-> files, disk |-> r.disk]
        /\ r.ok \in BOOLEAN /\ r.disk \in Disks
    BY <1>1, CopiesType
  <2>3. /\ r.ok => /\ r.disk[Resolve(new)][new.name] = "whole"
                   /\ Resolve(old) # Resolve(new) \/ old.name # new.name
        /\ ~r.ok => r.disk[Resolve(old)][old.name] = "whole"
    BY <1>1, <1>3, CopyKeeps
  <2>4. CASE ~r.ok
    BY <2>1, <2>3, <2>4
  <2>5. CASE r.ok
    <3>1. Put(r.disk, old, "none")[Resolve(new)][new.name] = r.disk[Resolve(new)][new.name]
      BY <1>1, <1>4, <2>2, <2>3, <2>5, PutElsewhere
    <3>2. Removed(r, old).disk = r.disk \/ Removed(r, old).disk = Put(r.disk, old, "none")
      BY <2>2 DEF Removed
    <3> QED BY <2>1, <2>3, <2>5, <3>1, <3>2
  <2> QED BY <2>4, <2>5
<1> QED BY <1>5, <1>6

\* A step that takes the head of the queue serves it.
LEMMA OnlyServingTakes ==
    ASSUME StorageInv, Next, queue # <<>>, queue' = Tail(queue), msg.cmd = "rename"
    PROVE  ServeRename
<1>1. queue \in Seq(Requests) /\ Len(queue) \in Nat \ {0} /\ Len(queue') = Len(queue) - 1
  BY DEF StorageInv, RequestsConsistent
<1>2. ASSUME queue' = queue PROVE FALSE
  BY <1>1, <1>2
<1>3. ASSUME NEW c \in Clients, NEW cmd, NEW old, NEW new, NEW x, Post(c, Request(cmd, old, new), x)
      PROVE  FALSE
  <2>1. PICK m : queue' = Append(queue, m)
    BY <1>3 DEF Post
  <2>2. queue \in Seq(Requests \cup {m})
    BY <1>1
  <2>3. Len(queue') = Len(queue) + 1
    BY <2>1, <2>2
  <2> QED BY <1>1, <2>3
<1>4. ASSUME NEW c \in Clients, Client(c) \/ Resume(c) PROVE FALSE
  BY <1>2, <1>3, <1>4 DEF Client, Resume, FileWrite, FileClose, FileFree, FileOpen, CommonCall
<1>5. ASSUME Tick \/ Mounted \/ CardMoves PROVE FALSE
  BY <1>2, <1>5 DEF Tick, Mounted, CardMoves, clientVars
<1> QED
  BY <1>4, <1>5 DEF Next, Service, ServeOpen, ServeWrite, ServeClose, ServeRemove, ServeCopy,
                    ServeUnmount, ServeFormat, Serve, msg

\* storage_common_rename loses no file, over all ways it may end, when a copy
\* meets no trouble with the card (storage_processing.c:362 looks at the
\* result of the write, not at its length).
THEOREM RenameLosesNothing ==
    ASSUME Residue \subseteq {FILE_CLOSED}, ~CardTrouble
    PROVE  Spec => RenameKeepsContent
<1> DEFINE Keeps ==
      /\ queue # <<>> /\ queue' = Tail(queue) /\ msg.cmd = "rename"
      /\ Content(disk, msg.old) = "whole"
      => "whole" \in {disk'[Resolve(p)][p.name] : p \in {msg.old, msg.new}}
<1>1. StorageInv /\ [Next]_vars => [Keeps]_vars
  <2> SUFFICES ASSUME StorageInv, Next PROVE Keeps
    OBVIOUS
  <2> QED BY OnlyServingTakes, RenameKeeps
<1> QED BY <1>1, StorageInvariant, PTL DEF Spec, RenameKeepsContent

============================================================================
