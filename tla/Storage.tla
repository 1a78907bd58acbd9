------------------------------ MODULE Storage ------------------------------
(***************************************************************************)
(* The storage service: clients post requests to its queue and wait for    *)
(* the semaphore of each; one thread serves them and, when no request came *)
(* for STORAGE_TICK, looks at the SD card.  A client owns one File object, *)
(* whose file_id the client and the service both write; the service finds  *)
(* an open file by the file_id it reads from the client's File.            *)
(*                                                                         *)
(* A file's content is "none", "cut" (a part of what it should be) or      *)
(* "whole".  All error states of the card are one, "Error"; the two file   *)
(* systems are external and modelled by what their calls return.           *)
(***************************************************************************)
EXTENDS Integers, Sequences, FiniteSets

CONSTANTS Clients,
          Paths,       \* the paths clients open and remove: [st |-> "ext", "int" or "any", name |-> ...]
          Residue,     \* values an uninitialised File on the stack may have as file_id
          Moves,       \* the pairs of paths they rename and copy
          CardTrouble, \* whether a card may fill up or be pulled out while a file is copied to it
          MaxPosts,    \* bound: requests that are posted
          MaxCardMoves \* bound: times the card is put in or pulled out

FILE_FREED  == -1      \* no File is allocated
FILE_CLOSED == 0
FILE_OPENED == 1
Ids         == 2 .. (Cardinality(Clients) + 1)
Names       == {p.name : p \in Paths}
Stores      == {"ext", "int"}

ASSUME StorageAssumption ==
    /\ IsFiniteSet(Clients)
    /\ Paths \subseteq [st : {"ext", "int", "any"}, name : Names]
    /\ Residue \subseteq Ids \cup {FILE_CLOSED}
    /\ \A mv \in Moves : {mv[1], mv[2]} \subseteq [st : {"ext", "int", "any"}, name : Names]
    /\ CardTrouble \in BOOLEAN
    /\ MaxPosts \in Nat /\ MaxCardMoves \in Nat

VARIABLES pc,             \* what each client does: "idle", "wait", "replied"
          then,           \* what it does with its File after the answer
          file,           \* file_id of each client's File
          queue,          \* message_queue
          files,          \* the open files of each storage
          disk,           \* the content of each file
          status,         \* status of the card's StorageData
          published,      \* prev_ext_storage_status, as the subscribers know it
          icon,           \* sd_gui.enabled
          sd_was_present, \* the card is waited for (the code's name)
          card,           \* hal_sd_detect()
          svc,            \* the service's thread: "idle", "mounting", "bounced"
          posts, cardMoves \* requests and moves so far

vars == <<pc, then, file, queue, files, disk, status, published, icon,
          sd_was_present, card, svc, posts, cardMoves>>
clientVars == <<pc, then, file, queue, posts>>
cardVars   == <<status, published, icon, sd_was_present, card, svc, cardMoves>>

(***************************************************************************)
(* Clients.                                                                *)
(***************************************************************************)
\* S_API_EPILOGUE: the request is queued and its semaphore waited for.
Post(c, request, afterwards) ==
    /\ posts < MaxPosts
    /\ posts' = posts + 1
    /\ queue' = Append(queue, [request EXCEPT !.client = c])
    /\ pc' = [pc EXCEPT ![c] = "wait"]
    /\ then' = [then EXCEPT ![c] = afterwards]
    /\ UNCHANGED <<files, disk, cardVars>>

Request(cmd, old, new) == [client |-> CHOOSE c \in Clients : TRUE,
                           cmd |-> cmd, old |-> old, new |-> new]
AnyPath == CHOOSE p \in Paths : TRUE

\* storage_file_open, after storage_file_alloc where there is no File:
\* file_id is set before the request is posted.
FileOpen(c, mode, p) ==
    /\ pc[c] = "idle"
    /\ file[c] \in {FILE_FREED, FILE_CLOSED}
    /\ file' = [file EXCEPT ![c] = FILE_OPENED]
    /\ Post(c, Request(mode, p, p), "keep")

FileWrite(c) ==
    /\ pc[c] = "idle"
    /\ file[c] > FILE_CLOSED
    /\ Post(c, Request("write", AnyPath, AnyPath), "keep")
    /\ UNCHANGED file

FileClose(c) ==
    /\ pc[c] = "idle"
    /\ file[c] > FILE_CLOSED
    /\ Post(c, Request("close", AnyPath, AnyPath), "close")
    /\ UNCHANGED file

\* storage_file_free: an open file is closed first.
FileFree(c) ==
    /\ pc[c] = "idle"
    /\ \/ /\ file[c] > FILE_CLOSED
          /\ Post(c, Request("close", AnyPath, AnyPath), "free")
          /\ UNCHANGED file
       \/ /\ file[c] = FILE_CLOSED
          /\ file' = [file EXCEPT ![c] = FILE_FREED]
          /\ UNCHANGED <<pc, then, queue, posts, files, disk, cardVars>>

\* storage_common_remove, _rename, _copy, storage_sd_unmount and _format.
CommonCall(c, cmd, old, new) ==
    /\ pc[c] = "idle"
    /\ Post(c, Request(cmd, old, new), "keep")
    /\ UNCHANGED file

\* The semaphore was released: the client runs on and, after a close,
\* resets its file_id or frees the File.
Resume(c) ==
    /\ pc[c] = "replied"
    /\ pc' = [pc EXCEPT ![c] = "idle"]
    /\ file' = [file EXCEPT ![c] = CASE then[c] = "close" -> FILE_CLOSED
                                     [] then[c] = "free"  -> FILE_FREED
                                     [] OTHER             -> @]
    /\ then' = [then EXCEPT ![c] = "keep"]
    /\ UNCHANGED <<queue, posts, files, disk, cardVars>>

(***************************************************************************)
(* What the service looks up.                                              *)
(***************************************************************************)
\* storage_get_storage_by_type: "/any" is the card when it is mounted.
Resolve(p) == IF p.st # "any" THEN p.st
              ELSE IF status = "OK" THEN "ext" ELSE "int"

\* storage_path_already_open: paths are compared as they were given.
AlreadyOpen(fs, p) == \E e \in fs[Resolve(p)] : e.path = p

\* storage_has_file: entries whose File has this file_id now.
Found(fs, id) == [s \in Stores |-> {e \in fs[s] : file[e.file] = id}]

\* storage_process_file_close with this file_id, the entry it finds removed.
Closed(fs, id) == [s \in Stores |-> fs[s] \ Found(fs, id)[s]]

\* The file systems (external): the card's answers only while it is mounted.
Usable(s) == s = "int" \/ (status = "OK" /\ card)
Content(d, p) == IF Usable(Resolve(p)) THEN d[Resolve(p)][p.name] ELSE "none"
Put(d, p, x) == [d EXCEPT ![Resolve(p)][p.name] = x]

\* The address of a new list node: freed ones are used again.
FreeIds == {i \in Ids : \A s \in Stores : \A e \in files[s] : e.id # i}
FreshId == CHOOSE i \in FreeIds : TRUE

(***************************************************************************)
(* storage_process_message: a request is served to its end and answered.   *)
(***************************************************************************)
Serve(cmd) ==
    /\ svc = "idle"
    /\ queue # <<>>
    /\ Head(queue).cmd = cmd
    /\ queue' = Tail(queue)
    /\ pc' = [pc EXCEPT ![Head(queue).client] = "replied"]
    /\ UNCHANGED <<then, posts, published, icon, card, svc, cardMoves>>

sdVars == <<status, sd_was_present>>
msg == Head(queue)

\* storage_process_file_open: the entry is pushed before the file system is
\* asked, and stays when that fails.
ServeOpen(mode) ==
    /\ Serve(mode)
    /\ IF AlreadyOpen(files, msg.old)
       THEN UNCHANGED <<file, files, disk>>
       ELSE LET s  == Resolve(msg.old)
                ok == Usable(s) /\ (mode = "create" \/ Content(disk, msg.old) # "none")
            IN  /\ file' = [file EXCEPT ![msg.client] = FreshId]
                /\ files' = [files EXCEPT ![s] = @ \cup
                     {[id |-> FreshId, file |-> msg.client, path |-> msg.old, valid |-> ok]}]
                /\ disk' = IF ok /\ mode = "create" THEN Put(disk, msg.old, "cut") ELSE disk
    /\ UNCHANGED sdVars

\* storage_process_file_write and f_write, lfs_file_write.
ServeWrite ==
    /\ Serve("write")
    /\ disk' = [s \in Stores |-> [n \in Names |->
         IF /\ Usable(s) /\ disk[s][n] # "none"
            /\ \E e \in Found(files, file[msg.client])[s] : e.valid /\ e.path.name = n
         THEN "whole" ELSE disk[s][n]]]
    /\ UNCHANGED <<file, files, sdVars>>

\* Mutant: an entry stays when the file system fails to close it.
CloseKeepsFailed ==
    /\ Serve("close")
    /\ files' = [s \in Stores |-> files[s] \ {e \in Found(files, file[msg.client])[s] : e.valid}]
    /\ UNCHANGED <<file, disk, sdVars>>

\* storage_process_file_close: the entry goes, closed without error or not.
ServeClose ==
    /\ Serve("close")
    /\ files' = Closed(files, file[msg.client])
    /\ UNCHANGED <<file, disk, sdVars>>

\* storage_process_common_remove, its result and what is left.
Removed(r, p) ==
    IF AlreadyOpen(r.files, p) \/ Content(r.disk, p) = "none"
    THEN [r EXCEPT !.ok = FALSE]
    ELSE [r EXCEPT !.disk = Put(r.disk, p, "none")]

ServeRemove ==
    /\ Serve("remove")
    /\ disk' = Removed([ok |-> TRUE, files |-> files, disk |-> disk], msg.old).disk
    /\ UNCHANGED <<file, files, sdVars>>

\* What may be in the new file when the copy ends with FSE_OK: f_write
\* returns FR_OK with fewer bytes when the card is full, the failure of
\* f_close is not looked at.
CopiedAs(x, new) ==
    {x} \cup (IF CardTrouble /\ Resolve(new) = "ext" THEN {"cut"} ELSE {})

\* storage_process_common_copy: a File whose open was refused is closed
\* with the file_id it had before, which nothing has set.
Copies(old, new) ==
    LET x    == Content(disk, old)
        fail == [ok |-> FALSE, files |-> files, disk |-> disk]
    IN  IF x = "none" THEN {fail}
        ELSE IF AlreadyOpen(files, old) \/ AlreadyOpen(files, new) \/ old = new
        THEN {[fail EXCEPT !.files = Closed(files, g)] : g \in Residue}
        ELSE IF ~Usable(Resolve(new)) \/ Content(disk, new) # "none" THEN {fail}
        ELSE {[ok |-> TRUE, files |-> files, disk |-> Put(disk, new, y)] : y \in CopiedAs(x, new)}
             \cup {[fail EXCEPT !.disk = Put(disk, new, "cut")]}

ServeCopy ==
    /\ Serve("copy")
    /\ \E r \in Copies(msg.old, msg.new) : files' = r.files /\ disk' = r.disk
    /\ UNCHANGED <<file, sdVars>>

\* f_rename refuses a name that exists, lfs_rename replaces it; neither the
\* service nor the file systems ask whether the file is open.
Moved(old, new) ==
    LET x == Content(disk, old)
    IN  IF x = "none" \/ (Resolve(old) = "ext" /\ Content(disk, new) # "none") THEN disk
        ELSE Put(Put(disk, old, "none"), new, x)

\* Mutant: the original is removed whatever the copy returned.
RenameIgnoresCopy ==
    /\ Serve("rename")
    /\ IF msg.old.st # msg.new.st
       THEN \E r \in Copies(msg.old, msg.new) :
              files' = r.files /\ disk' = Removed(r, msg.old).disk
       ELSE disk' = Moved(msg.old, msg.new) /\ UNCHANGED files
    /\ UNCHANGED <<file, sdVars>>

\* storage_process_common_rename.
ServeRename ==
    /\ Serve("rename")
    /\ IF msg.old.st # msg.new.st
       THEN \E r \in Copies(msg.old, msg.new) :
              LET q == IF r.ok THEN Removed(r, msg.old) ELSE r
              IN  files' = q.files /\ disk' = q.disk
       ELSE disk' = Moved(msg.old, msg.new) /\ UNCHANGED files
    /\ UNCHANGED <<file, sdVars>>

\* f_mount makes every open SDFile invalid; the entries stay.
Invalidated == [files EXCEPT !["ext"] = {[e EXCEPT !.valid = FALSE] : e \in @}]

\* sd_unmount_card.
ServeUnmount ==
    /\ Serve("unmount")
    /\ IF status = "NotReady" THEN UNCHANGED <<status, files>>
       ELSE status' = "NotReady" /\ files' = Invalidated
    /\ UNCHANGED <<file, disk, sd_was_present>>

\* sd_format_card: fails at any of its steps, or ends with an empty card.
ServeFormat ==
    /\ Serve("format")
    /\ \/ status = "NotReady" /\ UNCHANGED <<status, files, disk>>
       \/ /\ status # "NotReady"
          /\ files' = Invalidated
          /\ \/ status' = "Error" /\ UNCHANGED disk
             \/ /\ card
                /\ status' \in {"OK", "Error"}
                /\ disk' = [disk EXCEPT !["ext"] = [n \in Names |-> "none"]]
    /\ UNCHANGED <<file, sd_was_present>>

(***************************************************************************)
(* storage_tick.                                                           *)
(***************************************************************************)
\* The end of storage_tick: the subscribers and the icon learn the status.
Publish(s) == published' = s /\ icon' = (s # "NotReady")

\* Mutant: only a card that is put in or pulled out is told.
QuietTick == UNCHANGED <<published, icon>>

\* A tick that finds the card as it was.
IdleTick == Publish(status)

\* storage_ext_tick_internal up to sd_mount_card, which takes seconds.
Tick ==
    /\ svc = "idle"
    /\ queue = <<>>
    /\ CASE sd_was_present /\ card ->
              svc' = "mounting" /\ UNCHANGED <<status, files, published, icon, sd_was_present>>
         [] ~sd_was_present /\ ~card ->
              /\ sd_was_present' = TRUE
              /\ status' = "NotReady"
              /\ files' = Invalidated
              /\ Publish("NotReady")
              /\ UNCHANGED svc
         [] OTHER ->
              IdleTick /\ UNCHANGED <<status, files, sd_was_present, svc>>
    /\ UNCHANGED <<clientVars, disk, card, cardMoves>>

\* Up to 10 attempts while a card is there; then the card may be gone.  A
\* card that is away just when the attempts would begin leaves the status.
Mounted ==
    /\ svc # "idle"
    /\ svc' = "idle"
    /\ sd_was_present' = ~card
    /\ \E s \in {"OK", "Error"} \cup (IF svc = "bounced" THEN {status} ELSE {}) :
         status' = IF card THEN s ELSE "NotReady"
    /\ files' = Invalidated
    /\ Publish(status')
    /\ UNCHANGED <<clientVars, disk, card, cardMoves>>

\* The user (external).
CardMoves ==
    /\ cardMoves < MaxCardMoves
    /\ cardMoves' = cardMoves + 1
    /\ card' = ~card
    /\ svc' = IF svc = "mounting" THEN "bounced" ELSE svc
    /\ UNCHANGED <<clientVars, files, disk, status, published, icon, sd_was_present>>

(***************************************************************************)
(* The specification.                                                      *)
(***************************************************************************)
\* storage_app_alloc, with the tick of storage_ext_init.
Init ==
    /\ pc = [c \in Clients |-> "idle"]
    /\ then = [c \in Clients |-> "keep"]
    /\ file = [c \in Clients |-> FILE_FREED]
    /\ queue = <<>>
    /\ posts = 0 /\ cardMoves = 0
    /\ files = [s \in Stores |-> {}]
    /\ disk \in [Stores -> [Names -> {"none", "whole"}]]
    /\ card \in BOOLEAN
    /\ sd_was_present = ~card
    /\ status \in IF card THEN {"OK", "Error"} ELSE {"NotReady"}
    /\ published = "OK"  \* 0, from malloc
    /\ icon = FALSE
    /\ svc = "idle"

Client(c) ==
    \/ FileWrite(c) \/ FileClose(c) \/ FileFree(c)
    \/ \E p \in Paths : FileOpen(c, "open", p)
    \/ \E p \in Paths : FileOpen(c, "create", p)
    \/ \E p \in Paths : CommonCall(c, "remove", p, p)
    \/ \E cmd \in {"rename", "copy"}, mv \in Moves : CommonCall(c, cmd, mv[1], mv[2])
    \/ \E cmd \in {"unmount", "format"} : CommonCall(c, cmd, AnyPath, AnyPath)

Service ==
    \/ ServeOpen("open") \/ ServeOpen("create") \/ ServeWrite \/ ServeClose
    \/ ServeRemove \/ ServeCopy \/ ServeRename \/ ServeUnmount \/ ServeFormat
    \/ Tick \/ Mounted

Next ==
    \/ \E c \in Clients : Client(c)
    \/ \E c \in Clients : Resume(c)
    \/ Service
    \/ CardMoves

\* The service's thread and a released client run; requests and the card
\* come as they like.
Spec == Init /\ [][Next]_vars /\ WF_vars(Service) /\ \A c \in Clients : WF_vars(Resume(c))

(***************************************************************************)
(* Properties.                                                             *)
(***************************************************************************)
Entry == [id : Ids, file : Clients, path : Paths, valid : BOOLEAN]

\* Types.
StorageTypeOK ==
    /\ pc \in [Clients -> {"idle", "wait", "replied"}]
    /\ then \in [Clients -> {"keep", "close", "free"}]
    /\ file \in [Clients -> {FILE_FREED, FILE_CLOSED, FILE_OPENED} \cup Ids]
    /\ \A i \in DOMAIN queue : queue[i].client \in Clients
    /\ files["ext"] \subseteq Entry /\ files["int"] \subseteq Entry
    /\ disk \in [Stores -> [Names -> {"none", "cut", "whole"}]]
    /\ {status, published} \subseteq {"OK", "NotReady", "Error"}
    /\ {icon, sd_was_present, card} \subseteq BOOLEAN
    /\ svc \in {"idle", "mounting", "bounced"}

\* The lists of open files and the clients' Files agree (storage_glue.c, the
\* lookups): each entry points to an allocated File that carries the entry's
\* own file_id, no two entries have the same, and a client that holds a
\* file_id, and is not in the middle of closing it, has its entry.  Else a
\* lookup reads freed memory, or finds the file of somebody else.
HandleOwnsEntry ==
    LET all == files["ext"] \cup files["int"] IN
    /\ StorageTypeOK
    /\ Cardinality(all) = Cardinality(files["ext"]) + Cardinality(files["int"])
    /\ \A e \in all : file[e.file] = e.id
    /\ \A e, f \in all : e.id = f.id => e = f
    /\ \A c \in Clients :
         file[c] \in Ids /\ ~(pc[c] = "replied" /\ then[c] # "keep") => \E e \in all : e.file = c

\* The invariant behind it.  A client waits for one request at a time, which
\* was posted by one of the functions above.
Cmds == {"open", "create", "write", "close", "remove", "rename", "copy", "unmount", "format"}
Given == Paths \cup {AnyPath} \cup UNION {{mv[1], mv[2]} : mv \in Moves}
Requests == [client : Clients, cmd : Cmds, old : Given, new : Given]

RequestOK(m) ==
    /\ pc[m.client] = "wait"
    /\ m.cmd \in {"open", "create"} => file[m.client] = FILE_OPENED
    /\ m.cmd = "close" <=> then[m.client] # "keep"
    /\ m.cmd \in {"open", "create", "remove"} => m.old \in Paths
    /\ m.cmd \in {"rename", "copy"} => \E mv \in Moves : m.old = mv[1] /\ m.new = mv[2]

RequestsConsistent ==
    /\ queue \in Seq(Requests)
    /\ \A i \in 1 .. Len(queue) : RequestOK(queue[i])
    /\ \A i, j \in 1 .. Len(queue) : queue[i].client = queue[j].client => i = j

\* The entry of a client is gone before the client gives up its file_id.
Leaving(c) == pc[c] = "replied" /\ then[c] # "keep"

EntriesConsistent ==
    /\ files \in [Stores -> SUBSET Entry]
    /\ \A s \in Stores : IsFiniteSet(files[s])
    /\ \A s, t \in Stores : \A e \in files[s], f \in files[t] : e.id = f.id => s = t /\ e = f
    /\ \A s \in Stores : \A e \in files[s] : file[e.file] = e.id /\ ~Leaving(e.file)
    /\ \A c \in Clients :
         file[c] \in Ids /\ ~Leaving(c) => \E s \in Stores : \E e \in files[s] : e.file = c

StorageInv == StorageTypeOK /\ RequestsConsistent /\ EntriesConsistent

\* storage_common_rename, over all ways it may end, never loses a file: a
\* whole file is afterwards whole under its old or under its new name.
RenameKeepsContent ==
    [][ /\ queue # <<>> /\ queue' = Tail(queue) /\ msg.cmd = "rename"
        /\ Content(disk, msg.old) = "whole"
        => "whole" \in {disk'[Resolve(p)][p.name] : p \in {msg.old, msg.new}} ]_vars

\* When requests cease and the card stays as it is, in or out, the service
\* ends in the state that fits (storage_ext_tick_internal), and subscribers
\* and icon know it, whatever the card did while it was being mounted.
CardNoticed ==
    /\ <>[](queue = <<>> /\ ~card)
         => <>[](sd_was_present /\ status = "NotReady" /\ published = status /\ ~icon)
    /\ <>[](queue = <<>> /\ card)
         => <>[](~sd_was_present /\ published = status /\ icon = (status # "NotReady"))

============================================================================
