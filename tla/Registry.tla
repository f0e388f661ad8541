------------------------------ MODULE Registry ------------------------------
(***************************************************************************)
(* The rooms of a server and the directory they are kept in: create_room   *)
(* and restore_from_store of room.rs over the FileStore of store.rs, with  *)
(* processes that are killed and started again.                            *)
(*                                                                         *)
(* A request is a POST /rooms in progress, which can be dropped where it   *)
(* awaits a lock; Boot is main() restoring what the directory holds.       *)
(* Between two steps of a task any other may run: the check of the         *)
(* capacity, every system call of atomic_write and the insertion are steps *)
(* of their own.  A definition is a number, and its text so many blocks of *)
(* that number: what matters of a text is whether it is whole.  A name in  *)
(* a directory stands for a file (an inode), which a task may hold open    *)
(* while the name moves.  state.json is written the same way, and          *)
(* restore_from_store does not look at what it says, only fails when it    *)
(* cannot be read: it is left out, as are update_state, append_events and  *)
(* delete_room, which nothing in the server calls.                         *)
(***************************************************************************)
EXTENDS Integers, FiniteSets, Sequences

CONSTANTS
  Ids,           (* room names that pass validate_room_id                  *)
  Requests,      (* the requests that can be in progress at once           *)
  Boot,          (* the task that restores the rooms                       *)
  Definitions,   (* the definitions, each as the length of its text        *)
  Files,         (* the files the file system has room for                 *)
  NoFile,        (* no file of that name                                   *)
  NoRoom,        (* no request                                             *)
  MaxRooms,      (* MAX_ROOMS                                              *)
  MaxAsked,      (* a bound on the requests of a behaviour                 *)
  MaxCrashes     (* a bound on the crashes of a behaviour                  *)

ASSUME RegistryAssumption ==
  /\ Boot \notin Requests /\ NoFile \notin Files /\ NoRoom \notin Ids
  /\ Definitions \subseteq Nat \ {0}
  /\ Requests # {} /\ IsFiniteSet(Requests) /\ IsFiniteSet(Ids)
  /\ MaxRooms \in Nat \ {0} /\ MaxAsked \in Nat /\ MaxCrashes \in Nat

Tasks == Requests \union {Boot}
NoDefinition == 0
Names == {"definition.json", ".definition.json.tmp"}
Target == "definition.json"
Temporary == ".definition.json.tmp"

VARIABLES
  persistent,  (* the FileStore could be opened, else a MemoryStore        *)
  mode,        (* "restoring" or "serving"                                 *)
  todo,        (* what list_rooms gave and Boot has not looked at yet      *)
  rooms,       (* RoomRegistry.rooms: the definition of the room listed    *)
  names,       (* the directory of a room: which file has the name         *)
  text,        (* the contents of a file                                   *)
  pc,          (* how far a task is in create_room                         *)
  id,          (* the room it creates                                      *)
  def,         (* from which definition                                    *)
  fd,          (* the file it has open                                     *)
  disturbed,   (* history: rooms whose saves overlapped or failed          *)
  abandoned,   (* history: rooms that a request gave up between saving and *)
               (* inserting, and that no insertion or start has made since *)
  unread,      (* history: what the last start did not find or could not   *)
               (* read of the directory                                    *)
  asked, crashes

disk == <<names, text>>
task == <<pc, id, def, fd>>
history == <<disturbed, abandoned, unread>>
counts == <<asked, crashes>>
vars == <<persistent, mode, todo, rooms, disk, task, history, counts>>

TextOf(d) == [k \in 1..d |-> d]
Whole(t) == \E d \in Definitions : t = TextOf(d)

(* The directories with a definition, and what it says.                    *)
Stored == {r \in Ids : names[r][Target] # NoFile}
OnDisk(r) == text[names[r][Target]]
Listed == {r \in Ids : rooms[r] # NoDefinition}

(* Requests past the check of the capacity, with their room.               *)
Creating(r) == {t \in Tasks : pc[t] \notin {"idle", "check"} /\ id[t] = r}

(* Files that no name and no task refers to; which one is taken is the     *)
(* same.  When there is none, creating a file fails.                       *)
Unused == {f \in Files : /\ \A r \in Ids, n \in Names : names[r][n] # f
                         /\ \A t \in Tasks : fd[t] # f}
CanOpen(r, n) == names[r][n] # NoFile \/ Unused # {}
Opened(r, n) == IF names[r][n] # NoFile THEN names[r][n] ELSE CHOOSE f \in Unused : TRUE

Idle == [t \in Tasks |-> "idle"]
NoRooms == [t \in Tasks |-> NoRoom]
NoDefinitions == [t \in Tasks |-> NoDefinition]

RegistryInit ==
  /\ persistent \in BOOLEAN
  /\ mode = "serving" /\ todo = {}
  /\ rooms = [r \in Ids |-> NoDefinition]
  /\ names = [r \in Ids |-> [n \in Names |-> NoFile]]
  /\ text = [f \in Files |-> <<>>]
  /\ pc = Idle
  /\ id = NoRooms /\ def = NoDefinitions
  /\ fd = [t \in Tasks |-> NoFile]
  /\ disturbed = {} /\ abandoned = {} /\ unread = {}
  /\ asked = 0 /\ crashes = 0

-----------------------------------------------------------------------------
(* create_room *)

(* A request that create_room_handler lets through: the name is valid, the *)
(* definition can be parsed, and a game can be made of it.                 *)
Ask(t, r, d) ==
  /\ mode = "serving" /\ t \in Requests /\ pc[t] = "idle"
  /\ asked < MaxAsked
  /\ asked' = asked + 1
  /\ pc' = [pc EXCEPT ![t] = "check"]
  /\ id' = [id EXCEPT ![t] = r]
  /\ def' = [def EXCEPT ![t] = d]
  /\ UNCHANGED <<persistent, mode, todo, rooms, disk, fd, history, crashes>>

(* The request is answered.                                                *)
Finish(t) ==
  /\ pc' = [pc EXCEPT ![t] = "idle"]
  /\ id' = [id EXCEPT ![t] = NoRoom]
  /\ def' = [def EXCEPT ![t] = NoDefinition]

(* A slip: the room that fills the registry is not counted.                *)
HasRoomOffByOne == Cardinality(Listed) <= MaxRooms

HasRoom == Cardinality(Listed) < MaxRooms

(* The number of rooms, under the read lock, which is then given up.       *)
CheckCapacity(t) ==
  /\ pc[t] = "check"
  /\ IF HasRoom
       THEN /\ pc' = [pc EXCEPT ![t] = IF persistent THEN "create" ELSE "insert"]
            /\ UNCHANGED <<id, def>>
       ELSE Finish(t)
  /\ UNCHANGED <<persistent, mode, todo, rooms, disk, fd, history, counts>>

(* A slip: the definition is written where the old one stands.             *)
CreateInPlace(t) ==
  /\ pc[t] = "create" /\ CanOpen(id[t], Target)
  /\ LET r == id[t]
         f == Opened(r, Target)
     IN /\ names' = [names EXCEPT ![r] = [n \in Names |-> f]]
        /\ text' = [text EXCEPT ![f] = <<>>]
        /\ fd' = [fd EXCEPT ![t] = f]
        /\ disturbed' = IF Creating(r) = {t} THEN disturbed ELSE disturbed \union {r}
  /\ pc' = [pc EXCEPT ![t] = "write"]
  /\ UNCHANGED <<persistent, mode, todo, rooms, id, def, abandoned, unread, counts>>

(* File::create: the temporary file, emptied when there is one already.    *)
CreateTemporary(t) ==
  /\ pc[t] = "create" /\ CanOpen(id[t], Temporary)
  /\ LET r == id[t]
         f == Opened(r, Temporary)
     IN /\ names' = [names EXCEPT ![r][Temporary] = f]
        /\ text' = [text EXCEPT ![f] = <<>>]
        /\ fd' = [fd EXCEPT ![t] = f]
        /\ disturbed' = IF Creating(r) = {t} THEN disturbed ELSE disturbed \union {r}
  /\ pc' = [pc EXCEPT ![t] = "write"]
  /\ UNCHANGED <<persistent, mode, todo, rooms, id, def, abandoned, unread, counts>>

(* The text written from the start of a file: what stood behind its end    *)
(* stays there.                                                            *)
Overwritten(t, d) == [k \in 1..(IF Len(t) > d THEN Len(t) ELSE d) |->
                        IF k <= d THEN d ELSE t[k]]

(* write_all and sync_all.                                                 *)
WriteTemporary(t) ==
  /\ pc[t] = "write"
  /\ text' = [text EXCEPT ![fd[t]] = Overwritten(@, def[t])]
  /\ pc' = [pc EXCEPT ![t] = "rename"]
  /\ UNCHANGED <<persistent, mode, todo, rooms, names, id, def, fd, history, counts>>

(* rename: it fails when another task has moved the temporary file; the    *)
(* error is logged and the room created all the same.                      *)
RenameTemporary(t) ==
  /\ pc[t] = "rename"
  /\ LET r == id[t] IN
     names' = IF names[r][Temporary] = NoFile THEN names
              ELSE [names EXCEPT ![r] = [n \in Names |->
                       IF n = Target THEN names[r][Temporary] ELSE NoFile]]
  /\ pc' = [pc EXCEPT ![t] = "insert"]
  /\ fd' = [fd EXCEPT ![t] = NoFile]
  /\ UNCHANGED <<persistent, mode, todo, rooms, text, id, def, history, counts>>

(* Any of these calls may fail: save_room gives up where it is, and that   *)
(* is logged.                                                              *)
SaveFails(t) ==
  /\ pc[t] \in {"create", "write", "rename"}
  /\ pc' = [pc EXCEPT ![t] = "insert"]
  /\ fd' = [fd EXCEPT ![t] = NoFile]
  /\ disturbed' = disturbed \union {id[t]}
  /\ UNCHANGED <<persistent, mode, todo, rooms, disk, id, def, abandoned, unread, counts>>

(* The insertion, under the write lock: a room of that name is replaced.   *)
InsertRoom(t) ==
  /\ pc[t] = "insert"
  /\ rooms' = [rooms EXCEPT ![id[t]] = def[t]]
  /\ Finish(t)
  /\ abandoned' = abandoned \ {id[t]}
  /\ UNCHANGED <<persistent, mode, todo, disk, fd, disturbed, unread, counts>>

(* The peer disconnects while the request awaits a lock, and hyper drops   *)
(* its future: before the check there is nothing to undo, but what was     *)
(* saved stays when the write lock is not got.                             *)
Cancel(t) ==
  /\ t \in Requests /\ pc[t] \in {"check", "insert"}
  /\ Finish(t)
  /\ abandoned' = IF pc[t] = "insert" THEN abandoned \union {id[t]} ELSE abandoned
  /\ UNCHANGED <<persistent, mode, todo, rooms, disk, fd, disturbed, unread, counts>>

CreateRoom(t) ==
  \/ CheckCapacity(t)
  \/ CreateTemporary(t)
  \/ WriteTemporary(t)
  \/ RenameTemporary(t)
  \/ SaveFails(t)
  \/ InsertRoom(t)
  \/ Cancel(t)

-----------------------------------------------------------------------------
(* Crash and restart *)

(* The process is killed and started again: what was in memory is gone.    *)
(* main() opens a FileStore or goes on without one, asks list_rooms and    *)
(* restores before it listens.  An error of list_rooms is logged and       *)
(* nothing restored; a definition.json that exists() cannot look at is     *)
(* passed over.                                                            *)
Restart ==
  /\ crashes < MaxCrashes
  /\ crashes' = crashes + 1
  /\ rooms' = [r \in Ids |-> NoDefinition]
  /\ pc' = Idle /\ id' = NoRooms /\ def' = NoDefinitions
  /\ fd' = [t \in Tasks |-> NoFile]
  /\ mode' = "restoring"
  /\ persistent' \in BOOLEAN
  /\ todo' \in SUBSET (IF persistent' THEN Stored ELSE {})
  /\ unread' = Stored \ todo'
  /\ abandoned' = {}
  /\ UNCHANGED <<disk, disturbed, asked>>

(* A slip: only one room of the directory is restored.                     *)
LoadRoomOnce(r) ==
  /\ mode = "restoring" /\ pc[Boot] = "idle" /\ r \in todo
  /\ todo' = {}
  /\ IF Whole(OnDisk(r))
       THEN /\ pc' = [pc EXCEPT ![Boot] = "check"]
            /\ id' = [id EXCEPT ![Boot] = r]
            /\ def' = [def EXCEPT ![Boot] = Len(OnDisk(r))]
       ELSE UNCHANGED <<pc, id, def>>
  /\ UNCHANGED <<persistent, mode, rooms, disk, fd, history, counts>>

(* load_room and the call of create_room, which refuses what cannot be     *)
(* parsed.                                                                 *)
LoadRoom(r) ==
  /\ mode = "restoring" /\ pc[Boot] = "idle" /\ r \in todo
  /\ todo' = todo \ {r}
  /\ IF Whole(OnDisk(r))
       THEN /\ pc' = [pc EXCEPT ![Boot] = "check"]
            /\ id' = [id EXCEPT ![Boot] = r]
            /\ def' = [def EXCEPT ![Boot] = Len(OnDisk(r))]
       ELSE UNCHANGED <<pc, id, def>>
  /\ UNCHANGED <<persistent, mode, rooms, disk, fd, history, counts>>

(* load_room fails, for definition.json or for state.json, or no longer    *)
(* sees the file: the room is passed over.                                 *)
LoadFails(r) ==
  /\ mode = "restoring" /\ pc[Boot] = "idle" /\ r \in todo
  /\ todo' = todo \ {r}
  /\ unread' = unread \union {r}
  /\ UNCHANGED <<persistent, mode, rooms, disk, task, disturbed, abandoned, counts>>

(* A slip: the server answers while the last room is being restored.       *)
StartServingEarly ==
  /\ mode = "restoring" /\ todo = {}
  /\ mode' = "serving"
  /\ UNCHANGED <<persistent, todo, rooms, disk, task, history, counts>>

StartServing ==
  /\ mode = "restoring" /\ todo = {} /\ pc[Boot] = "idle"
  /\ mode' = "serving"
  /\ UNCHANGED <<persistent, todo, rooms, disk, task, history, counts>>

RegistryNext ==
  \/ \E t \in Requests, r \in Ids, d \in Definitions : Ask(t, r, d)
  \/ \E t \in Tasks : CreateRoom(t)
  \/ \E r \in Ids : LoadRoom(r) \/ LoadFails(r)
  \/ StartServing
  \/ Restart

RegistrySpec == RegistryInit /\ [][RegistryNext]_vars

-----------------------------------------------------------------------------
(* Properties *)

(* Every variable has its type, an open file is a file, and Boot works     *)
(* only while the server restores and the requests only while it serves.   *)
RegistryTypeOK ==
  /\ persistent \in BOOLEAN /\ mode \in {"restoring", "serving"}
  /\ todo \subseteq Ids /\ disturbed \subseteq Ids
  /\ abandoned \subseteq Ids /\ unread \subseteq Ids
  /\ rooms \in [Ids -> Definitions \union {NoDefinition}]
  /\ names \in [Ids -> [Names -> Files \union {NoFile}]]
  /\ text \in [Files -> Seq(Definitions)]
  /\ pc \in [Tasks -> {"idle", "check", "create", "write", "rename", "insert"}]
  /\ id \in [Tasks -> Ids \union {NoRoom}]
  /\ fd \in [Tasks -> Files \union {NoFile}]
  /\ \A t \in Tasks : /\ pc[t] # "idle" => id[t] \in Ids /\ def[t] \in Definitions
                      /\ pc[t] \in {"write", "rename"} => fd[t] \in Files
                      /\ pc[t] # "idle" => (mode = "restoring" <=> t = Boot)
  /\ asked \in 0..MaxAsked /\ crashes \in 0..MaxCrashes

(* The limit on rooms (room.rs:208) can be passed only by requests that    *)
(* looked at the registry together: by one room for each request in        *)
(* progress beyond the first.                                              *)
OverrunBounded ==
  Cardinality(Listed) <= MaxRooms + Cardinality(Requests) - 1

(* Nothing stored is forgotten but for a reason that was logged or a peer  *)
(* that left: once the server answers, a directory with a whole definition *)
(* has its room (room.rs:127), unless the registry is full, the room is    *)
(* being created, the start could not list or read it (room.rs:134,        *)
(* main.rs:60), or the request that saved it was dropped while it awaited  *)
(* the write lock (room.rs:251).                                           *)
NothingForgotten ==
  mode = "serving" =>
    \A r \in Stored \ (unread \union abandoned) :
      persistent /\ Whole(OnDisk(r)) /\ Creating(r) = {}
        => r \in Listed \/ Cardinality(Listed) >= MaxRooms

(* The room that players find and the room that a restart would bring back *)
(* are made from the same definition, as long as no two requests for it    *)
(* overlapped, no call of a save failed, and the last request that saved   *)
(* it was not dropped before it could insert it (room.rs:251): through     *)
(* every crash between two calls the definition on disk is the old one or  *)
(* the new one (store.rs:92), for rooms whose request was dropped too.     *)
DiskAgrees ==
  \A r \in Ids \ disturbed :
    /\ r \in Stored => Whole(OnDisk(r))
    /\ (persistent /\ Creating(r) = {} /\ r \in Listed \ abandoned) =>
         r \in Stored /\ OnDisk(r) = TextOf(rooms[r])

(* What store.rs:92 says of atomic_write: a reader never sees part of a    *)
(* definition.                                                             *)
NeverPartial == \A r \in Stored : Whole(OnDisk(r))
=============================================================================
