-------------------------- MODULE RegistryProofs ---------------------------
(***************************************************************************)
(* Theorems about Registry, for any rooms, definitions and requests, any   *)
(* supply of files and any number of crashes: types, the bound on rooms,   *)
(* and that what is on disk and what players find agree.                   *)
(***************************************************************************)
EXTENDS Registry, FiniteSetTheorems, SequenceTheorems, TLAPS

Saving == {"create", "write", "rename"}

(* Types; a file is open while it is written; who saves has a FileStore;   *)
(* and nothing is left to restore when the server answers.                 *)
Shape ==
  /\ persistent \in BOOLEAN /\ mode \in {"restoring", "serving"}
  /\ todo \in SUBSET Ids /\ disturbed \in SUBSET Ids
  /\ abandoned \in SUBSET Ids /\ unread \in SUBSET Ids
  /\ rooms \in [Ids -> Definitions \union {NoDefinition}]
  /\ names \in [Ids -> [Names -> Files \union {NoFile}]]
  /\ text \in [Files -> Seq(Definitions)]
  /\ pc \in [Tasks -> {"idle", "check", "create", "write", "rename", "insert"}]
  /\ id \in [Tasks -> Ids \union {NoRoom}]
  /\ def \in [Tasks -> Definitions \union {NoDefinition}]
  /\ fd \in [Tasks -> Files \union {NoFile}]
  /\ asked \in 0..MaxAsked /\ crashes \in 0..MaxCrashes
  /\ \A t \in Tasks : pc[t] # "idle" => /\ id[t] \in Ids /\ def[t] \in Definitions
                                        /\ mode = "restoring" <=> t = Boot
  /\ \A t \in Tasks : fd[t] # NoFile <=> pc[t] \in {"write", "rename"}
  /\ \A t \in Tasks : pc[t] \in Saving => persistent
  /\ mode = "serving" => todo = {}
  /\ \A r \in todo : names[r][Target] # NoFile

-----------------------------------------------------------------------------
(* Texts *)

LEMMA Written ==
  ASSUME NEW d \in Definitions, NEW t \in Seq(Definitions)
  PROVE  /\ TextOf(d) \in Seq(Definitions) /\ Len(TextOf(d)) = d
         /\ Overwritten(t, d) \in Seq(Definitions)
         /\ Overwritten(<<>>, d) = TextOf(d)
<1>1. d \in Nat \ {0} /\ Len(t) \in Nat /\ t \in [1..Len(t) -> Definitions]
  BY RegistryAssumption
<1>2. TextOf(d) \in [1..d -> Definitions]
  BY <1>1 DEF TextOf
<1>3. TextOf(d) \in Seq(Definitions)
  BY <1>1, <1>2, SeqDef
<1>4. Len(TextOf(d)) = d
  <2>1. DOMAIN TextOf(d) = 1..d
    BY DEF TextOf
  <2>2. DOMAIN TextOf(d) = 1..Len(TextOf(d)) /\ Len(TextOf(d)) \in Nat
    BY <1>3, LenProperties
  <2> QED BY <1>1, <2>1, <2>2
<1>5. Overwritten(t, d) \in Seq(Definitions)
  <2> DEFINE n == IF Len(t) > d THEN Len(t) ELSE d
  <2>1. n \in Nat /\ \A k \in 1..n : k <= d \/ k \in 1..Len(t)
    BY <1>1
  <2>2. Overwritten(t, d) \in [1..n -> Definitions]
    BY <1>1, <2>1 DEF Overwritten
  <2> QED BY <2>1, <2>2, SeqDef
<1>6. Overwritten(<<>>, d) = TextOf(d)
  <2>1. Len(<<>>) = 0 /\ ~(0 > d) /\ \A k \in 1..d : k <= d
    BY <1>1
  <2> QED BY <2>1 DEF Overwritten, TextOf
<1> QED BY <1>3, <1>4, <1>5, <1>6

LEMMA WholeText ==
  ASSUME NEW t \in Seq(Definitions), Whole(t)
  PROVE  Len(t) \in Definitions /\ t = TextOf(Len(t))
BY Written DEF Whole

-----------------------------------------------------------------------------
(* Types *)

LEMMA ShapeInit == RegistryInit => Shape
<1> SUFFICES ASSUME RegistryInit PROVE Shape
  OBVIOUS
<1>1. <<>> \in Seq(Definitions)
  OBVIOUS
<1> QED BY <1>1, RegistryAssumption DEF RegistryInit, Shape, Idle, NoRooms, NoDefinitions, Saving

(* The file a name is opened as: the one it stands for, or an unused one.  *)
LEMMA OpenedFile ==
  ASSUME Shape, NEW r \in Ids, NEW n \in Names, CanOpen(r, n)
  PROVE  /\ Opened(r, n) \in Files
         /\ names[r][n] # NoFile => Opened(r, n) = names[r][n]
         /\ names[r][n] = NoFile => Opened(r, n) \in Unused
<1>1. names[r][n] \in Files \union {NoFile}
  BY DEF Shape
<1>2. CASE names[r][n] = NoFile
  <2>1. (CHOOSE f \in Unused : TRUE) \in Unused
    BY <1>2 DEF CanOpen
  <2> QED BY <1>2, <2>1 DEF Opened, Unused
<1> QED BY <1>1, <1>2 DEF Opened

LEMMA ShapeStep == ASSUME Shape, [RegistryNext]_vars PROVE Shape'
<1> USE RegistryAssumption
<1>1. ASSUME NEW t \in Requests, NEW r \in Ids, NEW d \in Definitions, Ask(t, r, d) PROVE Shape'
  <2>1. asked' \in 0..MaxAsked
    BY <1>1 DEF Ask, Shape
  <2>2. t \in Tasks /\ t # Boot /\ mode # "restoring"
    BY <1>1 DEF Ask, Tasks
  <2> QED BY <1>1, <2>1, <2>2 DEF Ask, Shape, Saving, disk, history
<1>2. ASSUME NEW t \in Tasks, CheckCapacity(t) PROVE Shape'
  <2>1. \/ /\ pc' = [pc EXCEPT ![t] = IF persistent THEN "create" ELSE "insert"]
           /\ UNCHANGED <<id, def>>
        \/ Finish(t)
    BY <1>2 DEF CheckCapacity
  <2>2. /\ pc[t] = "check"
        /\ UNCHANGED <<persistent, mode, todo, rooms, names, text, fd, asked, crashes,
                       disturbed, abandoned, unread>>
    BY <1>2 DEF CheckCapacity, disk, history, counts
  <2>3. CASE Finish(t)
    BY <2>2, <2>3 DEF Finish, Shape, Saving
  <2>4. CASE pc' = [pc EXCEPT ![t] = IF persistent THEN "create" ELSE "insert"] /\ UNCHANGED <<id, def>>
    BY <2>2, <2>4 DEF Shape, Saving
  <2> QED BY <2>1, <2>3, <2>4
<1>3. ASSUME NEW t \in Tasks, CreateTemporary(t) PROVE Shape'
  <2> DEFINE r == id[t]
             f == Opened(r, Temporary)
  <2>1. r \in Ids /\ Temporary \in Names /\ Target \in Names
    BY <1>3 DEF CreateTemporary, Shape, Names, Temporary, Target
  <2>2. f \in Files /\ f # NoFile /\ <<>> \in Seq(Definitions)
    BY <1>3, <2>1, OpenedFile DEF CreateTemporary
  <2> HIDE DEF r, f
  <2>3. /\ pc[t] = "create" /\ pc' = [pc EXCEPT ![t] = "write"]
        /\ names' = [names EXCEPT ![r][Temporary] = f] /\ text' = [text EXCEPT ![f] = <<>>]
        /\ fd' = [fd EXCEPT ![t] = f]
        /\ disturbed' \in {disturbed, disturbed \union {r}}
        /\ UNCHANGED <<persistent, mode, todo, rooms, id, def, abandoned, unread, counts>>
    BY <1>3 DEF CreateTemporary, r, f
  <2>4. names' \in [Ids -> [Names -> Files \union {NoFile}]]
    BY <2>1, <2>2, <2>3 DEF Shape
  <2>6. \A i \in todo : names'[i][Target] # NoFile
    BY <2>1, <2>2, <2>3 DEF Shape, Names, Target, Temporary
  <2>5. text' \in [Files -> Seq(Definitions)]
    BY <2>2, <2>3 DEF Shape
  <2> QED BY <2>1, <2>2, <2>3, <2>4, <2>5, <2>6 DEF Shape, Saving, counts
<1>4. ASSUME NEW t \in Tasks, WriteTemporary(t) PROVE Shape'
  <2>1. fd[t] \in Files /\ def[t] \in Definitions /\ text[fd[t]] \in Seq(Definitions)
    BY <1>4 DEF WriteTemporary, Shape
  <2>2. Overwritten(text[fd[t]], def[t]) \in Seq(Definitions)
    BY <2>1, Written
  <2>3. text' \in [Files -> Seq(Definitions)]
    BY <1>4, <2>1, <2>2 DEF WriteTemporary, Shape
  <2> QED BY <1>4, <2>3 DEF WriteTemporary, Shape, Saving, history, counts
<1>5. ASSUME NEW t \in Tasks, RenameTemporary(t) PROVE Shape'
  <2>1. id[t] \in Ids /\ Temporary \in Names
    BY <1>5 DEF RenameTemporary, Shape, Names, Temporary
  <2>2. names' \in [Ids -> [Names -> Files \union {NoFile}]]
    BY <1>5, <2>1 DEF RenameTemporary, Shape
  <2>3. \A i \in todo : names'[i][Target] # NoFile
    BY <1>5, <2>1 DEF RenameTemporary, Shape, Names, Target, Temporary
  <2> QED BY <1>5, <2>2, <2>3 DEF RenameTemporary, Shape, Saving, history, counts
<1>6. ASSUME NEW t \in Tasks, SaveFails(t) PROVE Shape'
  BY <1>6 DEF SaveFails, Shape, Saving, disk, counts
<1>7. ASSUME NEW t \in Tasks, InsertRoom(t) PROVE Shape'
  BY <1>7 DEF InsertRoom, Finish, Shape, Saving, disk, counts
<1>8. ASSUME NEW r \in Ids, LoadRoom(r) PROVE Shape'
  <2>1. ASSUME Whole(OnDisk(r)) PROVE Len(OnDisk(r)) \in Definitions
    <3>1. names[r][Target] \in Files
      BY <1>8 DEF LoadRoom, Shape, Names, Target
    <3>2. OnDisk(r) \in Seq(Definitions)
      BY <3>1 DEF OnDisk, Shape
    <3> QED BY <2>1, <3>2, WholeText
  <2> QED BY <1>8, <2>1 DEF LoadRoom, Shape, Saving, Tasks, disk, history, counts
<1>9. CASE StartServing
  BY <1>9 DEF StartServing, Shape, Saving, disk, history, counts, task
<1>10. CASE Restart
  BY <1>10 DEF Restart, Shape, Saving, disk, Idle, NoRooms, NoDefinitions, Stored
<1>11. CASE UNCHANGED vars
  BY <1>11 DEF vars, Shape, Saving, disk, history, counts, task
<1>12. ASSUME NEW t \in Tasks, Cancel(t) PROVE Shape'
  BY <1>12 DEF Cancel, Finish, Shape, Saving, disk, counts
<1>13. ASSUME NEW r \in Ids, LoadFails(r) PROVE Shape'
  BY <1>13 DEF LoadFails, Shape, Saving, disk, counts, task
<1> QED BY <1>1, <1>2, <1>3, <1>4, <1>5, <1>6, <1>7, <1>8, <1>9, <1>10, <1>11, <1>12, <1>13
        DEF RegistryNext, CreateRoom

-----------------------------------------------------------------------------
(* Files *)

(* A file has one name, and who has it open works for the room it is of.   *)
Apart ==
  /\ \A r, s \in Ids, n, m \in Names :
       names[r][n] # NoFile /\ names[r][n] = names[s][m] => r = s /\ n = m
  /\ \A t \in Tasks, r \in Ids, n \in Names : fd[t] # NoFile /\ names[r][n] = fd[t] => id[t] = r
  /\ \A t, u \in Tasks : fd[t] # NoFile /\ fd[t] = fd[u] => id[t] = id[u]

(* What the creation of the temporary file of room r as file f does.       *)
LEMMA Creates ==
  ASSUME Shape, Apart, NEW t \in Tasks, CreateTemporary(t)
  PROVE  \E r \in Ids, f \in Files :
           /\ r = id[t] /\ f # NoFile /\ pc[t] = "create"
           /\ names[r][Temporary] = f \/ (names[r][Temporary] = NoFile /\ f \in Unused)
           /\ names' = [names EXCEPT ![r][Temporary] = f] /\ text' = [text EXCEPT ![f] = <<>>]
           /\ fd' = [fd EXCEPT ![t] = f] /\ pc' = [pc EXCEPT ![t] = "write"]
           /\ disturbed' = IF Creating(r) = {t} THEN disturbed ELSE disturbed \union {r}
           /\ UNCHANGED <<persistent, mode, todo, rooms, id, def, abandoned, unread>>
<1> DEFINE r == id[t]
           f == Opened(r, Temporary)
<1>1. r \in Ids /\ Temporary \in Names /\ CanOpen(r, Temporary) /\ NoFile \notin Files
  BY RegistryAssumption DEF CreateTemporary, Shape, Names, Temporary
<1>2. /\ f \in Files /\ f # NoFile
      /\ names[r][Temporary] = f \/ (names[r][Temporary] = NoFile /\ f \in Unused)
  BY <1>1, OpenedFile
<1> QED BY <1>1, <1>2 DEF CreateTemporary

(* What the renaming does, if the temporary file is still there.           *)
LEMMA Renames ==
  ASSUME Shape, NEW t \in Tasks, RenameTemporary(t)
  PROVE  \E r \in Ids :
           /\ r = id[t] /\ pc[t] = "rename" /\ fd[t] \in Files
           /\ \/ names[r][Temporary] = NoFile /\ names' = names
              \/ /\ names[r][Temporary] # NoFile
                 /\ \A s \in Ids : s # r => names'[s] = names[s]
                 /\ names'[r][Target] = names[r][Temporary] /\ names'[r][Temporary] = NoFile
           /\ fd' = [fd EXCEPT ![t] = NoFile] /\ pc' = [pc EXCEPT ![t] = "insert"]
           /\ UNCHANGED <<persistent, mode, todo, rooms, text, id, def, history>>
<1>1. id[t] \in Ids /\ fd[t] \in Files /\ pc[t] = "rename"
  BY DEF RenameTemporary, Shape
<1>2. Temporary \in Names /\ Target \in Names /\ Temporary # Target
  BY DEF Names, Temporary, Target
<1> QED BY <1>1, <1>2 DEF RenameTemporary, Shape

LEMMA BothNames == Names = {Target, Temporary} /\ Target # Temporary
BY DEF Names, Target, Temporary

(* Files stay apart when tasks close theirs or keep them.                  *)
LEMMA ApartStays ==
  ASSUME Apart, UNCHANGED names,
         \A t \in Tasks : fd'[t] = NoFile \/ (fd'[t] = fd[t] /\ id'[t] = id[t])
  PROVE  Apart'
BY DEF Apart

LEMMA ApartStep == ASSUME Shape, Apart, [RegistryNext]_vars PROVE Apart'
<1>0. \A t \in Tasks : pc[t] \notin {"write", "rename"} => fd[t] = NoFile
  BY DEF Shape
<1>1. ASSUME NEW t \in Tasks, CreateTemporary(t) PROVE Apart'
  <2>1. PICK r \in Ids, f \in Files :
           /\ r = id[t] /\ f # NoFile /\ pc[t] = "create"
           /\ names[r][Temporary] = f \/ (names[r][Temporary] = NoFile /\ f \in Unused)
           /\ names' = [names EXCEPT ![r][Temporary] = f] /\ fd' = [fd EXCEPT ![t] = f]
           /\ UNCHANGED id
    BY <1>1, Creates
  <2>2. \A s \in Ids, n \in Names :
          names'[s][n] = IF s = r /\ n = Temporary THEN f ELSE names[s][n]
    BY <2>1 DEF Shape
  <2>3. \A u \in Tasks : fd'[u] = IF u = t THEN f ELSE fd[u]
    BY <2>1 DEF Shape
  <2>4. \A s \in Ids, n \in Names : names[s][n] = f => s = r /\ n = Temporary
    BY <2>1, BothNames DEF Apart, Unused
  <2>5. \A u \in Tasks : fd[u] = f => id[u] = r
    BY <2>1, BothNames DEF Apart, Unused
  <2>6. \A s, i \in Ids, n, m \in Names :
          names'[s][n] # NoFile /\ names'[s][n] = names'[i][m] => s = i /\ n = m
    BY <2>2, <2>4 DEF Apart
  <2>7. \A u \in Tasks, s \in Ids, n \in Names : fd'[u] # NoFile /\ names'[s][n] = fd'[u] => id[u] = s
    BY <2>1, <2>2, <2>3, <2>4, <2>5 DEF Apart
  <2>8. \A u, v \in Tasks : fd'[u] # NoFile /\ fd'[u] = fd'[v] => id[u] = id[v]
    BY <2>1, <2>3, <2>5 DEF Apart
  <2> QED BY <2>1, <2>6, <2>7, <2>8 DEF Apart
<1>2. ASSUME NEW t \in Tasks, RenameTemporary(t) PROVE Apart'
  <2>1. PICK r \in Ids :
           /\ \/ names[r][Temporary] = NoFile /\ names' = names
              \/ /\ names[r][Temporary] # NoFile
                 /\ \A s \in Ids : s # r => names'[s] = names[s]
                 /\ names'[r][Target] = names[r][Temporary] /\ names'[r][Temporary] = NoFile
           /\ fd' = [fd EXCEPT ![t] = NoFile]
           /\ UNCHANGED id
    BY <1>2, Renames
  <2>2. \A u \in Tasks : fd'[u] = NoFile \/ fd'[u] = fd[u]
    BY <2>1 DEF Shape
  <2>3. CASE names' = names
    BY <2>1, <2>2, <2>3, ApartStays
  <2>4. CASE names' # names
    <3>1. \A s \in Ids, n \in Names : names'[s][n] # NoFile =>
            \/ s # r /\ names'[s][n] = names[s][n]
            \/ s = r /\ n = Target /\ names'[s][n] = names[r][Temporary]
      BY <2>1, <2>4, BothNames
    <3> QED BY <2>1, <2>2, <3>1, BothNames DEF Apart
  <2> QED BY <2>3, <2>4
<1>3. ASSUME NEW t \in Requests, NEW r \in Ids, NEW d \in Definitions, Ask(t, r, d) PROVE Apart'
  BY <1>0, <1>3, ApartStays DEF Ask, Shape, disk, Tasks
<1>4. ASSUME NEW t \in Tasks, CheckCapacity(t) \/ InsertRoom(t) \/ Cancel(t) PROVE Apart'
  BY <1>0, <1>4, ApartStays DEF CheckCapacity, InsertRoom, Cancel, Finish, Shape, disk
<1>5. ASSUME NEW t \in Tasks, WriteTemporary(t) \/ SaveFails(t) PROVE Apart'
  BY <1>5, ApartStays DEF WriteTemporary, SaveFails, Shape, disk
<1>6. ASSUME NEW r \in Ids, LoadRoom(r) \/ LoadFails(r) PROVE Apart'
  BY <1>0, <1>6, ApartStays DEF LoadRoom, LoadFails, Shape, disk, task, Tasks
<1>7. CASE StartServing \/ Restart \/ UNCHANGED vars
  BY <1>7, ApartStays DEF StartServing, Restart, vars, disk, task
<1> QED BY <1>1, <1>2, <1>3, <1>4, <1>5, <1>6, <1>7 DEF RegistryNext, CreateRoom

(* The files of a room are as they were.                                   *)
SameFiles(r) ==
  /\ \A n \in Names : names'[r][n] = names[r][n]
  /\ \A n \in Names : names[r][n] # NoFile => text'[names[r][n]] = text[names[r][n]]

LEMMA OtherFiles ==
  ASSUME Shape, Apart, NEW t \in Tasks, NEW r \in Ids, r # id[t],
         CreateTemporary(t) \/ WriteTemporary(t) \/ RenameTemporary(t) \/ SaveFails(t)
  PROVE  SameFiles(r)
<1>1. CASE CreateTemporary(t)
  <2>1. PICK s \in Ids, f \in Files :
           /\ s = id[t] /\ f # NoFile
           /\ names[s][Temporary] = f \/ (names[s][Temporary] = NoFile /\ f \in Unused)
           /\ names' = [names EXCEPT ![s][Temporary] = f] /\ text' = [text EXCEPT ![f] = <<>>]
    BY <1>1, Creates
  <2>2. names'[r] = names[r]
    BY <2>1 DEF Shape
  <2>3. \A n \in Names : names[r][n] # f
    BY <2>1, BothNames DEF Apart, Unused
  <2> QED BY <2>1, <2>2, <2>3 DEF SameFiles, Shape
<1>2. CASE WriteTemporary(t)
  <2>1. fd[t] # NoFile /\ fd[t] \in Files
    BY <1>2 DEF WriteTemporary, Shape
  <2>2. \A n \in Names : names[r][n] # fd[t]
    BY <2>1 DEF Apart
  <2> QED BY <1>2, <2>1, <2>2 DEF WriteTemporary, SameFiles, Shape
<1>3. CASE RenameTemporary(t)
  BY <1>3, Renames DEF SameFiles
<1>4. CASE SaveFails(t)
  BY <1>4 DEF SaveFails, disk, SameFiles
<1> QED BY <1>1, <1>2, <1>3, <1>4

-----------------------------------------------------------------------------
(* The disk and the rooms *)

Busy(r) == {t \in Tasks : id[t] = r /\ pc[t] \in {"write", "rename", "insert"}}
Inserting(r) == {t \in Tasks : id[t] = r /\ pc[t] = "insert"}

(* How a save that nothing disturbs goes: one task at a time has its hands *)
(* on the files of a room; what stands under the name of the definition is *)
(* whole; and it is what players find, or are about to, unless the request *)
(* that put it there was dropped.                                          *)
Saved(r) ==
  /\ r \in Stored => Whole(OnDisk(r))
  /\ \A t \in Busy(r) : pc[t] # "insert" => fd[t] = names[r][Temporary]
  /\ \A t \in Busy(r) : pc[t] = "write" => text[fd[t]] = <<>>
  /\ \A t \in Busy(r) : pc[t] = "rename" => text[fd[t]] = TextOf(def[t])
  /\ persistent =>
       /\ \A t, u \in Busy(r) : t = u
       /\ \A t \in Inserting(r) : r \in Stored /\ OnDisk(r) = TextOf(def[t])
       /\ Inserting(r) = {} /\ r \in Listed \ abandoned =>
            r \in Stored /\ OnDisk(r) = TextOf(rooms[r])

(* A step that has nothing to do with a room.                              *)
Aside(r) ==
  /\ SameFiles(r) /\ persistent' = persistent
  /\ \A t \in Busy(r)' :
       \/ t \in Busy(r) /\ pc'[t] = pc[t] /\ def'[t] = def[t] /\ fd'[t] = fd[t]
       \/ ~persistent /\ pc'[t] = "insert"
  /\ persistent => /\ Inserting(r) \subseteq Inserting(r)' /\ rooms'[r] = rooms[r]
                   /\ r \in abandoned => r \in abandoned'

LEMMA SavedAside ==
  ASSUME Shape, NEW r \in Ids, Saved(r), Aside(r) PROVE Saved(r)'
<1>1. (r \in Stored)' <=> r \in Stored
  BY BothNames DEF Stored, Aside, SameFiles
<1>2. r \in Stored => OnDisk(r)' = OnDisk(r)
  BY BothNames DEF Stored, OnDisk, Aside, SameFiles
<1>3. (r \in Stored)' => Whole(OnDisk(r))'
  BY <1>1, <1>2 DEF Saved, Whole
<1>4. ASSUME NEW t \in Busy(r)', pc'[t] # "insert"
      PROVE  /\ fd'[t] = names'[r][Temporary]
             /\ pc'[t] = "write" => text'[fd'[t]] = <<>>
             /\ pc'[t] = "rename" => text'[fd'[t]] = TextOf(def'[t])
  <2>1. t \in Busy(r) /\ pc'[t] = pc[t] /\ def'[t] = def[t] /\ fd'[t] = fd[t]
    BY <1>4 DEF Aside
  <2>2. fd[t] = names[r][Temporary] /\ fd[t] # NoFile
    BY <1>4, <2>1 DEF Saved, Busy, Shape
  <2>3. text'[fd[t]] = text[fd[t]] /\ names'[r][Temporary] = names[r][Temporary]
    BY <2>2, BothNames DEF Aside, SameFiles
  <2> QED BY <2>1, <2>2, <2>3 DEF Saved
<1>5. ASSUME persistent
      PROVE  /\ \A t, u \in Busy(r)' : t = u
             /\ \A t \in Inserting(r)' : (r \in Stored)' /\ OnDisk(r)' = TextOf(def'[t])
             /\ Inserting(r)' = {} /\ (r \in Listed \ abandoned)' =>
                  (r \in Stored)' /\ OnDisk(r)' = TextOf(rooms'[r])
  <2>1. \A t \in Busy(r)' : t \in Busy(r) /\ pc'[t] = pc[t] /\ def'[t] = def[t]
    BY <1>5 DEF Aside
  <2>2. \A t, u \in Busy(r)' : t = u
    BY <1>5, <2>1 DEF Saved
  <2>3. \A t \in Inserting(r)' : t \in Busy(r)'
    BY DEF Inserting, Busy
  <2>4. \A t \in Inserting(r)' : t \in Inserting(r) /\ def'[t] = def[t]
    BY <2>1, <2>3 DEF Inserting, Busy
  <2>5. rooms'[r] = rooms[r] /\ Inserting(r) \subseteq Inserting(r)'
    BY <1>5 DEF Aside
  <2>6. (r \in Listed \ abandoned)' => r \in Listed \ abandoned
    BY <1>5, <2>5 DEF Listed, Aside
  <2> QED BY <1>1, <1>2, <1>5, <2>2, <2>4, <2>5, <2>6 DEF Saved
<1>6. persistent' = persistent
  BY DEF Aside
<1> QED BY <1>3, <1>4, <1>5, <1>6 DEF Saved

(* Disk steps are aside for the rooms they are not about.                  *)
LEMMA SavingAside ==
  ASSUME Shape, Apart, NEW t \in Tasks, NEW r \in Ids, r # id[t],
         CreateTemporary(t) \/ WriteTemporary(t) \/ RenameTemporary(t) \/ SaveFails(t)
  PROVE  Aside(r)
<1>1. SameFiles(r)
  BY OtherFiles
<1>2. /\ UNCHANGED <<persistent, rooms, id, def, abandoned>>
      /\ \A u \in Tasks : u # t => pc'[u] = pc[u] /\ fd'[u] = fd[u]
  BY DEF CreateTemporary, WriteTemporary, RenameTemporary, SaveFails, Shape, history
<1>3. Busy(r)' = Busy(r) /\ t \notin Busy(r) /\ Inserting(r)' = Inserting(r)
  BY <1>2 DEF Busy, Inserting
<1>4. \A u \in Busy(r) : u \in Tasks
  BY DEF Busy
<1> QED BY <1>1, <1>2, <1>3, <1>4 DEF Aside

LEMMA SavedCreate ==
  ASSUME Shape, Apart, NEW t \in Tasks, CreateTemporary(t), NEW r \in Ids \ disturbed', Saved(r)
  PROVE  Saved(r)'
<1>1. CASE r # id[t]
  BY <1>1, SavingAside, SavedAside
<1>2. CASE r = id[t]
  <2>0. PICK s \in Ids, f \in Files :
           /\ s = id[t] /\ f # NoFile /\ pc[t] = "create"
           /\ names[s][Temporary] = f \/ (names[s][Temporary] = NoFile /\ f \in Unused)
           /\ names' = [names EXCEPT ![s][Temporary] = f] /\ text' = [text EXCEPT ![f] = <<>>]
           /\ fd' = [fd EXCEPT ![t] = f] /\ pc' = [pc EXCEPT ![t] = "write"]
           /\ disturbed' = IF Creating(s) = {t} THEN disturbed ELSE disturbed \union {s}
           /\ UNCHANGED <<persistent, mode, todo, rooms, id, def, abandoned, unread>>
    BY Creates
  <2>1. /\ f # NoFile /\ pc[t] = "create"
        /\ names[r][Temporary] = f \/ (names[r][Temporary] = NoFile /\ f \in Unused)
        /\ names' = [names EXCEPT ![r][Temporary] = f] /\ text' = [text EXCEPT ![f] = <<>>]
        /\ fd' = [fd EXCEPT ![t] = f] /\ pc' = [pc EXCEPT ![t] = "write"]
        /\ disturbed' = IF Creating(r) = {t} THEN disturbed ELSE disturbed \union {r}
        /\ UNCHANGED <<persistent, mode, todo, rooms, id, def, abandoned, unread>>
    BY <1>2, <2>0
  <2>2. Creating(r) = {t}
    BY <2>1
  <2>3. Busy(r)' = {t} /\ Inserting(r)' = {} /\ Inserting(r) = {} /\ pc'[t] = "write"
    <3>1. \A u \in Tasks : id[u] = r /\ pc[u] \notin {"idle", "check"} => u = t
      BY <2>2 DEF Creating
    <3>2. \A u \in Tasks : pc'[u] = IF u = t THEN "write" ELSE pc[u]
      BY <2>1 DEF Shape
    <3>3. id' = id /\ id[t] = r /\ pc[t] = "create"
      BY <1>2, <2>1
    <3>4. Busy(r)' = {t}
      BY <3>1, <3>2, <3>3 DEF Busy
    <3>5. Inserting(r)' = {}
      BY <3>1, <3>2, <3>3 DEF Inserting
    <3>6. Inserting(r) = {}
      BY <3>1, <3>3 DEF Inserting
    <3> QED BY <3>2, <3>4, <3>5, <3>6
  <2>4. /\ names'[r][Target] = names[r][Target] /\ names'[r][Temporary] = f
        /\ fd'[t] = f /\ text'[f] = <<>>
    BY <2>1, BothNames DEF Shape
  <2>5. names[r][Target] # NoFile => text'[names[r][Target]] = text[names[r][Target]]
    <3>1. names[r][Target] # f
      BY <2>1, BothNames DEF Apart, Unused
    <3> QED BY <2>1, <3>1, BothNames DEF Shape
  <2>6. ((r \in Stored)' <=> r \in Stored) /\ (r \in Stored => OnDisk(r)' = OnDisk(r))
    BY <2>4, <2>5 DEF Stored, OnDisk
  <2>7. (r \in Listed \ abandoned)' <=> r \in Listed \ abandoned
    BY <2>1 DEF Listed
  <2> QED BY <2>1, <2>3, <2>4, <2>6, <2>7 DEF Saved, Whole
<1> QED BY <1>1, <1>2

LEMMA SavedWrite ==
  ASSUME Shape, Apart, NEW t \in Tasks, WriteTemporary(t), NEW r \in Ids \ disturbed', Saved(r)
  PROVE  Saved(r)'
<1>1. CASE r # id[t]
  BY <1>1, SavingAside, SavedAside
<1>2. CASE r = id[t]
  <2>1. /\ pc[t] = "write" /\ pc' = [pc EXCEPT ![t] = "rename"]
        /\ text' = [text EXCEPT ![fd[t]] = Overwritten(@, def[t])]
        /\ UNCHANGED <<persistent, rooms, names, id, def, fd, abandoned>>
        /\ fd[t] \in Files /\ fd[t] # NoFile /\ def[t] \in Definitions /\ persistent
    BY DEF WriteTemporary, Shape, Saving, history
  <2>2. t \in Busy(r) /\ fd[t] = names[r][Temporary] /\ text[fd[t]] = <<>>
    BY <1>2, <2>1 DEF Busy, Saved
  <2>3. text'[fd[t]] = TextOf(def[t])
    <3>1. <<>> \in Seq(Definitions)
      OBVIOUS
    <3> QED BY <2>1, <2>2, <3>1, Written DEF Shape
  <2>4. \A u \in Busy(r) : u = t
    BY <2>1, <2>2 DEF Saved
  <2>5. Busy(r)' = {t} /\ Inserting(r)' = {} /\ Inserting(r) = {} /\ pc'[t] = "rename"
    BY <1>2, <2>1, <2>4 DEF Busy, Inserting, Shape
  <2>6. names[r][Target] # NoFile => text'[names[r][Target]] = text[names[r][Target]]
    <3>1. names[r][Target] # fd[t]
      BY <2>1, <2>2, BothNames DEF Apart
    <3> QED BY <2>1, <3>1, BothNames DEF Shape
  <2>7. ((r \in Stored)' <=> r \in Stored) /\ (r \in Stored => OnDisk(r)' = OnDisk(r))
    BY <2>1, <2>6 DEF Stored, OnDisk
  <2>8. (r \in Listed \ abandoned)' <=> r \in Listed \ abandoned
    BY <2>1 DEF Listed
  <2> QED BY <2>1, <2>2, <2>3, <2>5, <2>7, <2>8 DEF Saved, Whole
<1> QED BY <1>1, <1>2

LEMMA SavedRename ==
  ASSUME Shape, Apart, NEW t \in Tasks, RenameTemporary(t), NEW r \in Ids \ disturbed', Saved(r)
  PROVE  Saved(r)'
<1>1. CASE r # id[t]
  BY <1>1, SavingAside, SavedAside
<1>2. CASE r = id[t]
  <2>1. /\ pc[t] = "rename" /\ fd[t] \in Files /\ fd[t] # NoFile /\ persistent
        /\ \/ names[r][Temporary] = NoFile /\ names' = names
           \/ /\ names[r][Temporary] # NoFile
              /\ names'[r][Target] = names[r][Temporary] /\ names'[r][Temporary] = NoFile
        /\ pc' = [pc EXCEPT ![t] = "insert"]
        /\ UNCHANGED <<persistent, rooms, text, id, def>>
    BY <1>2, Renames, RegistryAssumption DEF Shape, Saving
  <2>2. /\ t \in Busy(r) /\ fd[t] = names[r][Temporary] /\ text[fd[t]] = TextOf(def[t])
        /\ def[t] \in Definitions
    BY <1>2, <2>1 DEF Busy, Saved, Shape
  <2>3. \A u \in Busy(r) : u = t
    BY <2>1, <2>2 DEF Saved
  <2>4. Busy(r)' = {t} /\ Inserting(r)' = {t} /\ pc'[t] = "insert"
    BY <1>2, <2>1, <2>3 DEF Busy, Inserting, Shape
  <2>5. (r \in Stored)' /\ OnDisk(r)' = TextOf(def[t])
    BY <2>1, <2>2 DEF Stored, OnDisk
  <2>6. Whole(OnDisk(r))'
    BY <2>2, <2>5 DEF Whole
  <2> QED BY <2>1, <2>4, <2>5, <2>6 DEF Saved
<1> QED BY <1>1, <1>2

LEMMA SavedFails ==
  ASSUME Shape, Apart, NEW t \in Tasks, SaveFails(t), NEW r \in Ids \ disturbed', Saved(r)
  PROVE  Saved(r)'
<1>1. r # id[t]
  BY DEF SaveFails
<1> QED BY <1>1, SavingAside, SavedAside

LEMMA SavedInsert ==
  ASSUME Shape, NEW t \in Tasks, InsertRoom(t), NEW r \in Ids, Saved(r) PROVE Saved(r)'
<1>1. /\ pc[t] = "insert" /\ pc' = [pc EXCEPT ![t] = "idle"] /\ id[t] \in Ids /\ def[t] \in Definitions
      /\ rooms' = [rooms EXCEPT ![id[t]] = def[t]]
      /\ \A u \in Tasks : u # t => id'[u] = id[u] /\ def'[u] = def[u]
      /\ abandoned' = abandoned \ {id[t]}
      /\ UNCHANGED <<persistent, names, text, fd>>
  BY DEF InsertRoom, Finish, Shape, disk
<1>2. \A u \in Busy(r)' : u \in Busy(r) /\ u # t /\ pc'[u] = pc[u] /\ def'[u] = def[u] /\ fd'[u] = fd[u]
  BY <1>1 DEF Busy, Shape
<1>3. SameFiles(r)
  BY <1>1 DEF SameFiles
<1>4. CASE ~persistent \/ r # id[t]
  <2>1. persistent => /\ rooms'[r] = rooms[r] /\ Inserting(r) \subseteq Inserting(r)'
                      /\ r \in abandoned => r \in abandoned'
    BY <1>1, <1>4 DEF Inserting, Shape
  <2> QED BY <1>1, <1>2, <1>3, <2>1, SavedAside DEF Aside
<1>5. CASE persistent /\ r = id[t]
  <2>1. t \in Inserting(r) /\ t \in Busy(r)
    BY <1>1, <1>5 DEF Inserting, Busy
  <2>2. Busy(r)' = {} /\ Inserting(r)' \subseteq Busy(r)'
    <3>1. \A u \in Busy(r) : u = t
      BY <1>5, <2>1 DEF Saved
    <3>2. Inserting(r)' \subseteq Busy(r)'
      BY DEF Inserting, Busy
    <3> QED BY <1>2, <3>1, <3>2
  <2>3. r \in Stored /\ OnDisk(r) = TextOf(def[t]) /\ rooms'[r] = def[t]
    BY <1>1, <1>5, <2>1 DEF Saved, Shape
  <2>4. (r \in Stored)' /\ OnDisk(r)' = OnDisk(r)
    BY <1>1, <2>3 DEF Stored, OnDisk
  <2>5. Whole(OnDisk(r))'
    BY <1>1, <2>3, <2>4 DEF Whole
  <2> QED BY <1>1, <2>2, <2>3, <2>4, <2>5 DEF Saved
<1> QED BY <1>4, <1>5

(* A dropped request leaves the room it saved to those that are abandoned. *)
LEMMA SavedCancel ==
  ASSUME Shape, NEW t \in Tasks, Cancel(t), NEW r \in Ids, Saved(r) PROVE Saved(r)'
<1>1. /\ pc[t] \in {"check", "insert"} /\ pc' = [pc EXCEPT ![t] = "idle"]
      /\ abandoned' = IF pc[t] = "insert" THEN abandoned \union {id[t]} ELSE abandoned
      /\ \A u \in Tasks : u # t => id'[u] = id[u] /\ def'[u] = def[u]
      /\ UNCHANGED <<persistent, rooms, names, text, fd>>
  BY DEF Cancel, Finish, Shape, disk
<1>2. \A u \in Busy(r)' : u \in Busy(r) /\ u # t /\ pc'[u] = pc[u] /\ def'[u] = def[u] /\ fd'[u] = fd[u]
  BY <1>1 DEF Busy, Shape
<1>3. SameFiles(r)
  BY <1>1 DEF SameFiles
<1>4. CASE pc[t] = "check" \/ r # id[t]
  <2>1. Inserting(r) \subseteq Inserting(r)'
    BY <1>1, <1>4 DEF Inserting, Shape
  <2> QED BY <1>1, <1>2, <1>3, <2>1, SavedAside DEF Aside
<1>5. CASE pc[t] = "insert" /\ r = id[t]
  <2>1. r \in abandoned' /\ t \in Busy(r)
    BY <1>1, <1>5 DEF Busy
  <2>2. persistent => Busy(r)' = {} /\ Inserting(r)' = {}
    <3>1. persistent => \A u \in Busy(r) : u = t
      BY <2>1 DEF Saved
    <3>2. Inserting(r)' \subseteq Busy(r)'
      BY DEF Inserting, Busy
    <3> QED BY <1>2, <3>1, <3>2
  <2>3. ((r \in Stored)' <=> r \in Stored) /\ OnDisk(r)' = OnDisk(r)
    BY <1>1 DEF Stored, OnDisk
  <2> QED BY <1>1, <1>2, <2>1, <2>2, <2>3 DEF Saved, Whole
<1> QED BY <1>1, <1>4, <1>5

LEMMA SavedStep ==
  ASSUME Shape, Apart, [RegistryNext]_vars, NEW r \in Ids \ disturbed', Saved(r)
  PROVE  Saved(r)'
<1>1. ASSUME UNCHANGED <<persistent, rooms, names, text, fd, abandoned>>, NEW t \in Tasks,
             \A u \in Tasks : u # t => pc'[u] = pc[u] /\ id'[u] = id[u] /\ def'[u] = def[u],
             pc[t] \in {"idle", "check"},
             pc'[t] \in {"idle", "check", "create"} \/ (~persistent /\ pc'[t] = "insert")
      PROVE  Saved(r)'
  <2>1. SameFiles(r) /\ rooms'[r] = rooms[r]
    BY <1>1 DEF SameFiles
  <2>2. \A u \in Tasks : u \in Busy(r)' =>
          \/ u \in Busy(r) /\ pc'[u] = pc[u] /\ def'[u] = def[u] /\ fd'[u] = fd[u]
          \/ ~persistent /\ pc'[u] = "insert"
    BY <1>1 DEF Busy
  <2>3. Inserting(r) \subseteq Inserting(r)'
    BY <1>1 DEF Inserting
  <2>4. \A u \in Busy(r)' : u \in Tasks
    BY DEF Busy
  <2> QED BY <1>1, <2>1, <2>2, <2>3, <2>4, SavedAside DEF Aside
<1>2. ASSUME NEW t \in Requests, NEW s \in Ids, NEW d \in Definitions, Ask(t, s, d) PROVE Saved(r)'
  <2>1. /\ pc[t] = "idle" /\ pc' = [pc EXCEPT ![t] = "check"] /\ t \in Tasks
        /\ id' = [id EXCEPT ![t] = s] /\ def' = [def EXCEPT ![t] = d]
        /\ UNCHANGED <<persistent, rooms, names, text, fd, abandoned>>
    BY <1>2 DEF Ask, disk, history, Tasks
  <2> QED BY <1>1, <2>1 DEF Shape
<1>3. ASSUME NEW t \in Tasks, CheckCapacity(t) PROVE Saved(r)'
  <2>1. /\ pc[t] = "check" /\ UNCHANGED <<persistent, rooms, names, text, fd, abandoned>>
        /\ \A u \in Tasks : u # t => pc'[u] = pc[u] /\ id'[u] = id[u] /\ def'[u] = def[u]
        /\ pc'[t] \in {"idle", "create"} \/ (~persistent /\ pc'[t] = "insert")
    BY <1>3 DEF CheckCapacity, Finish, disk, history, Shape
  <2> QED BY <1>1, <2>1
<1>4. ASSUME NEW t \in Tasks, CreateRoom(t), ~CheckCapacity(t) PROVE Saved(r)'
  BY <1>4, SavedCreate, SavedWrite, SavedRename, SavedFails, SavedInsert, SavedCancel DEF CreateRoom
<1>5. ASSUME NEW s \in Ids, LoadRoom(s) PROVE Saved(r)'
  <2>1. /\ pc[Boot] = "idle" /\ Boot \in Tasks
        /\ UNCHANGED <<persistent, rooms, names, text, fd, abandoned>>
        /\ \A u \in Tasks : u # Boot => pc'[u] = pc[u] /\ id'[u] = id[u] /\ def'[u] = def[u]
        /\ pc'[Boot] \in {"idle", "check"}
    BY <1>5 DEF LoadRoom, disk, history, Tasks, Shape
  <2> QED BY <1>1, <2>1
<1>6. CASE StartServing \/ UNCHANGED vars \/ \E s \in Ids : LoadFails(s)
  <2>1. UNCHANGED <<persistent, rooms, names, text, pc, id, def, fd, abandoned>>
    BY <1>6 DEF StartServing, LoadFails, vars, disk, history, task
  <2>2. Busy(r)' = Busy(r) /\ Inserting(r)' = Inserting(r) /\ SameFiles(r)
    BY <2>1 DEF Busy, Inserting, SameFiles
  <2> QED BY <2>1, <2>2, SavedAside DEF Aside
<1>7. CASE Restart
  <2>1. UNCHANGED <<names, text>> /\ Busy(r)' = {} /\ Inserting(r)' = {} /\ rooms'[r] = NoDefinition
    BY <1>7 DEF Restart, disk, Busy, Inserting, Idle
  <2>2. ((r \in Stored)' <=> r \in Stored) /\ OnDisk(r)' = OnDisk(r) /\ ~(r \in Listed)'
    BY <2>1 DEF Stored, OnDisk, Listed
  <2> QED BY <2>1, <2>2 DEF Saved, Whole
<1> QED BY <1>2, <1>3, <1>4, <1>5, <1>6, <1>7 DEF RegistryNext

-----------------------------------------------------------------------------
(* The number of rooms *)

(* Requests past the check of the capacity, each of which may insert.      *)
Past == {t \in Tasks : pc[t] \notin {"idle", "check"}}
Counted == Cardinality(Listed) + Cardinality(Past) <= MaxRooms + Cardinality(Requests) - 1

LEMMA Finite ==
  /\ IsFiniteSet(Tasks) /\ IsFiniteSet(Ids) /\ Cardinality(Requests) \in Nat \ {0}
  /\ \A S \in SUBSET Tasks : IsFiniteSet(S) /\ Cardinality(S) \in Nat
  /\ \A S \in SUBSET Ids : IsFiniteSet(S) /\ Cardinality(S) \in Nat
  /\ \A S \in SUBSET Ids : \A T \in SUBSET S : Cardinality(T) <= Cardinality(S)
<1>1. IsFiniteSet(Tasks) /\ IsFiniteSet(Ids)
  BY RegistryAssumption, FS_AddElement DEF Tasks
<1>2. Cardinality(Requests) \in Nat \ {0}
  BY RegistryAssumption, FS_CardinalityType, FS_EmptySet
<1> QED BY <1>1, <1>2, FS_Subset, FS_CardinalityType

(* Only requests, or only Boot, are past the check.                        *)
LEMMA PastTogether ==
  ASSUME Shape, NEW t \in Tasks, pc[t] # "idle"
  PROVE  Cardinality(Past \union {t}) <= Cardinality(Requests)
<1>1. CASE mode = "restoring"
  <2>1. Past \union {t} = {Boot}
    BY <1>1 DEF Past, Shape
  <2>2. Cardinality({Boot}) = 1
    BY FS_Singleton
  <2>3. Cardinality(Requests) \in Nat \ {0}
    BY Finite
  <2> QED BY <2>1, <2>2, <2>3
<1>2. CASE mode # "restoring"
  <2>1. Past \union {t} \subseteq Requests
    BY <1>2 DEF Past, Shape, Tasks
  <2> QED BY <2>1, RegistryAssumption, FS_Subset
<1> QED BY <1>1, <1>2

LEMMA CountedStep == ASSUME Shape, Counted, [RegistryNext]_vars PROVE Counted'
<1>0. Past \in SUBSET Tasks /\ Listed \in SUBSET Ids /\ Listed' \in SUBSET Ids /\ MaxRooms \in Nat \ {0}
  BY RegistryAssumption DEF Past, Listed
<1>1. ASSUME Listed' = Listed, Past' = Past PROVE Counted'
  BY <1>1 DEF Counted
<1>2. ASSUME NEW t \in Tasks, CheckCapacity(t) PROVE Counted'
  <2>1. Listed' = Listed /\ pc[t] = "check"
    BY <1>2 DEF CheckCapacity, Listed
  <2>2. CASE HasRoom
    <3>1. Past' = Past \union {t}
      BY <1>2, <2>2 DEF CheckCapacity, Past, Shape
    <3>2. Cardinality(Past \union {t}) <= Cardinality(Requests)
      BY <2>1, PastTogether
    <3>3. Cardinality(Listed) < MaxRooms /\ Cardinality(Past \union {t}) \in Nat
      BY <1>0, <2>2, Finite DEF HasRoom
    <3> QED BY <1>0, <2>1, <3>1, <3>2, <3>3, Finite DEF Counted
  <2>3. CASE ~HasRoom
    <3>1. Past' = Past
      BY <1>2, <2>1, <2>3 DEF CheckCapacity, Finish, Past, Shape
    <3> QED BY <1>1, <2>1, <3>1
  <2> QED BY <2>2, <2>3
<1>3. ASSUME NEW t \in Tasks, InsertRoom(t) PROVE Counted'
  <2>1. Past' = Past \ {t} /\ t \in Past /\ Listed' \subseteq Listed \union {id[t]} /\ id[t] \in Ids
    BY <1>3 DEF InsertRoom, Finish, Past, Listed, Shape
  <2>2. Cardinality(Past') = Cardinality(Past) - 1
    BY <1>0, <2>1, Finite, FS_RemoveElement
  <2>3. Cardinality(Listed') <= Cardinality(Listed \union {id[t]})
    BY <1>0, <2>1, Finite
  <2>4. Cardinality(Listed \union {id[t]}) <= Cardinality(Listed) + 1
    BY <1>0, Finite, FS_AddElement
  <2>5. Cardinality(Listed \union {id[t]}) \in Nat
    BY <1>0, <2>1, Finite
  <2> QED BY <1>0, <2>2, <2>3, <2>4, <2>5, Finite DEF Counted
<1>4. ASSUME NEW t \in Tasks, CreateRoom(t), ~CheckCapacity(t), ~InsertRoom(t), ~Cancel(t) PROVE Counted'
  <2>1. Listed' = Listed
    BY <1>4 DEF CreateRoom, CreateTemporary, WriteTemporary, RenameTemporary, SaveFails, Listed
  <2>2. /\ pc[t] \notin {"idle", "check"} /\ pc'[t] \notin {"idle", "check"}
        /\ \A u \in Tasks : u # t => pc'[u] = pc[u]
    BY <1>4 DEF CreateRoom, CreateTemporary, WriteTemporary, RenameTemporary, SaveFails, Shape
  <2>3. Past' = Past
    BY <2>2 DEF Past
  <2> QED BY <1>1, <2>1, <2>3
<1>5. ASSUME NEW t \in Requests, NEW s \in Ids, NEW d \in Definitions, Ask(t, s, d) PROVE Counted'
  BY <1>1, <1>5 DEF Ask, Past, Listed, Shape, Tasks
<1>6. ASSUME NEW s \in Ids, LoadRoom(s) \/ LoadFails(s) PROVE Counted'
  BY <1>1, <1>6 DEF LoadRoom, LoadFails, Past, Listed, Shape, Tasks, task
<1>7. CASE StartServing \/ UNCHANGED vars
  BY <1>1, <1>7 DEF StartServing, vars, task, Past, Listed
<1>8. CASE Restart
  <2>1. Past' = {} /\ Listed' = {}
    BY <1>8 DEF Restart, Past, Listed, Idle
  <2> QED BY <1>0, <2>1, Finite, FS_EmptySet DEF Counted
<1>9. ASSUME NEW t \in Tasks, Cancel(t) PROVE Counted'
  <2>1. Listed' = Listed /\ Past' \in SUBSET Past
    BY <1>9 DEF Cancel, Finish, Past, Listed, Shape
  <2>2. Cardinality(Past') <= Cardinality(Past)
    BY <1>0, <2>1, Finite, FS_Subset
  <2>3. Cardinality(Past') \in Nat /\ Cardinality(Past) \in Nat /\ Cardinality(Listed) \in Nat
    BY <1>0, <2>1, Finite
  <2> QED BY <1>0, <2>1, <2>2, <2>3, Finite DEF Counted
<1> QED BY <1>2, <1>3, <1>4, <1>5, <1>6, <1>7, <1>8, <1>9 DEF RegistryNext

-----------------------------------------------------------------------------
(* Rooms that are stored *)

(* A task that will insert the room, or look whether there is a place for  *)
(* it on behalf of a restart.                                              *)
Expected(r) == \E t \in Tasks : /\ id[t] = r
                                /\ \/ pc[t] \notin {"idle", "check"}
                                   \/ t = Boot /\ pc[t] = "check"
Full == Cardinality(Listed) >= MaxRooms

(* What the directory holds is still to be looked at, expected, listed, or *)
(* there is no place for it, or it was not read or was abandoned.          *)
Remembered(r) ==
  persistent /\ r \in Stored \ todo /\ Whole(OnDisk(r)) =>
    Expected(r) \/ r \in Listed \/ Full \/ r \in unread \/ r \in abandoned

LEMMA MoreRooms == ASSUME Listed \subseteq Listed', Full PROVE Full'
<1>1. Listed \in SUBSET Ids /\ Listed' \in SUBSET Ids
  BY DEF Listed
<1> QED BY <1>1, Finite, RegistryAssumption DEF Full

LEMMA RememberedQuiet ==
  ASSUME NEW r \in Ids, Remembered(r), SameFiles(r), persistent' = persistent,
         r \in todo => r \in todo', Listed \subseteq Listed', Expected(r) => Expected(r)',
         r \in unread => r \in unread', r \in abandoned => r \in abandoned'
  PROVE  Remembered(r)'
<1>1. (r \in Stored)' => r \in Stored /\ OnDisk(r)' = OnDisk(r)
  BY BothNames DEF SameFiles, Stored, OnDisk
<1>2. Whole(OnDisk(r))' /\ (r \in Stored)' => Whole(OnDisk(r))
  BY <1>1 DEF Whole
<1>3. Full => Full'
  BY MoreRooms
<1> QED BY <1>1, <1>2, <1>3 DEF Remembered

LEMMA RememberedStep ==
  ASSUME Shape, Apart, [RegistryNext]_vars, NEW r \in Ids, Remembered(r)
  PROVE  Remembered(r)'
<1>1. ASSUME NEW t \in Requests, NEW s \in Ids, NEW d \in Definitions, Ask(t, s, d) PROVE Remembered(r)'
  <2>1. /\ UNCHANGED <<persistent, todo, rooms, names, text, abandoned, unread>> /\ pc[t] = "idle"
        /\ \A u \in Tasks : u # t => pc'[u] = pc[u] /\ id'[u] = id[u]
    BY <1>1 DEF Ask, disk, history, Shape
  <2>2. SameFiles(r) /\ Listed' = Listed
    BY <2>1 DEF SameFiles, Listed
  <2>3. Expected(r) => Expected(r)'
    BY <2>1 DEF Expected
  <2> QED BY <2>1, <2>2, <2>3, RememberedQuiet
<1>2. ASSUME NEW t \in Tasks, CheckCapacity(t) PROVE Remembered(r)'
  <2>1. UNCHANGED <<persistent, todo, rooms, names, text, abandoned, unread>> /\ pc[t] = "check"
    BY <1>2 DEF CheckCapacity, disk, history
  <2>2. SameFiles(r) /\ Listed' = Listed
    BY <2>1 DEF SameFiles, Listed
  <2>3. CASE HasRoom
    <3>1. id' = id /\ pc' = [pc EXCEPT ![t] = IF persistent THEN "create" ELSE "insert"]
      BY <1>2, <2>3 DEF CheckCapacity
    <3>2. Expected(r) => Expected(r)'
      BY <2>1, <3>1 DEF Expected, Shape
    <3> QED BY <2>1, <2>2, <3>2, RememberedQuiet
  <2>4. CASE ~HasRoom
    <3>1. Listed \in SUBSET Ids
      BY DEF Listed
    <3>2. Full
      BY <2>4, <3>1, Finite, RegistryAssumption DEF HasRoom, Full
    <3> QED BY <2>2, <3>2, MoreRooms DEF Remembered
  <2> QED BY <2>3, <2>4
<1>3. ASSUME NEW t \in Tasks, InsertRoom(t) PROVE Remembered(r)'
  <2>1. /\ UNCHANGED <<persistent, todo, names, text, unread>> /\ pc[t] = "insert"
        /\ abandoned' = abandoned \ {id[t]}
        /\ rooms' = [rooms EXCEPT ![id[t]] = def[t]] /\ id[t] \in Ids /\ def[t] \in Definitions
        /\ \A u \in Tasks : u # t => pc'[u] = pc[u] /\ id'[u] = id[u]
    BY <1>3 DEF InsertRoom, Finish, disk, Shape
  <2>2. def[t] # NoDefinition
    BY <2>1, RegistryAssumption DEF NoDefinition
  <2>3. Listed' = Listed \union {id[t]}
    BY <2>1, <2>2 DEF Listed, Shape
  <2>4. CASE r = id[t]
    BY <2>3, <2>4 DEF Remembered
  <2>5. CASE r # id[t]
    <3>1. SameFiles(r)
      BY <2>1 DEF SameFiles
    <3>2. Expected(r) => Expected(r)'
      BY <2>1, <2>5 DEF Expected
    <3> QED BY <2>1, <2>3, <2>5, <3>1, <3>2, RememberedQuiet
  <2> QED BY <2>4, <2>5
<1>4. ASSUME NEW t \in Tasks, CreateTemporary(t) \/ WriteTemporary(t) \/ RenameTemporary(t) \/ SaveFails(t)
      PROVE  Remembered(r)'
  <2>1. /\ UNCHANGED <<persistent, todo, rooms, id, abandoned, unread>> /\ pc'[t] \notin {"idle", "check"}
        /\ \A u \in Tasks : u # t => pc'[u] = pc[u]
    BY <1>4 DEF CreateTemporary, WriteTemporary, RenameTemporary, SaveFails, Shape, history
  <2>2. CASE r = id[t]
    <3>1. Expected(r)'
      BY <2>1, <2>2 DEF Expected
    <3> QED BY <3>1 DEF Remembered
  <2>3. CASE r # id[t]
    <3>1. SameFiles(r)
      BY <1>4, <2>3, OtherFiles
    <3>2. Listed' = Listed
      BY <2>1 DEF Listed
    <3>3. Expected(r) => Expected(r)'
      BY <2>1, <2>3 DEF Expected
    <3> QED BY <2>1, <3>1, <3>2, <3>3, RememberedQuiet
  <2> QED BY <2>2, <2>3
<1>5. ASSUME NEW s \in Ids, LoadRoom(s) PROVE Remembered(r)'
  <2>1. /\ UNCHANGED <<persistent, rooms, names, text, abandoned, unread>> /\ pc[Boot] = "idle" /\ todo' = todo \ {s}
        /\ \A u \in Tasks : u # Boot => pc'[u] = pc[u] /\ id'[u] = id[u]
    BY <1>5 DEF LoadRoom, disk, history, Shape
  <2>2. SameFiles(r) /\ Listed' = Listed
    BY <2>1 DEF SameFiles, Listed
  <2>3. CASE r # s
    <3>1. Expected(r) => Expected(r)'
      BY <2>1 DEF Expected
    <3> QED BY <2>1, <2>2, <2>3, <3>1, RememberedQuiet
  <2>4. CASE r = s
    <3>1. CASE Whole(OnDisk(r))
      <4>1. Boot \in Tasks /\ pc'[Boot] = "check" /\ id'[Boot] = r
        BY <1>5, <2>4, <3>1 DEF LoadRoom, Tasks, Shape
      <4>2. Expected(r)'
        BY <4>1 DEF Expected
      <4> QED BY <4>2 DEF Remembered
    <3>2. CASE ~Whole(OnDisk(r))
      <4>1. ~Whole(OnDisk(r))'
        BY <2>1, <3>2 DEF Whole, OnDisk
      <4> QED BY <4>1 DEF Remembered
    <3> QED BY <3>1, <3>2
  <2> QED BY <2>3, <2>4
<1>6. CASE StartServing \/ UNCHANGED vars
  <2>1. UNCHANGED <<persistent, todo, rooms, names, text, pc, id, abandoned, unread>>
    BY <1>6 DEF StartServing, vars, disk, history, task
  <2>2. SameFiles(r) /\ Listed' = Listed /\ (Expected(r) => Expected(r)')
    BY <2>1 DEF SameFiles, Listed, Expected
  <2> QED BY <2>1, <2>2, RememberedQuiet
<1>7. CASE Restart
  <2>1. (r \in Stored)' => (r \in todo)' \/ (r \in unread)'
    BY <1>7 DEF Restart, Stored, disk
  <2> QED BY <2>1 DEF Remembered
<1>8. ASSUME NEW t \in Tasks, Cancel(t) PROVE Remembered(r)'
  <2>1. /\ UNCHANGED <<persistent, todo, rooms, names, text, unread>> /\ t # Boot
        /\ pc[t] \in {"check", "insert"}
        /\ abandoned' = IF pc[t] = "insert" THEN abandoned \union {id[t]} ELSE abandoned
        /\ \A u \in Tasks : u # t => pc'[u] = pc[u] /\ id'[u] = id[u]
    BY <1>8, RegistryAssumption DEF Cancel, Finish, disk, Shape
  <2>2. SameFiles(r) /\ Listed' = Listed
    BY <2>1 DEF SameFiles, Listed
  <2>3. CASE pc[t] = "insert" /\ r = id[t]
    BY <2>1, <2>3 DEF Remembered
  <2>4. CASE pc[t] = "check" \/ r # id[t]
    <3>1. Expected(r) => Expected(r)'
      BY <2>1, <2>4 DEF Expected
    <3> QED BY <2>1, <2>2, <3>1, RememberedQuiet
  <2> QED BY <2>1, <2>3, <2>4
<1>9. ASSUME NEW s \in Ids, LoadFails(s) PROVE Remembered(r)'
  <2>1. /\ UNCHANGED <<persistent, rooms, names, text, pc, id, abandoned>>
        /\ todo' = todo \ {s} /\ unread' = unread \union {s}
    BY <1>9 DEF LoadFails, disk, task
  <2>2. SameFiles(r) /\ Listed' = Listed /\ (Expected(r) => Expected(r)')
    BY <2>1 DEF SameFiles, Listed, Expected
  <2>3. CASE r = s
    BY <2>1, <2>3 DEF Remembered
  <2>4. CASE r # s
    BY <2>1, <2>2, <2>4, RememberedQuiet
  <2> QED BY <2>3, <2>4
<1> QED BY <1>1, <1>2, <1>3, <1>4, <1>5, <1>6, <1>7, <1>8, <1>9 DEF RegistryNext, CreateRoom

-----------------------------------------------------------------------------
(* The invariant *)

RegistryInv ==
  /\ Shape /\ Apart /\ Counted
  /\ \A r \in Ids \ disturbed : Saved(r)
  /\ \A r \in Ids : Remembered(r)

LEMMA RegistryStart == RegistryInit => RegistryInv
<1> SUFFICES ASSUME RegistryInit PROVE RegistryInv
  OBVIOUS
<1>1. Shape
  BY ShapeInit
<1>2. Stored = {} /\ Listed = {} /\ Past = {} /\ \A r \in Ids : Busy(r) = {} /\ Inserting(r) = {}
  BY BothNames DEF RegistryInit, Idle, Stored, Listed, Past, Busy, Inserting
<1>3. Apart
  BY BothNames DEF RegistryInit, Apart
<1>4. Counted
  BY <1>2, Finite, FS_EmptySet, RegistryAssumption DEF Counted
<1> QED BY <1>1, <1>2, <1>3, <1>4 DEF RegistryInv, Saved, Remembered

LEMMA RegistryStep == RegistryInv /\ [RegistryNext]_vars => RegistryInv'
<1> SUFFICES ASSUME RegistryInv, [RegistryNext]_vars PROVE RegistryInv'
  OBVIOUS
<1>1. Shape' /\ Apart' /\ Counted'
  BY ShapeStep, ApartStep, CountedStep DEF RegistryInv
<1>2. disturbed \subseteq disturbed'
  BY DEF RegistryNext, Ask, CreateRoom, CheckCapacity, CreateTemporary, WriteTemporary,
         RenameTemporary, SaveFails, InsertRoom, Cancel, LoadRoom, LoadFails, StartServing, Restart,
         vars, history
<1>3. \A r \in Ids \ disturbed' : Saved(r)'
  BY <1>2, SavedStep DEF RegistryInv
<1>4. \A r \in Ids : Remembered(r)'
  BY RememberedStep DEF RegistryInv
<1> QED BY <1>1, <1>3, <1>4 DEF RegistryInv

LEMMA RegistryInvariant == RegistrySpec => []RegistryInv
BY RegistryStart, RegistryStep, PTL DEF RegistrySpec

-----------------------------------------------------------------------------
(* The theorems *)

(* Types: who writes has a file, Boot works only before the server         *)
(* answers and requests only after.                                        *)
THEOREM RegistryTypeCorrect == RegistrySpec => []RegistryTypeOK
<1>1. RegistryInv => RegistryTypeOK
  BY RegistryAssumption DEF RegistryInv, Shape, RegistryTypeOK
<1> QED BY <1>1, RegistryInvariant, PTL

(* The rooms listed pass MAX_ROOMS by at most one for each request in      *)
(* progress beyond the first, whatever the crashes (room.rs:208).          *)
THEOREM OverrunIsBounded == RegistrySpec => []OverrunBounded
<1>1. RegistryInv => OverrunBounded
  <2> SUFFICES ASSUME RegistryInv PROVE OverrunBounded
    OBVIOUS
  <2>1. Past \in SUBSET Tasks /\ Listed \in SUBSET Ids
    BY DEF Past, Listed
  <2>2. Cardinality(Past) \in Nat /\ Cardinality(Listed) \in Nat
    BY <2>1, Finite
  <2> QED BY <2>2, Finite, RegistryAssumption DEF RegistryInv, Counted, OverrunBounded
<1> QED BY <1>1, RegistryInvariant, PTL

(* A room that players find and its definition on disk agree, through any  *)
(* crash, unless requests for it overlapped, a call of a save failed       *)
(* (store.rs:92), or the last request that saved it was dropped before it  *)
(* could insert it (room.rs:251).                                          *)
THEOREM DiskAndRoomsAgree == RegistrySpec => []DiskAgrees
<1>1. RegistryInv => DiskAgrees
  <2> SUFFICES ASSUME RegistryInv, NEW r \in Ids \ disturbed
               PROVE  /\ r \in Stored => Whole(OnDisk(r))
                      /\ persistent /\ Creating(r) = {} /\ r \in Listed \ abandoned =>
                           r \in Stored /\ OnDisk(r) = TextOf(rooms[r])
    BY DEF DiskAgrees
  <2>1. Creating(r) = {} => Inserting(r) = {}
    BY DEF Creating, Inserting
  <2> QED BY <2>1 DEF RegistryInv, Saved
<1> QED BY <1>1, RegistryInvariant, PTL

(* When the server answers, every whole definition in the directory has    *)
(* its room (room.rs:127), unless the registry is full, the last start     *)
(* could not list or read it (main.rs:60, room.rs:134), or the request     *)
(* that saved it was dropped before it could insert it (room.rs:251).      *)
THEOREM RoomsAreRemembered == RegistrySpec => []NothingForgotten
<1>1. RegistryInv => NothingForgotten
  <2> SUFFICES ASSUME RegistryInv, mode = "serving", NEW r \in Stored \ (unread \union abandoned),
                      persistent, Whole(OnDisk(r)), Creating(r) = {}
               PROVE  r \in Listed \/ Cardinality(Listed) >= MaxRooms
    BY DEF NothingForgotten
  <2>1. r \in Ids /\ todo = {}
    BY DEF Stored, RegistryInv, Shape
  <2>2. Boot \in Tasks /\ pc[Boot] = "idle"
    BY DEF Tasks, RegistryInv, Shape
  <2>3. ~Expected(r)
    BY <2>2 DEF Expected, Creating
  <2> QED BY <2>1, <2>3 DEF RegistryInv, Remembered, Full
<1> QED BY <1>1, RegistryInvariant, PTL
=============================================================================
