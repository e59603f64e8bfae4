----------------------------- MODULE Checkpoint -----------------------------
(* The checkpoint store and the file tools it protects: before a tool         *)
(* changes a file the dispatcher snapshots its content, a user can restore    *)
(* any snapshot, and a janitor removes rows past retention together with the  *)
(* spill files no row refers to. Contents too large for the database are kept *)
(* in the spill directory, under their hash; nothing locks that directory.    *)
(* A content stands for its own hash. One epoch is one retention period.      *)
EXTENDS Integers

CONSTANTS Editors,   \* goroutines that run tool calls
          Paths,     \* the files
          Contents,  \* what a file can hold
          Large,     \* contents that spill (over 1 MiB)
          Huge,      \* contents that are not preserved at all (over 64 MiB)
          Absent,    \* no such file
          MaxCalls,  \* bound: tool calls begun
          MaxEpoch   \* bound: retention periods that pass

ASSUME CheckpointAssumption ==
  /\ Large \subseteq Contents /\ Huge \subseteq Contents \ Large
  /\ Absent \notin Contents \cup Paths /\ MaxCalls \in Nat /\ MaxEpoch \in Nat

VARIABLES disk,     \* the files the tools work on
          rows,     \* table checkpoints
          begun,    \* tool calls begun
          spill,    \* the spill files by hash
          tmp,      \* the files <hash>.tmp
          edit,     \* per goroutine: the tool call it is in
          janitor,  \* where the purge stands
          epoch,    \* the present retention period
          torn      \* history: contents two snapshots were writing to one .tmp

ckvars == <<disk, rows, begun, spill, tmp, edit, janitor, epoch, torn>>

State == Contents \cup {Absent}
File == {"none", "part", "full"}
CkPC == {"idle", "source", "look", "dedup", "stat", "create", "fill", "rename",
         "insert", "execute"}
\* quiet, changed and purged are history: no purge ran since the snapshot looked
\* for the spill file; another call wrote the path, or rows were deleted, since
\* the snapshot read the file
CkRow == [id : 1..MaxCalls, path : Paths, pre : State, born : 0..MaxEpoch, quiet : BOOLEAN]
CkCall == [pc : CkPC, path : Paths \cup {Absent}, to : State, pre : State,
           fd : {"none", "tmp", "spill", "gone"},
           quiet : BOOLEAN, changed : BOOLEAN, purged : BOOLEAN]
Nobody == [pc |-> "idle", path |-> Absent, to |-> Absent,
           pre |-> Absent, fd |-> "none",
           quiet |-> TRUE, changed |-> FALSE, purged |-> FALSE]
Resting == [pc |-> "idle", seen |-> {}, gone |-> {}]

CkInit == /\ disk \in [Paths -> State] /\ rows = {} /\ begun = 0
          /\ spill = [h \in Large |-> "none"] /\ tmp = [h \in Large |-> "none"]
          /\ edit = [c \in Editors |-> Nobody]
          /\ janitor = Resting /\ epoch = 0 /\ torn = {}

Snapped == CkPC \ {"idle", "source", "look"}   \* past the read of the file
At(c, pc) == edit[c].pc = pc
Goto(c, pc) == edit' = [edit EXCEPT ![c].pc = pc]
Preserved(c) == edit' = [edit EXCEPT ![c].pc = "execute", ![c].pre = Absent, ![c].quiet = TRUE]
Leave(c) == edit' = [edit EXCEPT ![c] = Nobody]
NewestIn(S) == { r.pre : r \in { q \in S : \A o \in S : o.id <= q.id } }
\* Mutant: a row of another path will do.
NewestOfAny(p) == NewestIn(rows)

Newest(p) == NewestIn({ r \in rows : r.path = p })

-----------------------------------------------------------------------------
(* Tool calls *)

\* file.write and file.edit: the new content is known, the snapshot comes first
WriteCall(c) ==
  /\ At(c, "idle")
  /\ \E p \in Paths, x \in Contents :
       edit' = [edit EXCEPT ![c] = [Nobody EXCEPT !.pc = "look", !.path = p, !.to = x]]
  /\ begun < MaxCalls /\ begun' = begun + 1
  /\ UNCHANGED <<disk, rows, spill, tmp, janitor, epoch, torn>>

\* Restore reads the row; a content that is not in it has to be read from its file
RestoreCall(c) ==
  /\ At(c, "idle")
  /\ \E r \in rows :
       /\ r.pre \notin Huge
       /\ edit' = [edit EXCEPT ![c] =
            [Nobody EXCEPT !.pc = IF r.pre \in Large THEN "source" ELSE "look",
                           !.path = r.path, !.to = r.pre]]
  /\ begun < MaxCalls /\ begun' = begun + 1
  /\ UNCHANGED <<disk, rows, spill, tmp, janitor, epoch, torn>>

\* missing or failing its integrity check: the restore gives up
ReadSpill(c) ==
  /\ At(c, "source")
  /\ IF spill[edit[c].to] = "full" THEN Goto(c, "look") ELSE Leave(c)
  /\ UNCHANGED <<disk, rows, begun, spill, tmp, janitor, epoch, torn>>

\* Snapshot: the file as it is. No file and a huge file are recorded at once
Look(c) ==
  /\ At(c, "look")
  /\ LET x == disk[edit[c].path] IN
     edit' = [edit EXCEPT ![c].pre = x, ![c].changed = FALSE, ![c].purged = FALSE,
                          ![c].pc = IF x \in Huge \cup {Absent} THEN "insert" ELSE "dedup"]
  /\ UNCHANGED <<disk, rows, begun, spill, tmp, janitor, epoch, torn>>

\* the newest row of the path already holds this content
Dedup(c) ==
  /\ At(c, "dedup")
  /\ \/ edit[c].pre \in Newest(edit[c].path) /\ Preserved(c)
     \/ /\ edit[c].pre \notin Newest(edit[c].path)
        /\ Goto(c, IF edit[c].pre \in Large THEN "stat" ELSE "insert")
  /\ UNCHANGED <<disk, rows, begun, spill, tmp, janitor, epoch, torn>>

StatSpill(c) ==
  /\ At(c, "stat")
  /\ edit' = [edit EXCEPT ![c].pc = IF spill[edit[c].pre] = "none" THEN "create" ELSE "insert",
                          ![c].quiet = janitor.pc = "idle"]
  /\ UNCHANGED <<disk, rows, begun, spill, tmp, janitor, epoch, torn>>

\* WriteFile opens <hash>.tmp and truncates it, whoever else has it open ...
CreateTmp(c) ==
  LET h == edit[c].pre IN
  /\ At(c, "create")
  /\ tmp' = [tmp EXCEPT ![h] = "part"]
  /\ torn' = IF \E d \in Editors : edit[d].pc \in {"fill", "rename"} /\ edit[d].pre = h
             THEN torn \cup {h} ELSE torn
  /\ edit' = [edit EXCEPT ![c].pc = "fill", ![c].fd = "tmp"]
  /\ UNCHANGED <<disk, rows, begun, spill, janitor, epoch>>

\* ... and writes into that file, which may have been renamed or removed since
FillTmp(c) ==
  LET h == edit[c].pre IN
  /\ At(c, "fill")
  /\ tmp' = IF edit[c].fd = "tmp" THEN [tmp EXCEPT ![h] = "full"] ELSE tmp
  /\ spill' = IF edit[c].fd = "spill" THEN [spill EXCEPT ![h] = "full"] ELSE spill
  /\ edit' = [edit EXCEPT ![c].pc = "rename", ![c].fd = "none"]
  /\ UNCHANGED <<disk, rows, begun, janitor, epoch, torn>>

\* what happens to the file descriptors of others when h.tmp or h goes away
Moved(h, tmpTo, spillTo) ==
  [d \in Editors |->
     IF edit[d].pre # h \/ edit[d].pc # "fill" THEN edit[d]
     ELSE [edit[d] EXCEPT !.fd = CASE edit[d].fd = "tmp" -> tmpTo
                                   [] edit[d].fd = "spill" -> spillTo
                                   [] OTHER -> edit[d].fd]]

RenameTmp(c) ==
  LET h == edit[c].pre IN
  /\ At(c, "rename")
  /\ IF tmp[h] = "none"
     THEN Leave(c) /\ UNCHANGED <<tmp, spill>>         \* fail closed: no mutation
     ELSE /\ spill' = [spill EXCEPT ![h] = tmp[h]]
          /\ tmp' = [tmp EXCEPT ![h] = "none"]
          /\ edit' = [Moved(h, "spill", "gone") EXCEPT ![c].pc = "insert"]
  /\ UNCHANGED <<disk, rows, begun, janitor, epoch, torn>>

\* INTEGER PRIMARY KEY: one more than the largest id in the table
NextId(i) == IF rows = {} THEN i = 1
             ELSE (\A r \in rows : r.id < i) /\ \E r \in rows : r.id = i - 1

InsertRow(c) ==
  /\ At(c, "insert")
  /\ \E i \in 1..MaxCalls :
       /\ NextId(i)
       /\ rows' = rows \cup {[id |-> i, path |-> edit[c].path, pre |-> edit[c].pre,
                              born |-> epoch, quiet |-> edit[c].quiet]}
  /\ Preserved(c)
  /\ UNCHANGED <<disk, begun, spill, tmp, janitor, epoch, torn>>

\* any read, write or statement of the snapshot fails: the tool is not executed
SnapshotFails(c) ==
  /\ edit[c].pc \notin {"idle", "execute"}
  /\ Leave(c)
  /\ UNCHANGED <<disk, rows, begun, spill, tmp, janitor, epoch, torn>>

\* the tool writes the file, or restore writes or removes it
Apply(c) ==
  LET p == edit[c].path IN
  /\ At(c, "execute")
  /\ disk' = [disk EXCEPT ![p] = edit[c].to]
  /\ edit' = [d \in Editors |->
       CASE d = c -> Nobody
         [] d # c /\ edit[d].path = p /\ edit[d].pc \in Snapped -> [edit[d] EXCEPT !.changed = TRUE]
         [] OTHER -> edit[d]]
  /\ UNCHANGED <<rows, begun, spill, tmp, janitor, epoch, torn>>

\* the tool fails after its snapshot, e.g. file.edit does not find its text
ApplyFails(c) ==
  /\ At(c, "execute") /\ Leave(c)
  /\ UNCHANGED <<disk, rows, begun, spill, tmp, janitor, epoch, torn>>

-----------------------------------------------------------------------------
(* Retention *)

\* DELETE of the rows past retention, then the directory is listed
Purge ==
  /\ janitor.pc = "idle"
  /\ rows' = { r \in rows : r.born = epoch }
  /\ janitor' = [ pc |-> "sweep",
                  seen |-> {<<"tmp", h>> : h \in {g \in Large : tmp[g] # "none"}}
                           \cup {<<"spill", h>> : h \in {g \in Large : spill[g] # "none"}},
                  gone |-> {} ]
  /\ edit' = [c \in Editors |->
       IF edit[c].pc \notin Snapped THEN edit[c]
       ELSE [edit[c] EXCEPT !.purged = TRUE,
                            !.quiet = edit[c].pc \notin {"create", "fill", "rename", "insert"}]]
  /\ UNCHANGED <<disk, begun, spill, tmp, epoch, torn>>

SweepTmp(h) ==
  /\ <<"tmp", h>> \in janitor.seen
  /\ tmp' = [tmp EXCEPT ![h] = "none"]
  /\ edit' = Moved(h, "gone", "spill")
  /\ janitor' = [janitor EXCEPT !.seen = @ \ {<<"tmp", h>>}]
  /\ UNCHANGED <<disk, rows, begun, spill, epoch, torn>>

\* Mutant: the row the file was written for is not counted.
ReferredTwice(h) == \E r, q \in rows : r # q /\ r.pre = h /\ q.pre = h

Referred(h) == \E r \in rows : r.pre = h

\* COUNT of the rows that refer to the file ...
SweepCount(h) ==
  /\ <<"spill", h>> \in janitor.seen /\ janitor.gone = {}
  /\ janitor' = [janitor EXCEPT !.seen = @ \ {<<"spill", h>>},
                   !.gone = IF Referred(h) THEN {} ELSE {h}]
  /\ UNCHANGED <<disk, rows, begun, spill, tmp, edit, epoch, torn>>

\* ... and its removal, if there were none
SweepRemove(h) ==
  /\ h \in janitor.gone
  /\ spill' = [spill EXCEPT ![h] = "none"]
  /\ edit' = Moved(h, "tmp", "gone")
  /\ janitor' = [janitor EXCEPT !.gone = {}]
  /\ UNCHANGED <<disk, rows, begun, tmp, epoch, torn>>

SweepDone ==
  /\ janitor.pc = "sweep" /\ janitor.seen = {} /\ janitor.gone = {}
  /\ janitor' = Resting
  /\ UNCHANGED <<disk, rows, begun, spill, tmp, edit, epoch, torn>>

TimePasses ==
  /\ epoch < MaxEpoch /\ epoch' = epoch + 1
  /\ UNCHANGED <<disk, rows, begun, spill, tmp, edit, janitor, torn>>

\* the process stops; files and rows stay, the next process starts with a purge
Crash ==
  /\ edit' = [c \in Editors |-> Nobody] /\ janitor' = Resting
  /\ UNCHANGED <<disk, rows, begun, spill, tmp, epoch, torn>>

CkCallNext(c) ==
  \/ WriteCall(c) \/ RestoreCall(c) \/ ReadSpill(c) \/ Look(c) \/ Dedup(c) \/ StatSpill(c)
  \/ CreateTmp(c) \/ FillTmp(c) \/ RenameTmp(c) \/ InsertRow(c) \/ SnapshotFails(c)
  \/ Apply(c) \/ ApplyFails(c)

Sweep == \E h \in Large : SweepTmp(h) \/ SweepCount(h) \/ SweepRemove(h)

CkNext == \/ \E c \in Editors : CkCallNext(c)
          \/ Purge \/ Sweep \/ SweepDone \/ TimePasses \/ Crash

CkSpec == CkInit /\ [][CkNext]_ckvars

-----------------------------------------------------------------------------
(* The type invariant: rows and calls are records of the store's kinds.       *)
CkTypeOK ==
  /\ disk \in [Paths -> State] /\ rows \subseteq CkRow /\ begun \in 0..MaxCalls
  /\ spill \in [Large -> File] /\ tmp \in [Large -> File]
  /\ edit \in [Editors -> CkCall] /\ epoch \in 0..MaxEpoch /\ torn \subseteq Large
  /\ janitor \in [pc : {"idle", "sweep"}, seen : SUBSET ({"tmp", "spill"} \X Large),
                  gone : SUBSET Large]

(* A row keeps its content: once a snapshot no purge ran into has recorded a  *)
(* spilled content, its file stays, whatever other snapshots, restores,       *)
(* purges and crashes do (rows of several paths share one file); and the file *)
(* is whole unless two snapshots wrote the same .tmp at once.                 *)
RowsHold ==
  \A r \in rows :
    r.pre \in Large /\ r.quiet =>
      /\ spill[r.pre] # "none"
      /\ r.pre \notin torn => spill[r.pre] = "full"

(* Whoever overwrites a file that no other call has written and of which no   *)
(* rows were deleted since the snapshot looked at it, overwrites what a row   *)
(* of that path records. (Not always the newest row: a slower snapshot may    *)
(* have recorded an older content after it.)                                  *)
RecordedUnlessRaced ==
  [][\A c \in Editors :
       Apply(c) /\ ~edit[c].changed /\ ~edit[c].purged
         => \E r \in rows : r.path = edit[c].path /\ r.pre = disk[edit[c].path]]_ckvars
=============================================================================
