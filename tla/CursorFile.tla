------------------------------ MODULE CursorFile ------------------------------
(***************************************************************************)
(* CursorStore over FileCursorPersist (cursor/mod.rs): every change reads  *)
(* the whole file, changes one session and replaces the file through a     *)
(* temporary sibling.  Each transport has a store of its own on the same   *)
(* path, and a replaced transport may still be writing.  The machine may   *)
(* lose power between any two system calls.                                *)
(*                                                                         *)
(* The file system is modelled by the file a reader sees and the set of    *)
(* contents a power loss could leave: a rename is only certain once the    *)
(* directory is synced, and a file that was not synced may hold garbage.   *)
(***************************************************************************)
EXTENDS Naturals, FiniteSets

CONSTANTS
  Session, Store,
  Garbage,          \* what an unreadable file holds
  MaxSeq,           \* bound: cursors are 1..MaxSeq, 0 stands for none
  ReadMayFail,      \* may reading an existing file fail?
  DirSyncMayFail    \* may the directory refuse to be synced (or is there no sync)?

ASSUME CursorFileAssumption ==
  /\ Session # {} /\ Store # {} /\ MaxSeq \in Nat \ {0}
  /\ Garbage \notin [Session -> 0..MaxSeq]
  /\ ReadMayFail \in BOOLEAN /\ DirSyncMayFail \in BOOLEAN

VARIABLES
  file,     \* what a reader of the path sees
  maybe,    \* what a power loss could leave at the path
  pc,       \* per store, the system call it makes next
  tmp,      \* per store, its temporary file
  job,      \* per store, the change it is making
  mem,      \* per store, the cursors in memory
  acked     \* history: per session, the last change that a call reported done

vars == <<file, maybe, pc, tmp, job, mem, acked>>

CursorsOf == [Session -> 0..MaxSeq]
NoCursors == [s \in Session |-> 0]
Content == CursorsOf \cup {Garbage}

Job == [s : Session, v : 0..MaxSeq, map : CursorsOf]
Writing == {"create", "write", "sync", "rename", "dirsync"}

TypeOK ==
  /\ file \in Content /\ maybe \subseteq Content
  /\ pc \in [Store -> {"closed", "idle"} \cup Writing]
  /\ tmp \in [Store -> {"none", "empty", "written", "synced"}]
  /\ job \in [Store -> Job]
  /\ mem \in [Store -> CursorsOf]
  /\ acked \in CursorsOf

(* read_map never fails: an unreadable file counts as an empty one. *)
Readable(content) == IF content = Garbage THEN NoCursors ELSE content
ReadMap == {Readable(file)} \cup IF ReadMayFail THEN {NoCursors} ELSE {}

NoJob == [s |-> CHOOSE s \in Session : TRUE, v |-> 0, map |-> NoCursors]

Init ==
  /\ file \in Content
  /\ maybe = {file}
  /\ pc = [w \in Store |-> "closed"]
  /\ tmp = [w \in Store |-> "none"]
  /\ job = [w \in Store |-> NoJob]
  /\ mem = [w \in Store |-> NoCursors]
  /\ acked = Readable(file)

(* new_persisted *)
Open(w) ==
  /\ pc[w] = "closed"
  /\ pc' = [pc EXCEPT ![w] = "idle"]
  /\ \E m \in ReadMap : mem' = [mem EXCEPT ![w] = m]
  /\ UNCHANGED <<file, maybe, tmp, job, acked>>

(* Mutant of Begin: the map comes from memory.                             *)
BeginFromMemory(w, s, v) ==
  /\ pc[w] = "idle"
  /\ job' = [job EXCEPT ![w] = [s |-> s, v |-> v, map |-> [mem[w] EXCEPT ![s] = v]]]
  /\ pc' = [pc EXCEPT ![w] = "create"]
  /\ UNCHANGED <<file, maybe, tmp, mem, acked>>

(* save and forget: the map is read back from the file, not from memory.   *)
Begin(w, s, v) ==
  /\ pc[w] = "idle"
  /\ \E m \in ReadMap :
       job' = [job EXCEPT ![w] = [s |-> s, v |-> v, map |-> [m EXCEPT ![s] = v]]]
  /\ pc' = [pc EXCEPT ![w] = "create"]
  /\ UNCHANGED <<file, maybe, tmp, mem, acked>>

(* A durable notification moves the cursor of its session forward. *)
Set(w) == \E s \in Session :
  mem[w][s] < MaxSeq /\ Begin(w, s, mem[w][s] + 1)
Forget(w) == \E s \in Session : Begin(w, s, 0)

(* write_map: one action for each system call. *)
TmpStep(w, from, made, to) ==
  /\ pc[w] = from
  /\ tmp' = [tmp EXCEPT ![w] = made] /\ pc' = [pc EXCEPT ![w] = to]
  /\ UNCHANGED <<file, maybe, job, mem, acked>>

Create(w) == TmpStep(w, "create", "empty", "write")

(* Mutant of Write: the temporary file is not synced before the rename. *)
WriteWithoutSync(w) == TmpStep(w, "write", "written", "rename")
Write(w)  == TmpStep(w, "write", "written", "sync")
Sync(w)   == TmpStep(w, "sync", "synced", "rename")

Rename(w) ==
  /\ pc[w] = "rename"
  /\ file' = job[w].map
  /\ maybe' = maybe \cup {job[w].map}
                    \cup IF tmp[w] = "synced" THEN {} ELSE {Garbage}
  /\ tmp' = [tmp EXCEPT ![w] = "none"]
  /\ pc' = [pc EXCEPT ![w] = "dirsync"]
  /\ UNCHANGED <<job, mem, acked>>

(* Mutant of Return: memory holds the next sequence number. *)
ReturnNext(w) ==
  /\ pc' = [pc EXCEPT ![w] = "idle"]
  /\ mem' = [mem EXCEPT ![w] = [@ EXCEPT ![job[w].s] = job[w].v + 1]]
  /\ job' = [job EXCEPT ![w] = NoJob]
  /\ UNCHANGED <<file>>

(* The call returns and the cursor in memory moves, done or not. *)
Return(w) ==
  /\ pc' = [pc EXCEPT ![w] = "idle"]
  /\ mem' = [mem EXCEPT ![w] = [@ EXCEPT ![job[w].s] = job[w].v]]
  /\ job' = [job EXCEPT ![w] = NoJob]
  /\ UNCHANGED <<file>>

(* fsync_parent_dir is best effort, and does nothing off Unix. *)
Synced == {{file}} \cup IF DirSyncMayFail THEN {maybe} ELSE {}

(* Mutant of DirSync: the call returns without it. *)
DirSyncSkipped(w) ==
  /\ pc[w] = "dirsync"
  /\ acked' = [acked EXCEPT ![job[w].s] = job[w].v]
  /\ Return(w) /\ UNCHANGED <<maybe, tmp>>

DirSync(w) ==
  /\ pc[w] = "dirsync"
  /\ maybe' \in Synced
  /\ acked' = [acked EXCEPT ![job[w].s] = job[w].v]
  /\ Return(w) /\ UNCHANGED tmp

(* A system call fails: the temporary file is removed, the change is lost. *)
Fail(w) ==
  /\ pc[w] \in {"create", "write", "sync", "rename"}
  /\ tmp' = [tmp EXCEPT ![w] = "none"]
  /\ Return(w) /\ UNCHANGED <<maybe, acked>>

Crash ==
  /\ \E left \in maybe : /\ file' = left /\ maybe' = {left}
                         /\ acked' = Readable(left)
  /\ pc' = [w \in Store |-> "closed"]
  /\ tmp' = [w \in Store |-> "none"]
  /\ job' = [w \in Store |-> NoJob]
  /\ mem' = [w \in Store |-> NoCursors]

Step(w) == \/ Open(w) \/ Set(w) \/ Forget(w)
           \/ Create(w) \/ Write(w) \/ Sync(w) \/ Rename(w) \/ DirSync(w)
           \/ Fail(w)

Next == (\E w \in Store : Step(w)) \/ Crash

Spec == Init /\ [][Next]_vars

-----------------------------------------------------------------------------
(* Properties *)

(* No step tears a file that was whole: neither a reader nor a power loss  *)
(* finds garbage, however many stores write at once (cursor/mod.rs         *)
(* 118-123).                                                               *)
Whole == Garbage \notin maybe \cup {file}
NeverTorn == [][Whole => Whole']_vars

(* Why it holds: what is renamed has been synced. *)
RenamesSynced == \A w \in Store : pc[w] = "rename" => tmp[w] = "synced"

(* A power loss keeps every change that a call reported done; only the     *)
(* change being made may or may not be there (cursor/mod.rs 308-309).      *)
Survivor(m) == \/ m = acked
               \/ \E w \in Store : /\ pc[w] \in Writing
                                   /\ m = [acked EXCEPT ![job[w].s] = job[w].v]
AckedSurvivesCrash == \A m \in maybe : Survivor(Readable(m))

(* One store writes, it can read what it wrote, and the directory syncs. *)
Dependable == /\ \E w \in Store : Store = {w}
              /\ ~ReadMayFail /\ ~DirSyncMayFail

(* Why it holds for one store: the path changes only at the rename, and    *)
(* the rename is certain before the call returns.                          *)
OneWriter ==
  \A w \in Store :
    /\ pc[w] # "dirsync" => maybe = {file} /\ Readable(file) = acked
    /\ pc[w] \in Writing =>
         job[w].map = [acked EXCEPT ![job[w].s] = job[w].v]
    /\ pc[w] = "dirsync" =>
         /\ file = job[w].map
         /\ \A m \in maybe : Readable(m) \in {acked, job[w].map}

(* Between calls the file holds what the calls reported, so a new store    *)
(* starts from there (cursor/mod.rs 47-48).                                *)
FileIsAcked ==
  (\A w \in Store : pc[w] \notin Writing) => Readable(file) = acked

(* The store implements the abstract map: what is stored is what the calls *)
(* reported, and the change being made is in doubt (cursor/mod.rs 60-79).  *)
InDoubt == {[s |-> job[w].s, v |-> job[w].v] :
              w \in {x \in Store : pc[x] \in Writing}}
Abstract == INSTANCE CursorMap WITH stored <- acked, doubt <- InDoubt
ImplementsCursorMap == Abstract!Spec
=============================================================================
