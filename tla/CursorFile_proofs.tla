-------------------------- MODULE CursorFile_proofs --------------------------
(***************************************************************************)
(* What the cursor file guarantees for every set of sessions and every     *)
(* bound on the cursors; where one store writes, that it implements        *)
(* CursorMap.                                                              *)
(***************************************************************************)
EXTENDS CursorFile, TLAPS


(* Reading never fails and yields a map. *)
LEMMA ReadOK ==
  /\ NoCursors \in CursorsOf
  /\ \A c \in Content : Readable(c) \in CursorsOf
  /\ \A m \in CursorsOf : Readable(m) = m /\ m # Garbage
BY CursorFileAssumption DEF Readable, Content, CursorsOf, NoCursors

LEMMA NoJobOK == NoJob \in Job
BY CursorFileAssumption, ReadOK DEF NoJob, Job

(* Every variable keeps its type. *)
THEOREM TypeCorrect == Spec => []TypeOK
<1> USE CursorFileAssumption
<1>1. Init => TypeOK
  <2> SUFFICES ASSUME Init PROVE TypeOK
    OBVIOUS
  <2>1. file \in Content
    BY DEF Init, Content
  <2>2. acked \in CursorsOf
    BY <2>1, ReadOK DEF Init
  <2> QED BY <2>1, <2>2, ReadOK, NoJobOK DEF Init, TypeOK
<1>2. TypeOK /\ [Next]_vars => TypeOK'
  <2> SUFFICES ASSUME TypeOK, [Next]_vars PROVE TypeOK'
    OBVIOUS
  <2>0. ReadMap \subseteq CursorsOf
    BY ReadOK DEF ReadMap, TypeOK
  <2>1. ASSUME NEW w \in Store, Open(w) PROVE TypeOK'
    BY <2>0, <2>1 DEF Open, TypeOK
  <2>2. ASSUME NEW w \in Store, NEW s \in Session, NEW v \in 0..MaxSeq, Begin(w, s, v)
        PROVE  TypeOK'
    <3>1. PICK m \in ReadMap :
            job' = [job EXCEPT ![w] = [s |-> s, v |-> v, map |-> [m EXCEPT ![s] = v]]]
      BY <2>2 DEF Begin
    <3>2. [s |-> s, v |-> v, map |-> [m EXCEPT ![s] = v]] \in Job
      BY <2>0 DEF Job, CursorsOf
    <3> QED BY <2>2, <3>1, <3>2 DEF Begin, TypeOK, Writing
  <2>3. ASSUME NEW w \in Store, Set(w) \/ Forget(w) PROVE TypeOK'
    <3>1. \A s \in Session : mem[w][s] \in 0..MaxSeq
      BY DEF TypeOK, CursorsOf
    <3>2. \E s \in Session, v \in 0..MaxSeq : Begin(w, s, v)
      BY <2>3, <3>1 DEF Set, Forget
    <3> QED BY <2>2, <3>2
  <2>4. ASSUME NEW w \in Store, Create(w) \/ Write(w) \/ Sync(w) PROVE TypeOK'
    BY <2>4 DEF Create, Write, Sync, TmpStep, TypeOK, Writing
  <2>5. ASSUME NEW w \in Store, Rename(w) PROVE TypeOK'
    <3>1. job[w].map \in Content /\ Garbage \in Content
      BY DEF TypeOK, Job, Content
    <3> QED BY <2>5, <3>1 DEF Rename, TypeOK, Writing
  <2>6. ASSUME NEW w \in Store, Return(w)
        PROVE  /\ pc' \in [Store -> {"closed", "idle"} \cup Writing]
               /\ job' \in [Store -> Job] /\ mem' \in [Store -> CursorsOf]
               /\ file' = file
    <3>1. [mem[w] EXCEPT ![job[w].s] = job[w].v] \in CursorsOf
      BY DEF TypeOK, Job, CursorsOf
    <3> QED BY <2>6, <3>1, NoJobOK DEF Return, TypeOK
  <2>7. ASSUME NEW w \in Store, DirSync(w) PROVE TypeOK'
    <3>1. [acked EXCEPT ![job[w].s] = job[w].v] \in CursorsOf
      BY DEF TypeOK, Job, CursorsOf
    <3>2. acked' \in CursorsOf /\ maybe' \subseteq Content /\ tmp' = tmp /\ Return(w)
      BY <2>7, <3>1 DEF DirSync, Synced, TypeOK
    <3> QED BY <2>6, <3>2 DEF TypeOK
  <2>8. ASSUME NEW w \in Store, Fail(w) PROVE TypeOK'
    <3>1. tmp' \in [Store -> {"none", "empty", "written", "synced"}]
          /\ acked' = acked /\ maybe' = maybe /\ Return(w)
      BY <2>8 DEF Fail, TypeOK
    <3> QED BY <2>6, <3>1 DEF TypeOK
  <2>9. CASE Crash
    <3>1. file' \in Content /\ maybe' \subseteq Content /\ acked' \in CursorsOf
      BY <2>9, ReadOK DEF Crash, TypeOK
    <3> QED BY <2>9, <3>1, ReadOK, NoJobOK DEF Crash, TypeOK
  <2>10. CASE UNCHANGED vars
    BY <2>10 DEF vars, TypeOK
  <2> QED BY <2>1, <2>3, <2>4, <2>5, <2>7, <2>8, <2>9, <2>10 DEF Next, Step
<1> QED BY <1>1, <1>2, PTL DEF Spec

(* Only a synced temporary is renamed. *)
LEMMA SyncedFirst == Spec => []RenamesSynced
<1>1. Init => RenamesSynced
  BY DEF Init, RenamesSynced
<1>2. TypeOK /\ RenamesSynced /\ [Next]_vars => RenamesSynced'
  <2> SUFFICES ASSUME TypeOK, RenamesSynced, [Next]_vars
               PROVE  RenamesSynced'
    OBVIOUS
  <2>1. ASSUME NEW w \in Store, Step(w) PROVE RenamesSynced'
    BY <2>1 DEF Step, Open, Set, Forget, Begin, Create, Write, Sync, TmpStep,
                Rename, DirSync, Synced, Fail, Return, RenamesSynced, TypeOK
  <2>2. CASE Crash
    BY <2>2 DEF Crash, RenamesSynced
  <2>3. CASE UNCHANGED vars
    BY <2>3 DEF vars, RenamesSynced
  <2> QED BY <2>1, <2>2, <2>3 DEF Next
<1> QED BY <1>1, <1>2, TypeCorrect, PTL DEF Spec

(* For any number of stores writing at once, with failing reads and        *)
(* directory syncs: no step leaves a torn file to a reader or to a power   *)
(* loss, because only a synced temporary is renamed (cursor/mod.rs         *)
(* 118-123).                                                               *)
THEOREM NeverTornCorrect == Spec => NeverTorn
<1> USE CursorFileAssumption
<1>1. TypeOK /\ RenamesSynced /\ [Next]_vars => [Whole => Whole']_vars
  <2> SUFFICES ASSUME TypeOK, RenamesSynced, [Next]_vars, Whole
               PROVE  Whole'
    OBVIOUS
  <2>1. ASSUME NEW w \in Store, Rename(w) PROVE Whole'
    <3>1. job[w].map # Garbage
      BY ReadOK DEF TypeOK, Job
    <3>2. tmp[w] = "synced"
      BY <2>1 DEF Rename, RenamesSynced
    <3> QED BY <2>1, <3>1, <3>2 DEF Rename, Whole
  <2>2. ASSUME NEW w \in Store,
               \/ Open(w) \/ Set(w) \/ Forget(w) \/ Create(w) \/ Write(w) \/ Sync(w)
               \/ Fail(w) \/ DirSync(w)
        PROVE  Whole'
    BY <2>2 DEF Open, Set, Forget, Begin, Create, Write, Sync, TmpStep, Fail, Return,
                DirSync, Synced, Whole
  <2>3. CASE Crash
    BY <2>3 DEF Crash, Whole
  <2>4. CASE UNCHANGED vars
    BY <2>4 DEF vars, Whole
  <2> QED BY <2>1, <2>2, <2>3, <2>4 DEF Next, Step
<1> QED BY <1>1, SyncedFirst, TypeCorrect, PTL DEF Spec, NeverTorn

-----------------------------------------------------------------------------
(* Where one store writes, reads what it wrote and syncs the directory.    *)

(* What one store keeps true from call to call. *)
LEMMA OneWriterStep ==
  ASSUME CursorFileAssumption, Dependable, TypeOK, RenamesSynced, OneWriter,
         [Next]_vars
  PROVE  OneWriter'
<1>1. PICK w \in Store : Store = {w}
  BY DEF Dependable
<1>2. ReadMap = {Readable(file)}
  BY DEF ReadMap, Dependable
<1> DEFINE target == [acked EXCEPT ![job[w].s] = job[w].v]
<1>3. target \in CursorsOf /\ job[w].map \in CursorsOf /\ acked \in CursorsOf
  BY DEF TypeOK, Job, CursorsOf
<1>4. CASE Open(w)
  BY <1>1, <1>4 DEF Open, OneWriter, Writing, TypeOK
<1>5. CASE Set(w) \/ Forget(w)
  <2>1. PICK s, v : Begin(w, s, v)
    BY <1>5 DEF Set, Forget
  <2>2. job' = [job EXCEPT ![w] = [s |-> s, v |-> v, map |-> [acked EXCEPT ![s] = v]]]
    BY <1>2, <2>1 DEF Begin, OneWriter
  <2>3. job'[w].map = [acked EXCEPT ![job'[w].s] = job'[w].v]
    BY <2>2 DEF TypeOK
  <2> QED BY <1>1, <2>1, <2>3 DEF Begin, OneWriter, Writing, TypeOK
<1>6. CASE Create(w) \/ Write(w) \/ Sync(w)
  BY <1>1, <1>6 DEF Create, Write, Sync, TmpStep, OneWriter, Writing, TypeOK
<1>7. CASE Rename(w)
  <2>1. /\ file' = job[w].map /\ UNCHANGED <<job, acked>>
        /\ pc' = [pc EXCEPT ![w] = "dirsync"] /\ pc[w] = "rename"
        /\ tmp[w] = "synced"
    BY <1>7 DEF Rename, RenamesSynced
  <2>2. maybe' = {file, job[w].map} /\ Readable(file) = acked
    BY <1>7, <2>1 DEF Rename, OneWriter
  <2>3. Readable(job[w].map) = job[w].map
    BY <1>3, ReadOK
  <2> QED BY <1>1, <2>1, <2>2, <2>3 DEF OneWriter, Writing, TypeOK
<1>8. CASE DirSync(w)
  <2>1. /\ pc[w] = "dirsync" /\ maybe' = {file} /\ file' = file
        /\ acked' = target /\ pc' = [pc EXCEPT ![w] = "idle"]
    BY <1>8 DEF DirSync, Synced, Return, Dependable
  <2>2. file = target /\ Readable(target) = target
    BY <1>3, <2>1, ReadOK DEF OneWriter, Writing
  <2> QED BY <1>1, <2>1, <2>2 DEF OneWriter, Writing, TypeOK
<1>9. CASE Fail(w)
  <2>1. /\ pc[w] \in Writing \ {"dirsync"} /\ UNCHANGED <<file, maybe, acked>>
        /\ pc' = [pc EXCEPT ![w] = "idle"]
    BY <1>9 DEF Fail, Return, Writing
  <2> QED BY <1>1, <2>1 DEF OneWriter, Writing, TypeOK
<1>10. CASE Crash
  BY <1>10 DEF Crash, OneWriter, Writing
<1>11. CASE UNCHANGED vars
  BY <1>11 DEF vars, OneWriter
<1> QED BY <1>1, <1>4, <1>5, <1>6, <1>7, <1>8, <1>9, <1>10, <1>11 DEF Next, Step

(* What one store keeps true. *)
LEMMA OneWriterCorrect == ASSUME Dependable PROVE Spec => []OneWriter
<1> USE CursorFileAssumption
<1>1. Init => OneWriter
  BY DEF Init, OneWriter, Writing
<1>2. TypeOK /\ RenamesSynced /\ OneWriter /\ [Next]_vars => OneWriter'
  BY OneWriterStep
<1> QED BY <1>1, <1>2, TypeCorrect, SyncedFirst, PTL DEF Spec

(* For one store that can read back what it wrote, on a file system that   *)
(* syncs directories: whatever a power loss leaves at the path holds every *)
(* change a call reported done (cursor/mod.rs 117-123, 308-309).           *)
THEOREM AckedSurvives == ASSUME Dependable PROVE Spec => []AckedSurvivesCrash
<1> USE CursorFileAssumption
<1>1. TypeOK /\ OneWriter => AckedSurvivesCrash
  <2> SUFFICES ASSUME TypeOK, OneWriter, NEW m \in maybe PROVE Survivor(Readable(m))
    BY DEF AckedSurvivesCrash
  <2>1. PICK w \in Store : Store = {w}
    BY DEF Dependable
  <2>2. CASE pc[w] # "dirsync"
    BY <2>1, <2>2 DEF OneWriter, Survivor
  <2>3. CASE pc[w] = "dirsync"
    <3>1. Readable(m) \in {acked, job[w].map}
          /\ job[w].map = [acked EXCEPT ![job[w].s] = job[w].v]
      BY <2>1, <2>3 DEF OneWriter, Writing
    <3> QED BY <2>3, <3>1 DEF Survivor, Writing
  <2> QED BY <2>2, <2>3
<1> QED BY <1>1, TypeCorrect, OneWriterCorrect, PTL

(* For the same store: between calls the file holds exactly what the calls *)
(* reported, so the next process starts from there (cursor/mod.rs 47-48).  *)
THEOREM FileHoldsAcked == ASSUME Dependable PROVE Spec => []FileIsAcked
<1>1. OneWriter => FileIsAcked
  <2> SUFFICES ASSUME OneWriter, \A w \in Store : pc[w] \notin Writing
               PROVE  Readable(file) = acked
    BY DEF FileIsAcked
  <2>1. PICK w \in Store : Store = {w}
    BY DEF Dependable
  <2> QED BY <2>1 DEF OneWriter, Writing
<1> QED BY <1>1, OneWriterCorrect, PTL

(* For the same store: it implements CursorMap, an atomic map whose only   *)
(* uncertainty after a crash is the change that was being made             *)
(* (cursor/mod.rs 60-79).                                                  *)
THEOREM Implements == ASSUME Dependable PROVE Spec => ImplementsCursorMap
<1> USE CursorFileAssumption
<1>1. Init => Abstract!Init
  <2> SUFFICES ASSUME Init PROVE acked \in CursorsOf /\ InDoubt = {}
    BY DEF Abstract!Init, CursorsOf
  <2>1. file \in Content
    BY DEF Init, Content
  <2> QED BY <2>1, ReadOK DEF Init, InDoubt, Writing
<1>2. TypeOK /\ TypeOK' /\ RenamesSynced /\ OneWriter /\ OneWriter' /\ [Next]_vars
        => [Abstract!Next]_<<acked, InDoubt>>
  <2> SUFFICES ASSUME TypeOK, TypeOK', OneWriter, OneWriter', [Next]_vars
               PROVE  [Abstract!Next]_<<acked, InDoubt>>
    OBVIOUS
  <2>1. PICK w \in Store : Store = {w}
    BY DEF Dependable
  <2> DEFINE change == [s |-> job[w].s, v |-> job[w].v]
  <2>2. /\ pc[w] \in Writing => InDoubt = {change}
        /\ pc[w] \notin Writing => InDoubt = {}
    BY <2>1 DEF InDoubt
  <2>3. /\ pc'[w] \in Writing => InDoubt' = {[s |-> job'[w].s, v |-> job'[w].v]}
        /\ pc'[w] \notin Writing => InDoubt' = {}
    BY <2>1 DEF InDoubt
  <2>4. ASSUME pc[w] \in Writing, InDoubt' = {},
               acked' = [acked EXCEPT ![job[w].s] = job[w].v]
        PROVE  Abstract!Accept
    <3>1. change \in InDoubt /\ change.s = job[w].s /\ change.v = job[w].v
      BY <2>2, <2>4
    <3> HIDE DEF change
    <3>2. acked' = Abstract!Update(change)
      BY <2>4, <3>1 DEF Abstract!Update
    <3> QED BY <2>4, <3>1, <3>2 DEF Abstract!Accept
  <2>5. CASE Open(w) \/ Create(w) \/ Write(w) \/ Sync(w) \/ Rename(w)
    <3>1. UNCHANGED <<acked, job>> /\ (pc'[w] \in Writing <=> pc[w] \in Writing)
      BY <2>1, <2>5 DEF Open, Create, Write, Sync, TmpStep, Rename, Writing, TypeOK
    <3> QED BY <2>2, <2>3, <3>1
  <2>6. CASE Set(w) \/ Forget(w)
    <3>1. PICK s \in Session, v \in 0..MaxSeq : Begin(w, s, v)
      <4>1. \A s \in Session : mem[w][s] \in 0..MaxSeq
        BY <2>1 DEF TypeOK, CursorsOf
      <4> QED BY <2>6, <4>1 DEF Set, Forget
    <3>2. job'[w].s = s /\ job'[w].v = v /\ pc'[w] \in Writing
          /\ pc[w] \notin Writing /\ acked' = acked
      BY <2>1, <3>1 DEF Begin, Writing, TypeOK
    <3>3. Abstract!Propose([s |-> s, v |-> v])
      BY <2>2, <2>3, <3>2 DEF Abstract!Propose
    <3> QED BY <3>3 DEF Abstract!Next
  <2>7. CASE DirSync(w)
    <3>1. acked' = [acked EXCEPT ![job[w].s] = job[w].v] /\ pc'[w] \notin Writing
          /\ pc[w] \in Writing
      BY <2>1, <2>7 DEF DirSync, Synced, Return, Writing, TypeOK
    <3>2. Abstract!Accept
      BY <2>3, <2>4, <3>1
    <3> QED BY <3>2 DEF Abstract!Next
  <2>8. CASE Fail(w)
    <3>1. acked' = acked /\ pc'[w] \notin Writing /\ pc[w] \in Writing
      BY <2>1, <2>8 DEF Fail, Return, Writing, TypeOK
    <3>2. Abstract!Refuse
      BY <2>2, <2>3, <3>1 DEF Abstract!Refuse
    <3> QED BY <3>2 DEF Abstract!Next
  <2>9. CASE Crash
    <3>1. pc'[w] \notin Writing /\ \E m \in maybe : acked' = Readable(m)
      BY <2>1, <2>9 DEF Crash, Writing
    <3>2. \/ acked' = acked
          \/ pc[w] \in Writing /\ acked' = [acked EXCEPT ![job[w].s] = job[w].v]
      BY <2>1, <3>1 DEF OneWriter, Writing
    <3>3. CASE acked' = acked /\ pc[w] \notin Writing
      BY <2>2, <2>3, <3>1, <3>3
    <3>4. CASE acked' = acked /\ pc[w] \in Writing
      <4>1. Abstract!Refuse
        BY <2>2, <2>3, <3>1, <3>4 DEF Abstract!Refuse
      <4> QED BY <4>1 DEF Abstract!Next
    <3>5. CASE pc[w] \in Writing /\ acked' = [acked EXCEPT ![job[w].s] = job[w].v]
      <4>1. Abstract!Accept
        BY <2>3, <2>4, <3>1, <3>5
      <4> QED BY <4>1 DEF Abstract!Next
    <3> QED BY <3>2, <3>3, <3>4, <3>5
  <2>10. CASE UNCHANGED vars
    BY <2>10 DEF vars, InDoubt
  <2> QED BY <2>1, <2>5, <2>6, <2>7, <2>8, <2>9, <2>10 DEF Next, Step
<1> QED BY <1>1, <1>2, TypeCorrect, SyncedFirst, OneWriterCorrect, PTL
        DEF Spec, ImplementsCursorMap, Abstract!Spec
=============================================================================
