------------------------ MODULE EngineInstallProofs ------------------------
(***************************************************************************)
(* What EngineInstall guarantees for every set of installs, engines and    *)
(* versions, any number of deaths and faults, and any number of installs   *)
(* at once; and what it promises only those that do not overlap.           *)
(***************************************************************************)
EXTENDS EngineInstall, FiniteSetTheorems, TLAPS

(* Between fetching and recording, an install holds a release's version    *)
(* and, when its engine is signed, the binary of that release; and what it *)
(* is about to write to the lock file is as true as the file is.           *)
Fetched == {"write", "writing", "record"}
HoldsVerified ==
  \A i \in Install :
    /\ task[i].pc \in Fetched =>
         /\ task[i].version \in Version
         /\ EngineOf[i] \in Signed => task[i].content = task[i].version
    /\ \A x \in task[i].entries : TrueEntry(x)

TaskInv ==
  /\ task \in [Install -> Task]
  /\ \A i \in Install : OneEach(task[i].entries)
  /\ HoldsVerified
BinaryInv ==
  /\ binary \in [Engine -> Content \cup NotWhole]
  /\ SignedIsGenuine
LockInv ==
  /\ lock \in Lock
  /\ OneEach(lock.entries)
  /\ lock.text # "json" => lock.entries = {}
  /\ RecordIsTrue
CountInv == deaths \in 0..MaxDeaths /\ faults \in 0..MaxFaults

IInv == TaskInv /\ BinaryInv /\ LockInv /\ CountInv

-----------------------------------------------------------------------------
(* The initial state satisfies the invariant.                              *)
LEMMA InitInv == Init => IInv
  BY InstallAssumption, VersionAssumption, BoundAssumption
  DEF Init, IInv, TaskInv, BinaryInv, LockInv, CountInv, HoldsVerified,
      RecordIsTrue, SignedIsGenuine, NewTask, Unreadable, Lock, Task, PC,
      Content, NotWhole, OneEach, Fetched, Damaged

(* A new task for one install keeps the tasks' part of the invariant.      *)
LEMMA TaskUpdate ==
  ASSUME TaskInv, NEW i \in Install, NEW t \in Task,
         OneEach(t.entries),
         t.pc \in Fetched =>
           /\ t.version \in Version
           /\ EngineOf[i] \in Signed => t.content = t.version,
         \A x \in t.entries : TrueEntry(x),
         task' = [task EXCEPT ![i] = t]
  PROVE  TaskInv'
  BY DEF TaskInv, HoldsVerified, OneEach, TrueEntry

(* Going to a place where no more is known than before keeps it, too.      *)
LEMMA GotoKeeps ==
  ASSUME TaskInv, NEW i \in Install, NEW pc \in PC, Goto(i, pc),
         pc \in Fetched => task[i].pc \in Fetched
  PROVE  TaskInv'
<1> DEFINE t == [task[i] EXCEPT !.pc = pc]
<1>1. task[i] \in Task  BY DEF TaskInv
<1>2. t \in Task /\ t.pc = pc /\ t.version = task[i].version
      /\ t.content = task[i].content /\ t.entries = task[i].entries
  BY <1>1 DEF Task
<1>3. task' = [task EXCEPT ![i] = t]  BY DEF Goto
<1> HIDE DEF t
<1>4. QED  BY <1>2, <1>3, TaskUpdate DEF TaskInv, HoldsVerified

LEMMA EndKeeps ==
  ASSUME TaskInv, NEW i \in Install,
         NEW outcome \in {"ok", "warned", "failed", "dead"}, End(i, outcome)
  PROVE  TaskInv'
<1> DEFINE t == [NewTask EXCEPT !.pc = outcome]
<1>1. t \in Task /\ t.pc = outcome /\ t.entries = {}
  BY DEF NewTask, Task, PC, Content
<1>2. task' = [task EXCEPT ![i] = t]  BY DEF End
<1> HIDE DEF t
<1>3. QED  BY <1>1, <1>2, TaskUpdate DEF OneEach, Fetched

(* A file for one engine that is not whole, or is its release if it has to  *)
(* be, keeps the binaries' part.                                           *)
LEMMA BinaryUpdate ==
  ASSUME BinaryInv, NEW e \in Engine, NEW file \in Content \cup NotWhole,
         e \in Signed /\ file \in Content => file \in Version,
         binary' = [binary EXCEPT ![e] = file]
  PROVE  BinaryInv'
  BY DEF BinaryInv, SignedIsGenuine

(* A file that is cut short is not whole, and otherwise nothing changes.   *)
LEMMA BinaryCut ==
  ASSUME BinaryInv, NEW e \in Engine,
         \E file \in {binary[e], "empty", "torn"} :
           binary' = [binary EXCEPT ![e] = file]
  PROVE  BinaryInv'
<1>1. PICK file \in {binary[e], "empty", "torn"} :
        binary' = [binary EXCEPT ![e] = file]
  OBVIOUS
<1>2. file \in Content \cup NotWhole  BY <1>1 DEF BinaryInv, NotWhole
<1>3. e \in Signed /\ file \in Content => file \in Version
  BY <1>1, VersionAssumption DEF BinaryInv, SignedIsGenuine, Content, NotWhole, Damaged
<1>4. QED  BY <1>1, <1>2, <1>3, BinaryUpdate

LEMMA LockCut ==
  ASSUME LockInv, lock' \in {lock, Unreadable("empty"), Unreadable("torn")}
  PROVE  LockInv'
  BY DEF LockInv, Unreadable, Lock, OneEach, RecordIsTrue, TrueEntry

LEMMA FaultCounts ==
  ASSUME CountInv, Fault, deaths' = deaths  PROVE CountInv'
  BY BoundAssumption DEF CountInv, Fault

-----------------------------------------------------------------------------
(* What the steps that do more preserve.                                   *)
LEMMA ResolveUnreadKeeps ==
  ASSUME IInv, NEW i \in Install, ResolveUnread(i)  PROVE IInv'
<1> DEFINE t == [NewTask EXCEPT !.pc = "fetch", !.unread = TRUE]
<1>1. t \in Task /\ t.pc = "fetch" /\ t.entries = {}
  BY DEF NewTask, Task, PC, Content
<1>2. task' = [task EXCEPT ![i] = t]  BY DEF ResolveUnread
<1> HIDE DEF t
<1>3. TaskInv'  BY <1>1, <1>2, TaskUpdate DEF IInv, OneEach, Fetched
<1>4. CountInv'  BY FaultCounts DEF ResolveUnread, IInv
<1>5. UNCHANGED <<binary, lock>>  BY DEF ResolveUnread
<1>6. QED  BY <1>3, <1>4, <1>5
  DEF IInv, BinaryInv, LockInv, SignedIsGenuine, RecordIsTrue, TrueEntry

LEMMA ResolveKeeps ==
  ASSUME IInv, NEW i \in Install, Resolve(i)  PROVE IInv'
<1>1. PICK version \in Version \cup {"latest"}, pinned \in BOOLEAN :
        task' = [task EXCEPT ![i] =
          [NewTask EXCEPT !.pc = "fetch", !.version = version,
                          !.pinned = pinned]]
  BY DEF Resolve
<1> DEFINE t == [NewTask EXCEPT !.pc = "fetch", !.version = version,
                                !.pinned = pinned]
<1>2. t \in Task /\ t.pc = "fetch" /\ t.entries = {}
  BY <1>1 DEF NewTask, Task, PC, Content
<1>3. task' = [task EXCEPT ![i] = t]  BY <1>1
<1> HIDE DEF t
<1>4. TaskInv'  BY <1>2, <1>3, TaskUpdate DEF IInv, OneEach, Fetched
<1>5. UNCHANGED <<binary, lock, deaths, faults>>  BY DEF Resolve
<1>6. QED  BY <1>4, <1>5
  DEF IInv, BinaryInv, LockInv, CountInv, SignedIsGenuine, RecordIsTrue, TrueEntry

(* What is fetched for a signed engine is the release: its signed checksums *)
(* are of that very version, as the asset's name has to be among them.     *)
LEMMA FetchKeeps ==
  ASSUME IInv, NEW i \in Install, Fetch(i)  PROVE IInv'
<1>1. PICK v \in Released(task[i].version), archive \in Content,
           sums \in Checksums :
        /\ Verified(EngineOf[i], v, archive, sums)
        /\ task' = [task EXCEPT ![i].pc = "write", ![i].version = v,
                                ![i].content = archive]
  BY DEF Fetch
<1>2. task[i] \in Task  BY DEF IInv, TaskInv
<1>3. v \in Version  BY <1>1, <1>2 DEF Released, Task
<1>4. EngineOf[i] \in Signed => archive = v
  BY <1>1, InstallAssumption
  DEF Verified, SignatureHolds, ChecksumFound, Checksums
<1> DEFINE t == [task[i] EXCEPT !.pc = "write", !.version = v,
                                !.content = archive]
<1>5. t \in Task /\ t.version = v /\ t.content = archive
      /\ t.entries = task[i].entries
  BY <1>1, <1>2, <1>3 DEF Task, PC
<1>6. task' = [task EXCEPT ![i] = t]  BY <1>1, <1>2 DEF IInv, TaskInv
<1> HIDE DEF t
<1>7. TaskInv'
  BY <1>3, <1>4, <1>5, <1>6, TaskUpdate DEF IInv, TaskInv, HoldsVerified
<1>8. UNCHANGED <<binary, lock, deaths, faults>>  BY DEF Fetch
<1>9. QED  BY <1>7, <1>8
  DEF IInv, BinaryInv, LockInv, CountInv, SignedIsGenuine, RecordIsTrue, TrueEntry

(* The binary an install writes is the one it fetched, or is torn.          *)
LEMMA WriteBinaryKeeps ==
  ASSUME IInv, NEW i \in Install, WriteBinary(i)  PROVE BinaryInv'
<1>1. PICK file \in Overlaid(binary[EngineOf[i]], task[i].content, "empty", "torn") :
        binary' = [binary EXCEPT ![EngineOf[i]] = file]
  BY DEF WriteBinary
<1>2. file \in {task[i].content, "torn"}  BY <1>1 DEF Overlaid
<1>3. EngineOf[i] \in Engine  BY InstallAssumption
<1>4. task[i].content \in Content  BY DEF IInv, TaskInv, Task
<1>5. EngineOf[i] \in Signed => task[i].content \in Version
  BY DEF WriteBinary, IInv, TaskInv, HoldsVerified, Fetched
<1>6. "torn" \notin Content
  BY VersionAssumption DEF Content, NotWhole, Damaged
<1>7. file \in Content \cup NotWhole  BY <1>2, <1>4 DEF NotWhole
<1>8. QED  BY <1>1, <1>2, <1>3, <1>5, <1>6, <1>7, BinaryUpdate DEF IInv

(* The entry an install adds is true.                                      *)
LEMMA NewEntryTrue ==
  ASSUME IInv, NEW i \in Install, task[i].pc = "record"
  PROVE  NewEntry(i) \in Entry /\ TrueEntry(NewEntry(i))
<1> DEFINE new == NewEntry(i)  signed == EngineOf[i] \in Signed
<1>1. task[i].version \in Version
      /\ (signed => task[i].content = task[i].version)
  BY DEF IInv, TaskInv, HoldsVerified, Fetched
<1>2. new = [engine |-> EngineOf[i], version |-> task[i].version,
             pinned |-> task[i].pinned, sha |-> task[i].content,
             verified |-> signed]
  BY DEF NewEntry
<1>3. signed \in BOOLEAN /\ (~signed => EngineOf[i] \notin Signed)  OBVIOUS
<1>4. task[i].pinned \in BOOLEAN /\ task[i].content \in Content
  BY DEF IInv, TaskInv, Task
<1>5. EngineOf[i] \in Engine  BY InstallAssumption
<1> HIDE DEF signed, new
<1>6. new \in Entry  BY <1>1, <1>2, <1>3, <1>4, <1>5 DEF Entry
<1>7. new.verified = signed /\ new.sha = task[i].content
      /\ new.version = task[i].version /\ new.engine = EngineOf[i]
  BY <1>2
<1>8. new \in Entry /\ TrueEntry(new)  BY <1>1, <1>3, <1>6, <1>7 DEF TrueEntry
<1>9. QED  BY <1>8 DEF new

(* Whatever true entries an install is about to write, one per engine.     *)
LEMMA EntriesUpdate ==
  ASSUME TaskInv, NEW i \in Install, NEW entries \in SUBSET Entry, NEW unread \in BOOLEAN,
         OneEach(entries), \A x \in entries : TrueEntry(x),
         task' = [task EXCEPT ![i].pc = "lock", ![i].entries = entries,
                              ![i].unread = unread]
  PROVE  TaskInv'
<1> DEFINE t == [task[i] EXCEPT !.pc = "lock", !.entries = entries, !.unread = unread]
<1>1. task[i] \in Task  BY DEF TaskInv
<1>2. t \in Task /\ t.pc = "lock" /\ t.entries = entries  BY <1>1 DEF Task, PC
<1>3. task' = [task EXCEPT ![i] = t]  BY <1>1 DEF TaskInv
<1> HIDE DEF t
<1>4. QED  BY <1>2, <1>3, TaskUpdate DEF Fetched

(* The new entry replaces the one of its engine among those that were read, *)
(* or is the only one.                                                     *)
LEMMA ReadLockKeeps ==
  ASSUME IInv, NEW i \in Install, ReadLock(i)  PROVE TaskInv'
<1> DEFINE new == NewEntry(i)  entries == Updated(lock.entries, new)
<1>1. new \in Entry /\ TrueEntry(new)  BY NewEntryTrue DEF ReadLock
<1> HIDE DEF new
<1>2. entries \in SUBSET Entry /\ OneEach(entries)
      /\ \A x \in entries : TrueEntry(x)
  BY <1>1 DEF Updated, IInv, LockInv, Lock, OneEach, RecordIsTrue
<1>3. task[i] \in Task /\ task \in [Install -> Task]  BY DEF IInv, TaskInv
<1>4. task' = [task EXCEPT ![i].pc = "lock", ![i].entries = entries]
  BY DEF ReadLock, new
<1> HIDE DEF entries
<1>5. task[i].unread \in BOOLEAN
      /\ [task[i] EXCEPT !.pc = "lock", !.entries = entries]
           = [task[i] EXCEPT !.pc = "lock", !.entries = entries, !.unread = task[i].unread]
  BY <1>3 DEF Task
<1>6. task' = [task EXCEPT ![i].pc = "lock", ![i].entries = entries,
                           ![i].unread = task[i].unread]
  BY <1>3, <1>4, <1>5
<1>7. QED  BY <1>2, <1>5, <1>6, EntriesUpdate DEF IInv

LEMMA ReadLockFailsKeeps ==
  ASSUME IInv, NEW i \in Install, ReadLockFails(i)  PROVE TaskInv'
<1> DEFINE entries == {NewEntry(i)}
<1>1. entries \in SUBSET Entry /\ OneEach(entries)
      /\ \A x \in entries : TrueEntry(x)
  BY NewEntryTrue DEF ReadLockFails, OneEach
<1>2. task' = [task EXCEPT ![i].pc = "lock", ![i].entries = entries,
                           ![i].unread = TRUE]
  BY DEF ReadLockFails
<1> HIDE DEF entries
<1>3. QED  BY <1>1, <1>2, EntriesUpdate DEF IInv

(* A lock file is written from entries that are true, or is torn.           *)
LEMMA WriteLockKeeps ==
  ASSUME IInv, NEW i \in Install, WriteLock(i)  PROVE LockInv'
<1> DEFINE new == [text |-> "json", entries |-> task[i].entries]
<1>1. lock' \in {new, Unreadable("torn")}  BY DEF WriteLock, Overlaid
<1>2. CASE lock' = Unreadable("torn")  BY <1>2, LockCut DEF IInv
<1>3. CASE lock' = new
  <2>1. task[i].entries \subseteq Entry /\ OneEach(task[i].entries)
        /\ \A x \in task[i].entries : TrueEntry(x)
    BY DEF IInv, TaskInv, Task, HoldsVerified
  <2>2. lock'.text = "json" /\ lock'.entries = task[i].entries /\ lock' \in Lock
    BY <1>3, <2>1 DEF Lock
  <2>3. QED  BY <2>1, <2>2 DEF LockInv, RecordIsTrue, OneEach, TrueEntry
<1>4. QED  BY <1>1, <1>2, <1>3

-----------------------------------------------------------------------------
LEMMA StepInv ==
  ASSUME IInv, [Next]_vars  PROVE IInv'
<1> USE DEF IInv
<1>1. CASE UNCHANGED vars
  BY <1>1 DEF vars, TaskInv, BinaryInv, LockInv, CountInv, HoldsVerified,
     SignedIsGenuine, RecordIsTrue, OneEach, TrueEntry
<1>2. ASSUME NEW i \in Install, Step(i)  PROVE IInv'
  <2> DEFINE e == EngineOf[i]
  <2>e. e \in Engine  BY InstallAssumption
  <2>b. binary' = binary => BinaryInv'  BY DEF BinaryInv, SignedIsGenuine
  <2>l. lock' = lock => LockInv'
    BY DEF LockInv, OneEach, RecordIsTrue, TrueEntry
  <2>c. deaths' = deaths /\ faults' = faults => CountInv'  BY DEF CountInv
  <2> HIDE DEF e
  <2>1. CASE Resolve(i)  BY <2>1, ResolveKeeps
  <2>15. CASE ResolveUnread(i)  BY <2>15, ResolveUnreadKeeps
  <2>2. CASE Fetch(i)  BY <2>2, FetchKeeps
  <2>3. CASE Reject(i)  BY <2>3, <2>b, <2>l, <2>c, EndKeeps DEF Reject
  <2>4. CASE OpenBinary(i)
    <3>1. TaskInv'  BY <2>4, GotoKeeps DEF OpenBinary, PC, Fetched
    <3>2. BinaryInv'  BY <2>4, <2>e, BinaryCut DEF OpenBinary, e
    <3>3. QED  BY <2>4, <3>1, <3>2, <2>l, <2>c DEF OpenBinary
  <2>5. CASE OpenBinaryFails(i)
    BY <2>5, <2>b, <2>l, EndKeeps, FaultCounts DEF OpenBinaryFails
  <2>6. CASE WriteBinary(i)
    <3>1. TaskInv'  BY <2>6, GotoKeeps DEF WriteBinary, PC, Fetched
    <3>2. QED
      BY <2>6, <3>1, <2>l, <2>c, WriteBinaryKeeps DEF WriteBinary
  <2>7. CASE WriteBinaryFails(i)
    <3>1. BinaryInv'  BY <2>7, <2>e, BinaryCut DEF WriteBinaryFails, e
    <3>2. QED
      BY <2>7, <3>1, <2>l, EndKeeps, FaultCounts DEF WriteBinaryFails
  <2>8. CASE ReadLock(i)
    BY <2>8, <2>b, <2>l, <2>c, ReadLockKeeps DEF ReadLock
  <2>16. CASE ReadLockFails(i)
    BY <2>16, <2>b, <2>l, ReadLockFailsKeeps, FaultCounts DEF ReadLockFails
  <2>9. CASE OpenLock(i)
    <3>1. TaskInv'  BY <2>9, GotoKeeps DEF OpenLock, PC, Fetched
    <3>2. LockInv'  BY <2>9, LockCut DEF OpenLock
    <3>3. QED  BY <2>9, <3>1, <3>2, <2>b, <2>c DEF OpenLock
  <2>10. CASE OpenLockFails(i)
    BY <2>10, <2>b, <2>l, EndKeeps, FaultCounts DEF OpenLockFails
  <2>11. CASE WriteLock(i)
    BY <2>11, <2>b, <2>c, EndKeeps, WriteLockKeeps DEF WriteLock
  <2>12. CASE WriteLockFails(i)
    <3>1. LockInv'  BY <2>12, LockCut DEF WriteLockFails
    <3>2. QED  BY <2>12, <3>1, <2>b, EndKeeps, FaultCounts DEF WriteLockFails
  <2>13. CASE Die(i)
    <3>1. TaskInv'  BY <2>13, EndKeeps DEF Die
    <3>2. BinaryInv'  BY <2>13, <2>e, <2>b, BinaryCut DEF Die, e
    <3>3. LockInv'  BY <2>13, <2>l, LockCut DEF Die
    <3>4. CountInv'  BY <2>13, BoundAssumption DEF Die, CountInv
    <3>5. QED  BY <3>1, <3>2, <3>3, <3>4
  <2>14. QED
    BY <1>2, <2>1, <2>2, <2>3, <2>4, <2>5, <2>6, <2>7, <2>8, <2>9, <2>10,
       <2>11, <2>12, <2>13, <2>15, <2>16 DEF Step
<1>3. QED  BY <1>1, <1>2 DEF Next

(* Every reachable state satisfies the inductive invariant.                *)
THEOREM Invariant == Spec => []IInv
  BY InitInv, StepInv, PTL DEF Spec

(* The managed directory and the locals of every install are well formed;   *)
(* the lock file has one entry per engine.                                 *)
THEOREM TypeCorrect == Spec => []TypeOK
<1>1. IInv => TypeOK
  BY DEF IInv, TaskInv, BinaryInv, LockInv, CountInv, TypeOK
<1>2. QED  BY <1>1, Invariant, PTL

(* Whole binaries of signed engines are released ones.                     *)
THEOREM SignedBinariesGenuine == Spec => []SignedIsGenuine
<1>1. IInv => SignedIsGenuine  BY DEF IInv, BinaryInv
<1>2. QED  BY <1>1, Invariant, PTL

(* The lock file never claims a signature for anything but the release it  *)
(* names.                                                                  *)
THEOREM LockFileTrue == Spec => []RecordIsTrue
<1>1. IInv => RecordIsTrue  BY DEF IInv, LockInv
<1>2. QED  BY <1>1, Invariant, PTL


-----------------------------------------------------------------------------
(* Installs that do not overlap.  Each finds the files as it left them: the *)
(* binary truncated when it fills it and whole from then on, the lock file *)
(* as it read it until it truncates it, and the pin it was resolved with   *)
(* still on record; one that names a version, or the latest, holds the pin *)
(* it asks for.                                                            *)
Alone ==
  \A i, j \in Install : task[i].pc \in Active /\ task[j].pc \in Active => i = j

OwnFiles(i) ==
  /\ task[i].pc = "writing" => binary[EngineOf[i]] = "empty"
  /\ task[i].pc \in {"record", "lock", "locking"} =>
       binary[EngineOf[i]] = task[i].content
  /\ task[i].pc = "lock" =>
       /\ NewEntry(i) \in task[i].entries
       /\ ~task[i].unread => task[i].entries = Updated(lock.entries, NewEntry(i))
  /\ task[i].pc = "locking" =>
       NewEntry(i) \in task[i].entries /\ lock = Unreadable("empty")

Follows == {"fetch", "write", "writing", "record", "lock"}
HeldPin(i) == IF task[i].pinned THEN {task[i].version} ELSE {}
OwnPin(i) ==
  task[i].pc \in Follows =>
    /\ Request[i] # "unspecified" => HeldPin(i) = AskedPin(i)
    /\ Request[i] = "unspecified" /\ ~task[i].unread =>
         HeldPin(i) = PinnedTo(EngineOf[i])

SerialInv == Alone /\ \A i \in Install : OwnFiles(i) /\ OwnPin(i)

(* While an install takes a step no other is under way.                    *)
LEMMA OthersIdle ==
  ASSUME MaxActive = 1, IInv, Alone, NEW i \in Install, Step(i),
         NEW j \in Install \ {i}
  PROVE  task'[j] = task[j] /\ task[j].pc \notin Active
<1>1. task'[j] = task[j]
  BY DEF IInv, TaskInv, Step, Resolve, ResolveUnread, Fetch, Reject, OpenBinary,
     OpenBinaryFails, WriteBinary, WriteBinaryFails, ReadLock, ReadLockFails, OpenLock, OpenLockFails, WriteLock,
     WriteLockFails, Die, Goto, End
<1>2. CASE task[i].pc \in Active
  BY <1>1, <1>2 DEF Alone
<1>3. CASE task[i].pc \notin Active
  <2>1. Resolve(i) \/ ResolveUnread(i)
    BY <1>3 DEF Step, Fetch, Reject, OpenBinary, OpenBinaryFails, WriteBinary,
       WriteBinaryFails, ReadLock, ReadLockFails, OpenLock, OpenLockFails, WriteLock,
       WriteLockFails, Die, Active, PC
  <2> DEFINE S == {k \in Install : task[k].pc \in Active}
  <2>2. Cardinality(S) < 1  BY <2>1 DEF Resolve, ResolveUnread, MayBegin
  <2>3. ASSUME task[j].pc \in Active PROVE FALSE
    <3>1. S = {j}  BY <2>3 DEF Alone
    <3>2. Cardinality(S) = 1  BY <3>1, FS_Singleton
    <3>3. QED  BY <2>2, <3>2
  <2>4. QED  BY <1>1, <2>3
<1>4. QED  BY <1>2, <1>3

LEMMA GotoFields ==
  ASSUME TaskInv, NEW i \in Install, NEW pc, Goto(i, pc)
  PROVE  /\ task'[i].pc = pc /\ task'[i].version = task[i].version
         /\ task'[i].pinned = task[i].pinned /\ task'[i].content = task[i].content
         /\ task'[i].entries = task[i].entries /\ task'[i].unread = task[i].unread
<1>1. task \in [Install -> Task]  BY DEF TaskInv
<1>2. task'[i] = [task[i] EXCEPT !.pc = pc]  BY <1>1 DEF Goto
<1>3. QED  BY <1>1, <1>2 DEF Task

LEMMA EndEnds ==
  ASSUME TaskInv, NEW i \in Install, NEW outcome, End(i, outcome)
  PROVE  task'[i].pc = outcome
<1>1. task'[i] = [NewTask EXCEPT !.pc = outcome]  BY DEF End, TaskInv
<1>2. QED  BY <1>1 DEF NewTask

LEMMA EndOwn ==
  ASSUME TaskInv, NEW i \in Install,
         NEW outcome \in {"ok", "warned", "failed", "dead"}, End(i, outcome)
  PROVE  OwnFiles(i)' /\ OwnPin(i)'
<1>1. task'[i].pc = outcome  BY EndEnds
<1>2. QED  BY <1>1 DEF OwnFiles, OwnPin, Follows

(* A pin that an install follows is the one on record.                     *)
LEMMA ResolveOwn ==
  ASSUME IInv, NEW i \in Install, Resolve(i)
  PROVE  OwnFiles(i)' /\ OwnPin(i)'
<1>1. PICK version \in Version \cup {"latest"}, pinned \in BOOLEAN :
        /\ Resolves(i, version, pinned)
        /\ task' = [task EXCEPT ![i] =
             [NewTask EXCEPT !.pc = "fetch", !.version = version, !.pinned = pinned]]
  BY DEF Resolve
<1>2. task'[i] = [NewTask EXCEPT !.pc = "fetch", !.version = version, !.pinned = pinned]
  BY <1>1 DEF IInv, TaskInv
<1>3. task'[i].pc = "fetch" /\ task'[i].version = version /\ task'[i].pinned = pinned
  BY <1>2 DEF NewTask
<1>4. lock' = lock  BY DEF Resolve
<1> DEFINE held == IF pinned THEN {version} ELSE {}
<1>5. ASSUME Request[i] = "unspecified"  PROVE held = PinnedTo(EngineOf[i])
  <2>1. Request[i] \notin Version  BY <1>5, VersionAssumption
  <2>2. CASE pinned
    <3>1. version \in PinnedTo(EngineOf[i])  BY <1>1, <1>5, <2>1, <2>2 DEF Resolves
    <3>2. \A x, y \in lock.entries : x.engine = y.engine => x = y
      BY DEF IInv, LockInv, OneEach
    <3>3. PinnedTo(EngineOf[i]) = {version}  BY <3>1, <3>2 DEF PinnedTo
    <3>4. QED  BY <2>2, <3>3
  <2>3. CASE ~pinned
    BY <1>1, <1>5, <2>1, <2>3 DEF Resolves
  <2>4. QED  BY <2>2, <2>3
<1>6. ASSUME Request[i] # "unspecified"  PROVE held = AskedPin(i)
  <2>1. CASE Request[i] \in Version
    BY <1>1, <1>6, <2>1, VersionAssumption DEF Resolves, AskedPin
  <2>2. CASE Request[i] \notin Version
    BY <1>1, <1>6, <2>2 DEF Resolves, AskedPin
  <2>3. QED  BY <2>1, <2>2
<1>7. HeldPin(i)' = held  BY <1>3 DEF HeldPin
<1>8. PinnedTo(EngineOf[i])' = PinnedTo(EngineOf[i])  BY <1>4 DEF PinnedTo
<1> HIDE DEF held
<1>9. QED  BY <1>3, <1>5, <1>6, <1>7, <1>8 DEF OwnFiles, OwnPin, AskedPin

(* One that could not read the lock file follows no pin.                   *)
LEMMA ResolveUnreadOwn ==
  ASSUME IInv, NEW i \in Install, ResolveUnread(i)
  PROVE  OwnFiles(i)' /\ OwnPin(i)'
<1>1. task'[i] = [NewTask EXCEPT !.pc = "fetch", !.unread = TRUE]
  BY DEF ResolveUnread, IInv, TaskInv
<1>2. task'[i].pc = "fetch" /\ task'[i].unread  BY <1>1 DEF NewTask
<1>3. Request[i] = "unspecified"  BY DEF ResolveUnread
<1>4. QED  BY <1>2, <1>3 DEF OwnFiles, OwnPin

LEMMA FetchOwn ==
  ASSUME IInv, NEW i \in Install, OwnPin(i), Fetch(i)
  PROVE  OwnFiles(i)' /\ OwnPin(i)'
<1>1. PICK v \in Released(task[i].version), archive \in Content :
        task' = [task EXCEPT ![i].pc = "write", ![i].version = v, ![i].content = archive]
  BY DEF Fetch
<1>2. task \in [Install -> Task]  BY DEF IInv, TaskInv
<1>3. task'[i] = [task[i] EXCEPT !.pc = "write", !.version = v, !.content = archive]
  BY <1>1, <1>2
<1>4. task'[i].pc = "write" /\ task'[i].version = v /\ task'[i].pinned = task[i].pinned
      /\ task'[i].unread = task[i].unread
  BY <1>2, <1>3 DEF Task
<1>5. lock' = lock /\ task[i].pc = "fetch"  BY DEF Fetch
<1>6. PinnedTo(EngineOf[i]) \subseteq Version
  BY DEF PinnedTo, IInv, LockInv, Lock, Entry
<1>7. ASSUME HeldPin(i) \subseteq Version  PROVE HeldPin(i)' = HeldPin(i)
  <2>1. CASE task[i].pinned
    <3>1. task[i].version # "latest"  BY <1>7, <2>1, VersionAssumption DEF HeldPin
    <3>2. v = task[i].version  BY <1>1, <3>1 DEF Released
    <3>3. QED  BY <1>4, <3>2 DEF HeldPin
  <2>2. CASE ~task[i].pinned  BY <1>4, <2>2 DEF HeldPin
  <2>3. QED  BY <2>1, <2>2
<1>8. ASSUME Request[i] # "unspecified"  PROVE HeldPin(i)' = AskedPin(i)
  <2>1. HeldPin(i) = AskedPin(i)  BY <1>5, <1>8 DEF OwnPin, Follows
  <2>2. HeldPin(i) \subseteq Version  BY <2>1 DEF AskedPin
  <2>3. QED  BY <1>7, <2>1, <2>2
<1>9. ASSUME Request[i] = "unspecified", ~task[i].unread
      PROVE  HeldPin(i)' = PinnedTo(EngineOf[i])
  <2>1. HeldPin(i) = PinnedTo(EngineOf[i])  BY <1>5, <1>9 DEF OwnPin, Follows
  <2>2. QED  BY <1>6, <1>7, <2>1
<1>10. PinnedTo(EngineOf[i])' = PinnedTo(EngineOf[i])  BY <1>5 DEF PinnedTo
<1>11. QED  BY <1>4, <1>8, <1>9, <1>10 DEF OwnFiles, OwnPin, AskedPin

(* Steps that leave the lock file and the version of an install alone      *)
(* leave it the pin it holds.                                              *)
LEMMA SamePin ==
  ASSUME NEW i \in Install, OwnPin(i), task[i].pc \in Follows, lock' = lock,
         task'[i].version = task[i].version, task'[i].pinned = task[i].pinned,
         task'[i].unread = task[i].unread
  PROVE  OwnPin(i)'
<1>1. HeldPin(i)' = HeldPin(i)  BY DEF HeldPin
<1>2. PinnedTo(EngineOf[i])' = PinnedTo(EngineOf[i])  BY DEF PinnedTo
<1>3. QED  BY <1>1, <1>2 DEF OwnPin, AskedPin

LEMMA StepOwn ==
  ASSUME IInv, NEW i \in Install, OwnFiles(i), OwnPin(i), Step(i)
  PROVE  OwnFiles(i)' /\ OwnPin(i)'
<1>0. /\ TaskInv /\ binary \in [Engine -> Content \cup NotWhole]
      /\ EngineOf[i] \in Engine
  BY InstallAssumption DEF IInv, BinaryInv
<1>1. CASE Resolve(i)  BY <1>1, ResolveOwn
<1>9. CASE ResolveUnread(i)  BY <1>9, ResolveUnreadOwn
<1>2. CASE Fetch(i)  BY <1>2, FetchOwn
<1>3. CASE OpenBinary(i)
  <2>1. /\ task[i].pc = "write" /\ lock' = lock /\ Goto(i, "writing")
        /\ binary'[EngineOf[i]] = "empty"
    BY <1>0, <1>3 DEF OpenBinary
  <2>2. OwnPin(i)'  BY <1>0, <2>1, GotoFields, SamePin DEF Follows
  <2>3. QED  BY <1>0, <2>1, <2>2, GotoFields DEF OwnFiles
<1>4. CASE WriteBinary(i)
  <2>1. task[i].pc = "writing" /\ lock' = lock /\ Goto(i, "record")
    BY <1>4 DEF WriteBinary
  <2>2. Overlaid(binary[EngineOf[i]], task[i].content, "empty", "torn") = {task[i].content}
    BY <2>1 DEF OwnFiles, Overlaid
  <2>3. binary' = [binary EXCEPT ![EngineOf[i]] = task[i].content]
    BY <1>4, <2>2 DEF WriteBinary
  <2>4. binary'[EngineOf[i]] = task[i].content  BY <1>0, <2>3
  <2>5. OwnPin(i)'  BY <1>0, <2>1, GotoFields, SamePin DEF Follows
  <2>6. QED  BY <1>0, <2>1, <2>4, <2>5, GotoFields DEF OwnFiles
<1>5. CASE ReadLock(i)
  <2>1. /\ task[i].pc = "record" /\ lock' = lock /\ binary' = binary
        /\ task' = [task EXCEPT ![i].pc = "lock",
                                ![i].entries = Updated(lock.entries, NewEntry(i))]
    BY <1>5 DEF ReadLock
  <2> DEFINE entries == Updated(lock.entries, NewEntry(i))
  <2> HIDE DEF entries
  <2>2. task \in [Install -> Task]  BY <1>0 DEF TaskInv
  <2>3. task'[i] = [task[i] EXCEPT !.pc = "lock", !.entries = entries]
    BY <2>1, <2>2 DEF entries
  <2>4. /\ task'[i].pc = "lock" /\ task'[i].entries = entries
        /\ task'[i].version = task[i].version /\ task'[i].pinned = task[i].pinned
        /\ task'[i].content = task[i].content /\ task'[i].unread = task[i].unread
    BY <2>2, <2>3 DEF Task
  <2>5. NewEntry(i)' = NewEntry(i)  BY <2>4 DEF NewEntry
  <2>6. Updated(lock.entries, NewEntry(i))' = entries
    BY <2>1, <2>5 DEF entries, Updated
  <2>7. NewEntry(i) \in entries  BY DEF entries, Updated
  <2>8. OwnPin(i)'  BY <2>1, <2>4, SamePin DEF Follows
  <2>9. QED  BY <2>1, <2>4, <2>5, <2>6, <2>7, <2>8 DEF OwnFiles
<1>10. CASE ReadLockFails(i)
  <2>1. /\ task[i].pc = "record" /\ binary' = binary
        /\ task' = [task EXCEPT ![i].pc = "lock", ![i].entries = {NewEntry(i)},
                                ![i].unread = TRUE]
    BY <1>10 DEF ReadLockFails
  <2> DEFINE entries == {NewEntry(i)}
  <2> HIDE DEF entries
  <2>2. task \in [Install -> Task]  BY <1>0 DEF TaskInv
  <2>3. task'[i] = [task[i] EXCEPT !.pc = "lock", !.entries = entries, !.unread = TRUE]
    BY <2>1, <2>2 DEF entries
  <2>4. /\ task'[i].pc = "lock" /\ task'[i].entries = entries /\ task'[i].unread
        /\ task'[i].version = task[i].version /\ task'[i].pinned = task[i].pinned
        /\ task'[i].content = task[i].content
    BY <2>2, <2>3 DEF Task
  <2>5. NewEntry(i)' \in task'[i].entries  BY <2>4 DEF NewEntry, entries
  <2>6. HeldPin(i)' = HeldPin(i)  BY <2>4 DEF HeldPin
  <2>7. OwnPin(i)'  BY <2>1, <2>4, <2>6 DEF OwnPin, AskedPin, Follows
  <2>8. QED  BY <2>1, <2>4, <2>5, <2>7 DEF OwnFiles
<1>6. CASE OpenLock(i)
  <2>1. /\ task[i].pc = "lock" /\ lock' = Unreadable("empty") /\ binary' = binary
        /\ Goto(i, "locking")
    BY <1>6 DEF OpenLock
  <2>2. NewEntry(i) \in task[i].entries  BY <2>1 DEF OwnFiles
  <2>3. NewEntry(i)' = NewEntry(i)  BY <1>0, <2>1, GotoFields DEF NewEntry
  <2>4. QED  BY <1>0, <2>1, <2>2, <2>3, GotoFields DEF OwnFiles, OwnPin, Follows
<1>7. CASE Reject(i) \/ OpenBinaryFails(i) \/ WriteBinaryFails(i) \/ OpenLockFails(i)
           \/ WriteLock(i) \/ WriteLockFails(i) \/ Die(i)
  BY <1>0, <1>7, EndOwn
     DEF Reject, OpenBinaryFails, WriteBinaryFails, OpenLockFails, WriteLock, WriteLockFails, Die
<1>8. QED
  BY <1>1, <1>2, <1>3, <1>4, <1>5, <1>6, <1>7, <1>9, <1>10 DEF Step

LEMMA StepSerial ==
  ASSUME MaxActive = 1, IInv, SerialInv, [Next]_vars  PROVE SerialInv'
<1>1. CASE UNCHANGED vars
  BY <1>1 DEF vars, SerialInv, Alone, OwnFiles, OwnPin, HeldPin, AskedPin, PinnedTo, NewEntry
<1>2. ASSUME NEW i \in Install, Step(i)  PROVE SerialInv'
  <2>1. OwnFiles(i)' /\ OwnPin(i)'  BY <1>2, StepOwn DEF SerialInv
  <2>2. ASSUME NEW j \in Install \ {i} PROVE task'[j].pc \notin Active
    BY <1>2, OthersIdle DEF SerialInv
  <2>3. ASSUME NEW j \in Install \ {i} PROVE OwnFiles(j)' /\ OwnPin(j)'
    BY <2>2 DEF OwnFiles, OwnPin, Follows, Active, PC
  <2>4. Alone'  BY <2>2 DEF Alone
  <2>5. QED  BY <2>1, <2>3, <2>4 DEF SerialInv
<1>3. QED  BY <1>1, <1>2 DEF Next

LEMMA InitSerial == Init => SerialInv
  BY DEF Init, SerialInv, Alone, OwnFiles, OwnPin, NewTask, Active, Follows

(* Installs that do not overlap end as they report: one that reports       *)
(* success has left its binary whole and, unless it warned, its entry in    *)
(* the lock file (Install, writeBinary, writeLockEntry).                   *)
THEOREM SerialEndsAsReported ==
  ASSUME MaxActive = 1  PROVE Spec => EndsAsReported
<1> DEFINE Reported ==
      \A i \in Install :
        task[i].pc \in Active /\ task'[i].pc \in {"ok", "warned"} =>
          /\ binary'[EngineOf[i]] = task[i].content
          /\ task'[i].pc = "ok" => NewEntry(i) \in lock'.entries
<1>1. ASSUME IInv, SerialInv, [Next]_vars PROVE [Reported]_vars
  <2>1. SUFFICES ASSUME NEW i \in Install, Step(i), NEW j \in Install,
                        task[j].pc \in Active, task'[j].pc \in {"ok", "warned"}
                 PROVE  /\ binary'[EngineOf[j]] = task[j].content
                        /\ task'[j].pc = "ok" => NewEntry(j) \in lock'.entries
    BY <1>1 DEF Next
  <2>2. j = i
    <3>1. task[j].pc \notin {"ok", "warned"}  BY <2>1 DEF Active
    <3>2. QED  BY <1>1, <2>1, <3>1, OthersIdle DEF SerialInv
  <2>0. TaskInv /\ task \in [Install -> Task]  BY <1>1 DEF IInv, TaskInv
  <2>3. WriteLock(i) \/ OpenLockFails(i) \/ WriteLockFails(i)
    <3>1. ~(OpenBinary(i) \/ WriteBinary(i) \/ OpenLock(i))
      BY <2>0, <2>1, <2>2, GotoFields DEF OpenBinary, WriteBinary, OpenLock
    <3>2. ~(Reject(i) \/ OpenBinaryFails(i) \/ WriteBinaryFails(i) \/ Die(i))
      BY <2>0, <2>1, <2>2, EndEnds
         DEF Reject, OpenBinaryFails, WriteBinaryFails, Die
    <3>3. ~(Resolve(i) \/ ResolveUnread(i))
      BY <2>0, <2>1, <2>2 DEF Resolve, ResolveUnread, NewTask
    <3>4. ~(Fetch(i) \/ ReadLock(i) \/ ReadLockFails(i))
      <4>1. ~Fetch(i)  BY <2>0, <2>1, <2>2 DEF Fetch, Task
      <4>2. ~ReadLock(i)  BY <2>0, <2>1, <2>2 DEF ReadLock, Task
      <4>3. ~ReadLockFails(i)  BY <2>0, <2>1, <2>2 DEF ReadLockFails, Task
      <4>4. QED  BY <4>1, <4>2, <4>3
    <3>5. QED  BY <2>1, <3>1, <3>2, <3>3, <3>4 DEF Step
  <2>4. task[i].pc \in {"lock", "locking"} /\ binary' = binary
    BY <2>3 DEF WriteLock, OpenLockFails, WriteLockFails
  <2>5. binary'[EngineOf[i]] = task[i].content
    BY <1>1, <2>4 DEF SerialInv, OwnFiles
  <2>6. ASSUME task'[i].pc = "ok"  PROVE NewEntry(i) \in lock'.entries
    <3>1. ~OpenLockFails(i) /\ ~WriteLockFails(i)
      BY <2>0, <2>6, EndEnds DEF OpenLockFails, WriteLockFails
    <3>2. WriteLock(i)  BY <2>3, <3>1
    <3>3. lock = Unreadable("empty") /\ NewEntry(i) \in task[i].entries
      BY <1>1, <3>2 DEF WriteLock, SerialInv, OwnFiles
    <3>4. lock' = [text |-> "json", entries |-> task[i].entries]
      BY <3>2, <3>3 DEF WriteLock, Overlaid
    <3>5. QED  BY <3>3, <3>4
  <2>7. QED  BY <2>2, <2>5, <2>6
<1>2. QED
  BY <1>1, InitInv, StepInv, InitSerial, StepSerial, PTL DEF Spec, EndsAsReported

(* What a step of an install leaves of the record of pins, unless it opens *)
(* the lock file or is cut short while it writes it.                       *)
LEMMA RecordedKept ==
  ASSUME MaxActive = 1, IInv, SerialInv, NEW i \in Install, Step(i),
         ~OpenLock(i), ~(task[i].pc = "locking" /\ task'[i].pc \in {"dead", "warned"})
  PROVE  Recorded' = Recorded
<1>1. TaskInv /\ task \in [Install -> Task]  BY DEF IInv, TaskInv
<1>2. \A j \in Install \ {i} : task'[j] = task[j] /\ task[j].pc # "locking"
  BY OthersIdle DEF SerialInv, Active, PC
<1>3. CASE task[i].pc = "locking"
  <2>1. ~WriteLockFails(i) /\ ~Die(i)
    BY <1>1, <1>3, EndEnds DEF WriteLockFails, Die
  <2>2. WriteLock(i)
    BY <1>3, <2>1 DEF Step, Resolve, ResolveUnread, MayBegin, Fetch, Reject, OpenBinary,
       OpenBinaryFails, WriteBinary, WriteBinaryFails, ReadLock, ReadLockFails, OpenLock,
       OpenLockFails, Active, PC
  <2>3. lock = Unreadable("empty")  BY <1>3 DEF SerialInv, OwnFiles
  <2>4. lock'.entries = task[i].entries
    BY <2>2, <2>3 DEF WriteLock, Overlaid
  <2>5. task'[i].pc = "ok"  BY <1>1, <2>2, EndEnds DEF WriteLock
  <2>6. Recorded' = lock'.entries  BY <1>2, <2>5 DEF Recorded
  <2>7. {j \in Install : task[j].pc = "locking"} = {i}  BY <1>2, <1>3
  <2>8. Recorded = task[i].entries  BY <1>3, <2>7 DEF Recorded
  <2>9. QED  BY <2>4, <2>6, <2>8
<1>4. CASE task[i].pc # "locking"
  <2>1. lock' = lock
    BY <1>4 DEF Step, Resolve, ResolveUnread, Fetch, Reject, OpenBinary, OpenBinaryFails,
       WriteBinary, WriteBinaryFails, ReadLock, ReadLockFails, OpenLockFails, WriteLock,
       WriteLockFails, Die
  <2>2. task'[i].pc # "locking"
    <3>1. CASE Resolve(i) \/ ResolveUnread(i)
      BY <1>1, <3>1 DEF Resolve, ResolveUnread, NewTask
    <3>2. CASE Fetch(i)  BY <1>1, <3>2 DEF Fetch, Task
    <3>3. CASE ReadLock(i) \/ ReadLockFails(i)
      BY <1>1, <3>3 DEF ReadLock, ReadLockFails, Task
    <3>4. CASE OpenBinary(i) \/ WriteBinary(i)
      BY <1>1, <3>4, GotoFields DEF OpenBinary, WriteBinary
    <3>5. CASE Reject(i) \/ OpenBinaryFails(i) \/ WriteBinaryFails(i) \/ OpenLockFails(i)
               \/ WriteLock(i) \/ WriteLockFails(i) \/ Die(i)
      BY <1>1, <3>5, EndEnds
         DEF Reject, OpenBinaryFails, WriteBinaryFails, OpenLockFails, WriteLock,
             WriteLockFails, Die
    <3>6. QED  BY <3>1, <3>2, <3>3, <3>4, <3>5 DEF Step
  <2>3. Recorded = lock.entries  BY <1>2, <1>4 DEF Recorded
  <2>4. Recorded' = lock'.entries  BY <1>2, <2>2 DEF Recorded
  <2>5. QED  BY <2>1, <2>3, <2>4
<1>5. QED  BY <1>3, <1>4

(* An install that has read the lock file and opens it is about to put back *)
(* every pin of the other engines, and of its own the one it follows or    *)
(* the one it was asked for.                                               *)
LEMMA PinsPutBack ==
  ASSUME MaxActive = 1, IInv, SerialInv, NEW i \in Install, OpenLock(i), NEW e \in Engine,
         ~task[i].unread
  PROVE  Pins(e)' = IF EngineOf[i] = e /\ Request[i] # "unspecified"
                    THEN AskedPin(i) ELSE Pins(e)
<1>1. TaskInv /\ task \in [Install -> Task]  BY DEF IInv, TaskInv
<1>2. \A j \in Install \ {i} : task'[j] = task[j] /\ task[j].pc # "locking"
  BY OthersIdle DEF SerialInv, Active, PC, Step
<1>3. task[i].pc = "lock" /\ Goto(i, "locking")  BY DEF OpenLock
<1>4. task'[i].pc = "locking" /\ task'[i].entries = task[i].entries
  BY <1>1, <1>3, GotoFields
<1>5. Recorded = lock.entries  BY <1>2, <1>3 DEF Recorded
<1>6. {j \in Install : task'[j].pc = "locking"} = {i}  BY <1>2, <1>4
<1>7. Recorded' = task[i].entries
  <2>1. Recorded' = UNION {task'[j].entries : j \in {i}}  BY <1>4, <1>6 DEF Recorded
  <2>2. QED  BY <1>4, <2>1
<1>8. task[i].entries = Updated(lock.entries, NewEntry(i))
  BY <1>3 DEF SerialInv, OwnFiles
<1> DEFINE new == NewEntry(i)
<1>9. new.engine = EngineOf[i] /\ new.version = task[i].version /\ new.pinned = task[i].pinned
  BY DEF NewEntry
<1> HIDE DEF new
<1>10. Pins(e) = PinnedTo(e)  BY <1>5 DEF Pins, PinnedTo
<1>11. Pins(e)' = {x.version : x \in {y \in task[i].entries : y.engine = e /\ y.pinned}}
  BY <1>7 DEF Pins
<1>12. CASE EngineOf[i] # e
  <2>1. {y \in task[i].entries : y.engine = e /\ y.pinned}
          = {y \in lock.entries : y.engine = e /\ y.pinned}
    <3>1. task[i].entries = {x \in lock.entries : x.engine # EngineOf[i]} \cup {new}
      BY <1>8, <1>9 DEF Updated, new
    <3>2. QED  BY <1>9, <1>12, <3>1
  <2>2. Pins(e)' = PinnedTo(e)  BY <1>11, <2>1 DEF PinnedTo
  <2>3. Pins(e)' = Pins(e)  BY <1>10, <2>2
  <2>4. QED  BY <1>12, <2>3
<1>13. CASE EngineOf[i] = e
  <2>1. HeldPin(i) = IF Request[i] = "unspecified" THEN Pins(e) ELSE AskedPin(i)
    BY <1>3, <1>10, <1>13 DEF SerialInv, OwnPin, Follows
  <2>2. {y \in task[i].entries : y.engine = e /\ y.pinned}
          = IF task[i].pinned THEN {new} ELSE {}
    BY <1>8, <1>9, <1>13 DEF Updated, new
  <2>3. Pins(e)' = HeldPin(i)  BY <1>9, <1>11, <2>2 DEF HeldPin
  <2>4. QED  BY <1>13, <2>1, <2>3
<1>14. QED  BY <1>12, <1>13

(* While installs do not overlap, the pin of an engine becomes what an      *)
(* install of it asked for (resolveRelease), or it is lost to an accident: *)
(* readLock failed in an install that wrote the file after it, or the      *)
(* writing was cut short (writeLockEntry).                                 *)
THEOREM SerialPinsKept ==
  ASSUME MaxActive = 1  PROVE Spec => PinsKept
<1> DEFINE Accounted(e, i) ==
      \/ /\ task[i].pc = "lock" /\ EngineOf[i] = e
         /\ Request[i] # "unspecified" /\ Pins(e)' = AskedPin(i)
      \/ task[i].pc = "lock" /\ task[i].unread
      \/ task[i].pc = "locking" /\ task'[i].pc \in {"dead", "warned"}
    Kept ==
      \A e \in Engine : Pins(e)' # Pins(e) => \E i \in Install : Accounted(e, i)
<1>1. ASSUME IInv, SerialInv, [Next]_vars PROVE [Kept]_vars
  <2>1. SUFFICES ASSUME NEW i \in Install, Step(i), NEW e \in Engine, Pins(e)' # Pins(e)
                 PROVE  Accounted(e, i)
    BY <1>1 DEF Next
  <2>2. CASE OpenLock(i)
    <3>1. task[i].pc = "lock"  BY <2>2 DEF OpenLock
    <3>2. CASE task[i].unread  BY <3>1, <3>2
    <3>3. CASE ~task[i].unread
      <4>1. Pins(e)' = IF EngineOf[i] = e /\ Request[i] # "unspecified"
                       THEN AskedPin(i) ELSE Pins(e)
        BY <1>1, <2>2, <3>3, PinsPutBack
      <4>2. QED  BY <2>1, <3>1, <4>1
    <3>4. QED  BY <3>2, <3>3
  <2>3. CASE ~OpenLock(i)
    <3>1. SUFFICES ASSUME ~(task[i].pc = "locking" /\ task'[i].pc \in {"dead", "warned"})
                   PROVE  FALSE
      OBVIOUS
    <3>2. Recorded' = Recorded  BY <1>1, <2>1, <2>3, <3>1, RecordedKept
    <3>3. QED  BY <2>1, <3>2 DEF Pins
  <2>4. QED  BY <2>2, <2>3
<1>2. QED
  BY <1>1, InitInv, StepInv, InitSerial, StepSerial, PTL DEF Spec, PinsKept
=============================================================================
