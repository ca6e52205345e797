---------------------------- MODULE EngineInstall ----------------------------
(***************************************************************************)
(* Installs of engines into the managed directory, by requests of the web  *)
(* interface and by `vigila engine install`, in any number of processes    *)
(* that share the directory and take no lock.  Requests that do not parse, *)
(* or name an engine that cannot be installed, end before they touch it.   *)
(*                                                                         *)
(* An install resolves a version, fetches and verifies a release, writes   *)
(* the binary, and updates engines.lock.json.  Both files are written in   *)
(* place by os.WriteFile: opening truncates, then one write fills the file, *)
(* and these are two steps.  A step here is one access to a shared file    *)
(* with the local work after it.                                           *)
(***************************************************************************)
EXTENDS Naturals, FiniteSets

CONSTANTS
  Install,    \* installs users ask for, each as often as they like
  Engine,     \* engines that can be installed
  Version,    \* released versions
  EngineOf,   \* the engine an install is of
  Request,    \* its version: one of Version, "latest" or "unspecified"
  Signed,     \* engines whose checksums are signed by their release workflow
  Versioned,  \* engines whose asset names carry the version
  MaxActive,  \* installs that may be under way at once
  MaxDeaths,  \* installs that may be killed
  MaxFaults   \* file operations, reads too, that may fail (disk full, file in use)

(* What a binary is: the release it is part of, or anything else.          *)
Damaged == "damaged"
Content == Version \cup {Damaged}
NotWhole == {"absent", "empty", "torn"}

ASSUME InstallAssumption ==
  /\ EngineOf \in [Install -> Engine]
  /\ Request \in [Install -> Version \cup {"latest", "unspecified"}]
  /\ Signed \subseteq Versioned
  /\ Versioned \subseteq Engine
ASSUME VersionAssumption ==
  Version \cap (NotWhole \cup {Damaged, "latest", "unspecified"}) = {}
ASSUME BoundAssumption ==
  MaxActive \in Nat /\ MaxDeaths \in Nat /\ MaxFaults \in Nat

VARIABLES
  binary,  \* the executable of each engine in the managed directory
  lock,    \* engines.lock.json
  task,    \* the place and the locals of each install
  deaths, faults

vars == <<binary, lock, task, deaths, faults>>

(* sha: the content the entry's checksum is of.                            *)
Entry ==
  [engine : Engine, version : Version, pinned : BOOLEAN,
   sha : Content, verified : BOOLEAN]

(* "json" is a file that parses; any other text is read as no entries.     *)
Lock == [text : {"absent", "empty", "torn", "json"}, entries : SUBSET Entry]

(* A checksums file: the release it is of, the content its line for that    *)
(* release's asset is the sum of, and whether it carries a signature of the *)
(* engine's own workflow, which signs nothing but its releases.             *)
Checksums ==
  {d \in [version : Version, sum : Content, signed : BOOLEAN] :
     d.signed => d.sum = d.version}

(* version: what is asked for, then what was fetched; entries: what is to  *)
(* be written to the lock file; unread: whether a read of the lock file     *)
(* has failed, which the code does not keep and the properties tell.       *)
PC == {"idle", "fetch", "write", "writing", "record", "lock", "locking",
       "ok", "warned", "failed", "dead"}
Active == PC \ {"idle", "ok", "warned", "failed", "dead"}
Task ==
  [pc : PC, version : Version \cup {"latest"}, pinned : BOOLEAN,
   content : Content, entries : SUBSET Entry, unread : BOOLEAN]

OneEach(entries) == \A x, y \in entries : x.engine = y.engine => x = y

TypeOK ==
  /\ binary \in [Engine -> Content \cup NotWhole]
  /\ lock \in Lock /\ OneEach(lock.entries)
  /\ lock.text # "json" => lock.entries = {}
  /\ task \in [Install -> Task]
  /\ \A i \in Install : OneEach(task[i].entries)
  /\ deaths \in 0..MaxDeaths /\ faults \in 0..MaxFaults

NewTask ==
  [pc |-> "idle", version |-> "latest", pinned |-> FALSE,
   content |-> Damaged, entries |-> {}, unread |-> FALSE]

Unreadable(text) == [text |-> text, entries |-> {}]

Init ==
  /\ binary = [e \in Engine |-> "absent"]
  /\ lock = Unreadable("absent")
  /\ task = [i \in Install |-> NewTask]
  /\ deaths = 0 /\ faults = 0

Goto(i, pc) == task' = [task EXCEPT ![i].pc = pc]

(* A finished install keeps only its outcome.                              *)
End(i, outcome) == task' = [task EXCEPT ![i] = [NewTask EXCEPT !.pc = outcome]]

Fault == faults < MaxFaults /\ faults' = faults + 1

(* What the file holds after a process that opened it earlier writes new   *)
(* at its start, when by now it holds old: if another process wrote in     *)
(* between, the longer of the two shows through.                           *)
Overlaid(old, new, empty, torn) ==
  IF old \in {empty, new} THEN {new} ELSE {new, torn}

-----------------------------------------------------------------------------
(* The version the lock file pins an engine to, if it is and can be read.  *)
PinnedTo(e) == {x.version : x \in {y \in lock.entries : y.engine = e /\ y.pinned}}

(* Mutant: the pinned version is followed but no longer pinned.             *)
ResolvesUnpinned(i, version, pinned) ==
  \/ Request[i] \in Version /\ version = Request[i] /\ pinned
  \/ /\ Request[i] = "unspecified"
     /\ version \in PinnedTo(EngineOf[i]) /\ ~pinned
  \/ /\ \/ Request[i] = "latest"
        \/ Request[i] = "unspecified" /\ PinnedTo(EngineOf[i]) = {}
     /\ version = "latest" /\ ~pinned

(* resolveRelease: what version to ask for, and whether it is pinned.      *)
Resolves(i, version, pinned) ==
  \/ Request[i] \in Version /\ version = Request[i] /\ pinned
  \/ /\ Request[i] = "unspecified"
     /\ version \in PinnedTo(EngineOf[i]) /\ pinned
  \/ /\ \/ Request[i] = "latest"
        \/ Request[i] = "unspecified" /\ PinnedTo(EngineOf[i]) = {}
     /\ version = "latest" /\ ~pinned

MayBegin(i) ==
  /\ task[i].pc \notin Active
  /\ Cardinality({j \in Install : task[j].pc \in Active}) < MaxActive

Resolve(i) ==
  /\ MayBegin(i)
  /\ \E version \in Version \cup {"latest"}, pinned \in BOOLEAN :
       /\ Resolves(i, version, pinned)
       /\ task' = [task EXCEPT ![i] =
            [NewTask EXCEPT !.pc = "fetch", !.version = version,
                            !.pinned = pinned]]
  /\ UNCHANGED <<binary, lock, deaths, faults>>

(* readLock takes any error for an empty file: no engine is pinned.        *)
ResolveUnread(i) ==
  /\ MayBegin(i)
  /\ Request[i] = "unspecified"
  /\ Fault
  /\ task' = [task EXCEPT ![i] =
       [NewTask EXCEPT !.pc = "fetch", !.unread = TRUE]]
  /\ UNCHANGED <<binary, lock, deaths>>

(* The release of a tag is that version; the latest one may be any.        *)
Released(want) == IF want = "latest" THEN Version ELSE {want}

(* Mutants: signatures are not required; a checksum is taken from whatever *)
(* release the checksums are of.                                           *)
SignatureIgnored(e, sums) == TRUE
ChecksumOfAnyRelease(e, v, sums) == TRUE

(* verifySignature: required of the engines that have one.                 *)
SignatureHolds(e, sums) == e \in Signed => sums.signed

(* parseChecksum: the line of the asset, found by the asset's name.        *)
ChecksumFound(e, v, sums) == e \in Versioned => sums.version = v

Verified(e, v, archive, sums) ==
  /\ SignatureHolds(e, sums)
  /\ ChecksumFound(e, v, sums)
  /\ archive = sums.sum

Fetch(i) ==
  /\ task[i].pc = "fetch"
  /\ \E v \in Released(task[i].version), archive \in Content,
       sums \in Checksums :
       /\ Verified(EngineOf[i], v, archive, sums)
       /\ task' = [task EXCEPT ![i].pc = "write", ![i].version = v,
                               ![i].content = archive]
  /\ UNCHANGED <<binary, lock, deaths, faults>>

(* Every error before the binary is written: no such release or asset, a   *)
(* failed download, a signature or a checksum that does not hold, an       *)
(* archive without the binary.                                             *)
Reject(i) ==
  /\ task[i].pc = "fetch"
  /\ End(i, "failed")
  /\ UNCHANGED <<binary, lock, deaths, faults>>

-----------------------------------------------------------------------------
(* Mutant: the old binary is not truncated.                                *)
OpenBinaryInPlace(i) ==
  /\ task[i].pc = "write"
  /\ Goto(i, "writing")
  /\ UNCHANGED <<binary, lock, deaths, faults>>

(* writeBinary                                                             *)
OpenBinary(i) ==
  /\ task[i].pc = "write"
  /\ binary' = [binary EXCEPT ![EngineOf[i]] = "empty"]
  /\ Goto(i, "writing")
  /\ UNCHANGED <<lock, deaths, faults>>

OpenBinaryFails(i) ==
  /\ task[i].pc = "write"
  /\ Fault
  /\ End(i, "failed")
  /\ UNCHANGED <<binary, lock, deaths>>

WriteBinary(i) ==
  LET e == EngineOf[i] new == task[i].content
  IN /\ task[i].pc = "writing"
     /\ \E file \in Overlaid(binary[e], new, "empty", "torn") :
          binary' = [binary EXCEPT ![e] = file]
     /\ Goto(i, "record")
     /\ UNCHANGED <<lock, deaths, faults>>

WriteBinaryFails(i) ==
  LET e == EngineOf[i]
  IN /\ task[i].pc = "writing"
     /\ Fault
     /\ \E file \in {binary[e], "torn"} :
          binary' = [binary EXCEPT ![e] = file]
     /\ End(i, "failed")
     /\ UNCHANGED <<lock, deaths>>

-----------------------------------------------------------------------------
(* writeLockEntry; its failure is only a warning, as the binary is there.  *)
NewEntry(i) ==
  [engine |-> EngineOf[i], version |-> task[i].version,
   pinned |-> task[i].pinned, sha |-> task[i].content,
   verified |-> EngineOf[i] \in Signed]

Updated(entries, new) == {x \in entries : x.engine # new.engine} \cup {new}

ReadLock(i) ==
  /\ task[i].pc = "record"
  /\ task' = [task EXCEPT ![i].pc = "lock",
                          ![i].entries = Updated(lock.entries, NewEntry(i))]
  /\ UNCHANGED <<binary, lock, deaths, faults>>

(* Taken for an empty file here, too, which is then written as one.        *)
ReadLockFails(i) ==
  /\ task[i].pc = "record"
  /\ Fault
  /\ task' = [task EXCEPT ![i].pc = "lock", ![i].entries = {NewEntry(i)},
                          ![i].unread = TRUE]
  /\ UNCHANGED <<binary, lock, deaths>>

OpenLock(i) ==
  /\ task[i].pc = "lock"
  /\ lock' = Unreadable("empty")
  /\ Goto(i, "locking")
  /\ UNCHANGED <<binary, deaths, faults>>

OpenLockFails(i) ==
  /\ task[i].pc = "lock"
  /\ Fault
  /\ End(i, "warned")
  /\ UNCHANGED <<binary, lock, deaths>>

WriteLock(i) ==
  /\ task[i].pc = "locking"
  /\ lock' \in Overlaid(lock, [text |-> "json", entries |-> task[i].entries],
                        Unreadable("empty"), Unreadable("torn"))
  /\ End(i, "ok")
  /\ UNCHANGED <<binary, deaths, faults>>

WriteLockFails(i) ==
  /\ task[i].pc = "locking"
  /\ Fault
  /\ lock' \in {lock, Unreadable("torn")}
  /\ End(i, "warned")
  /\ UNCHANGED <<binary, deaths>>

-----------------------------------------------------------------------------
(* The process of an install is killed, possibly in the middle of a write. *)
Die(i) ==
  /\ task[i].pc \in Active
  /\ deaths < MaxDeaths /\ deaths' = deaths + 1
  /\ End(i, "dead")
  /\ IF task[i].pc = "writing"
     THEN \E file \in {binary[EngineOf[i]], "torn"} :
            binary' = [binary EXCEPT ![EngineOf[i]] = file]
     ELSE binary' = binary
  /\ IF task[i].pc = "locking"
     THEN lock' \in {lock, Unreadable("torn")}
     ELSE lock' = lock
  /\ faults' = faults

Step(i) ==
  \/ Resolve(i) \/ ResolveUnread(i) \/ Fetch(i) \/ Reject(i)
  \/ OpenBinary(i) \/ OpenBinaryFails(i)
  \/ WriteBinary(i) \/ WriteBinaryFails(i)
  \/ ReadLock(i) \/ ReadLockFails(i) \/ OpenLock(i) \/ OpenLockFails(i)
  \/ WriteLock(i) \/ WriteLockFails(i)
  \/ Die(i)

Next == \E i \in Install : Step(i)

Spec == Init /\ [][Next]_vars

-----------------------------------------------------------------------------
(* A binary of an engine whose upstream signs is, when whole, one that      *)
(* upstream released: nothing else gets past signature and checksum, and    *)
(* concurrent installs of the engine do not change that.                    *)
SignedIsGenuine ==
  \A e \in Signed : binary[e] \in Content => binary[e] \in Version

(* An entry of the lock file that claims a verified signature is of the    *)
(* engine's released binary of the version it names, whatever installs     *)
(* read and wrote the file meanwhile; one without is of an engine that has *)
(* no signatures.                                                          *)
TrueEntry(x) ==
  IF x.verified THEN x.sha = x.version ELSE x.engine \notin Signed

RecordIsTrue == \A x \in lock.entries : TrueEntry(x)

(* An install that reports success leaves its binary whole, and its entry   *)
(* in the lock file unless it warned that it could not write that.  True    *)
(* while installs do not overlap.                                          *)
EndsAsReported ==
  [][\A i \in Install :
       task[i].pc \in Active /\ task'[i].pc \in {"ok", "warned"} =>
         /\ binary'[EngineOf[i]] = task[i].content
         /\ task'[i].pc = "ok" => NewEntry(i) \in lock'.entries]_vars

(* The pins on record: those of the file or, while it is truncated, those  *)
(* the install that is writing it is about to put back.                    *)
Recorded ==
  IF \E i \in Install : task[i].pc = "locking"
  THEN UNION {task[i].entries : i \in {j \in Install : task[j].pc = "locking"}}
  ELSE lock.entries
Pins(e) == {x.version : x \in {y \in Recorded : y.engine = e /\ y.pinned}}

(* README: a version once pinned is used by later installs that name none, *)
(* and only @latest or another version changes the pin.  While installs do *)
(* not overlap, the pin of an engine becomes what an install of it asks    *)
(* for, or it is lost to one of two accidents: the install that writes the *)
(* lock file could not read it before, of which the user is told nothing,  *)
(* or the writing was cut short.                                           *)
AskedPin(i) == {Request[i]} \cap Version
PinsKept ==
  [][\A e \in Engine :
       Pins(e)' # Pins(e) =>
         \E i \in Install :
           \/ /\ task[i].pc = "lock" /\ EngineOf[i] = e
              /\ Request[i] # "unspecified" /\ Pins(e)' = AskedPin(i)
           \/ task[i].pc = "lock" /\ task[i].unread
           \/ task[i].pc = "locking" /\ task'[i].pc \in {"dead", "warned"}]_vars
=============================================================================
