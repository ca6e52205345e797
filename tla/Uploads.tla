------------------------------- MODULE Uploads -------------------------------
(***************************************************************************)
(* Requests to the API, and above all the upload of an archive: it is      *)
(* unpacked into a directory of its own, entry by entry, and scanned in    *)
(* the background, after which the directory goes.  The process may be     *)
(* killed at any time; the directories outlive it.                         *)
(***************************************************************************)
EXTENDS RateLimit, Sequences

CONSTANTS
  Request,
  SourceOf,   \* of a request: whence it comes
  Authorized, \* the requests with the token, if one is set
  Uploading,  \* the requests that upload
  Archive,    \* what they upload: a format and entries
  Limit,      \* bytes an archive may unpack to
  MaxClock,   \* ticks that pass
  MaxFaults,  \* writes and removals that may fail
  MaxKills    \* times the server may be killed

(* A zip's symbolic link is written as a file of the link's text; an entry *)
(* that leads outside, or cannot be read to its end, is of its own kind.   *)
ArchiveEntry ==
  [kind : {"file", "dir", "link", "outside", "damaged"},
   name : Seq(STRING), size : Nat]

ASSUME ArchiveAssumption ==
  Archive \subseteq [format : {"tar", "zip"}, entries : Seq(ArchiveEntry)]

ASSUME UploadAssumption ==
  /\ SourceOf \in [Request -> Source]
  /\ Authorized \subseteq Request /\ Uploading \subseteq Request
  /\ Limit \in Nat
  /\ MaxClock \in Nat /\ MaxFaults \in Nat /\ MaxKills \in Nat

VARIABLES
  request,  \* how far each is
  tree,     \* the directory of each, if there is one
  faults,
  kills,
  left      \* history: requests whose directory nobody will remove

vars == <<clock, buckets, request, tree, faults, kills, left>>

(* A name is a path: the directories above, and the last part.             *)
Above(name) == {SubSeq(name, 1, i) : i \in 1..Len(name) - 1}

Gone == [dirs |-> {}, files |-> <<>>, made |-> FALSE]
Empty == [Gone EXCEPT !.made = TRUE]

Blank == [at |-> "new", now |-> 0, archive |-> 0, fit |-> TRUE, next |-> 1, total |-> 0]

Init ==
  /\ LimiterInit
  /\ request = [r \in Request |-> Blank]
  /\ tree = [r \in Request |-> Gone]
  /\ faults = 0 /\ kills = 0 /\ left = {}

Done == [Blank EXCEPT !.at = "done"]

Goto(r, at) ==
  request' = [request EXCEPT ![r] = IF at = "done" THEN Done ELSE [@ EXCEPT !.at = at]]

At(r, at) == request[r].at = at

-----------------------------------------------------------------------------
(* The middlewares *)

Ask(r) ==
  /\ At(r, "new")
  /\ request' = [request EXCEPT ![r].at = "asked", ![r].now = clock]
  /\ UNCHANGED <<limiterVars, tree, faults, kills, left>>

Unauthorized(r) ==
  /\ At(r, "asked") /\ r \notin Authorized
  /\ Goto(r, "done")
  /\ UNCHANGED <<limiterVars, tree, faults, kills, left>>

(* Of the other handlers it matters here only that they took a token.      *)
Admit(r) ==
  /\ At(r, "asked") /\ r \in Authorized
  /\ Allow(SourceOf[r], request[r].now)
  /\ LET on == Allowed(SourceOf[r], request[r].now) /\ r \in Uploading
     IN Goto(r, IF on THEN "handled" ELSE "done")
  /\ UNCHANGED <<clock, tree, faults, kills, left>>

-----------------------------------------------------------------------------
(* uploadAndScan *)

(* The form is too large, without a file, of another format, or with an    *)
(* exclusion that is not valid; or no directory could be made.             *)
BadForm(r) ==
  /\ At(r, "handled")
  /\ Goto(r, "done")
  /\ UNCHANGED <<limiterVars, tree, faults, kills, left>>

GoodForm(r, archive, fit) ==
  /\ At(r, "handled")
  /\ request' = [request EXCEPT ![r].at = "unpacking", ![r].archive = archive,
                                ![r].fit = fit]
  /\ tree' = [tree EXCEPT ![r] = Empty]
  /\ UNCHANGED <<limiterVars, faults, kills, left>>

Skipped(archive, entry) == archive.format = "tar" /\ entry.kind = "link"

(* An archive that cannot be opened has one entry that is damaged.         *)
EntryOf(r) == request[r].archive.entries[request[r].next]

More(r) ==
  At(r, "unpacking") /\ request[r].next <= Len(request[r].archive.entries)

(* safeJoin refuses it, or a file is where a directory must be, or the     *)
(* other way round.                                                        *)
CannotBe(t, e) ==
  \/ e.kind = "outside"
  \/ Above(e.name) \cap DOMAIN t.files # {}
  \/ e.kind = "dir" /\ e.name \in DOMAIN t.files
  \/ e.kind # "dir" /\ e.name \in t.dirs

(* Mutant: the limit of each file is that of the whole.                    *)
RemainingForOne(r) == Limit

Remaining(r) == Limit - request[r].total

(* What LimitReader lets through: one byte more tells that it was too long. *)
Written(r, size) == IF size <= Remaining(r) + 1 THEN size ELSE Remaining(r) + 1

WithDirs(t, names) == [t EXCEPT !.dirs = @ \cup names]

WithFile(t, name, n) ==
  [WithDirs(t, Above(name)) EXCEPT
     !.files = [x \in DOMAIN t.files \cup {name} |-> IF x = name THEN n ELSE t.files[x]]]

Advance(r, n) ==
  request' = [request EXCEPT ![r].next = @ + 1, ![r].total = @ + n]

UnpackNothing(r) ==
  /\ More(r) /\ Skipped(request[r].archive, EntryOf(r))
  /\ Advance(r, 0)
  /\ UNCHANGED <<limiterVars, tree, faults, kills, left>>

UnpackDir(r) ==
  /\ More(r) /\ EntryOf(r).kind = "dir" /\ ~CannotBe(tree[r], EntryOf(r))
  /\ tree' = [tree EXCEPT ![r] = WithDirs(@, Above(EntryOf(r).name) \cup {EntryOf(r).name})]
  /\ Advance(r, 0)
  /\ UNCHANGED <<limiterVars, faults, kills, left>>

IsFile(r) ==
  /\ EntryOf(r).kind \in {"file", "link", "damaged"}
  /\ ~Skipped(request[r].archive, EntryOf(r))
  /\ ~CannotBe(tree[r], EntryOf(r))

(* The file is left as far as it was written when it exceeds what remains, *)
(* or cannot be read or written to its end.                                *)
UnpackFile(r) ==
  /\ More(r) /\ IsFile(r)
  /\ LET e == EntryOf(r)
         n == Written(r, e.size)
     IN /\ tree' = [tree EXCEPT ![r] = WithFile(@, e.name, n)]
        /\ IF e.kind = "damaged" \/ n > Remaining(r) \/ request[r].total + n > Limit
           THEN Goto(r, "removing") ELSE Advance(r, n)
  /\ UNCHANGED <<limiterVars, faults, kills, left>>

WriteFails(r) ==
  /\ More(r) /\ IsFile(r)
  /\ faults < MaxFaults /\ faults' = faults + 1
  /\ tree' = [tree EXCEPT ![r] = WithFile(@, EntryOf(r).name, 0)]
  /\ Goto(r, "removing")
  /\ UNCHANGED <<limiterVars, kills, left>>

UnpackFails(r) ==
  /\ More(r) /\ CannotBe(tree[r], EntryOf(r)) /\ ~Skipped(request[r].archive, EntryOf(r))
  /\ Goto(r, "removing")
  /\ UNCHANGED <<limiterVars, tree, faults, kills, left>>

Unpacked(r) ==
  /\ At(r, "unpacking") /\ ~More(r)
  /\ Goto(r, "unpacked")
  /\ UNCHANGED <<limiterVars, tree, faults, kills, left>>

(* Mutant: an engine that does not fit is reported and nothing else.       *)
ResolveOrReturn(r) ==
  /\ At(r, "unpacked")
  /\ Goto(r, IF request[r].fit THEN "scanning" ELSE "done")
  /\ UNCHANGED <<limiterVars, tree, faults, kills, left>>

(* Mutant: the directory is removed when the handler returns.              *)
ResolveAndRemove(r) ==
  /\ At(r, "unpacked")
  /\ Goto(r, IF request[r].fit THEN "scanning" ELSE "done")
  /\ tree' = [tree EXCEPT ![r] = Gone]
  /\ UNCHANGED <<limiterVars, faults, kills, left>>

(* The engines named accept a directory, or none is named.                 *)
Resolve(r) ==
  /\ At(r, "unpacked")
  /\ Goto(r, IF request[r].fit THEN "scanning" ELSE "removing")
  /\ UNCHANGED <<limiterVars, tree, faults, kills, left>>

(* In the background, whether the scan failed or not.                      *)
ScanEnds(r) ==
  /\ At(r, "scanning")
  /\ Goto(r, "removing")
  /\ UNCHANGED <<limiterVars, tree, faults, kills, left>>

Remove(r) ==
  /\ At(r, "removing")
  /\ tree' = [tree EXCEPT ![r] = Gone]
  /\ Goto(r, "done")
  /\ UNCHANGED <<limiterVars, faults, kills, left>>

(* RemoveAll's error is dropped.                                           *)
RemoveFails(r) ==
  /\ At(r, "removing")
  /\ faults < MaxFaults /\ faults' = faults + 1
  /\ left' = left \cup {r}
  /\ Goto(r, "done")
  /\ UNCHANGED <<limiterVars, tree, kills>>

-----------------------------------------------------------------------------
Pass ==
  /\ clock < MaxClock
  /\ Tick
  /\ UNCHANGED <<request, tree, faults, kills, left>>

(* With the process go its requests, its scans and its buckets.            *)
Kill ==
  /\ kills < MaxKills /\ kills' = kills + 1
  /\ request' = [r \in Request |->
       IF At(r, "new") THEN request[r] ELSE Done]
  /\ left' = left \cup {r \in Request : ~At(r, "done") /\ tree[r].made}
  /\ buckets' = NoBuckets
  /\ UNCHANGED <<clock, tree, faults>>

Step(r) ==
  \/ Ask(r) \/ Unauthorized(r) \/ Admit(r) \/ BadForm(r)
  \/ (\E archive \in Archive, fit \in BOOLEAN : GoodForm(r, archive, fit))
  \/ UnpackNothing(r) \/ UnpackDir(r) \/ UnpackFile(r) \/ WriteFails(r)
  \/ UnpackFails(r) \/ Unpacked(r) \/ Resolve(r) \/ ScanEnds(r)
  \/ Remove(r) \/ RemoveFails(r)

Next == (\E r \in Request : Step(r)) \/ Pass \/ Kill

Spec == Init /\ [][Next]_vars

-----------------------------------------------------------------------------
(* What the archive holds, read off its entries: of two files of one name  *)
(* the last counts; tar's links are not files and zip's are.               *)
FilesIn(archive) ==
  {i \in DOMAIN archive.entries :
     LET e == archive.entries[i]
     IN e.kind = "file" \/ (e.kind = "link" /\ archive.format = "zip")}

Holds(archive, name, size) ==
  \E i \in FilesIn(archive) :
    /\ archive.entries[i].name = name /\ archive.entries[i].size = size
    /\ \A j \in FilesIn(archive) : archive.entries[j].name = name => j <= i

(* The bytes on disk, each named by its file and its place in it.          *)
Bytes(r) == UNION {{name} \X (1..tree[r].files[name]) : name \in DOMAIN tree[r].files}
Size(r) == Cardinality(Bytes(r))

(* Whatever is scanned is there, and it is all of the archive and nothing  *)
(* else: never an archive cut short, by whichever check, nor one whose     *)
(* directory is already being removed.                                     *)
ScannedWhole ==
  \A r \in Request :
    At(r, "scanning") =>
      /\ tree[r].made
      /\ \A i \in FilesIn(request[r].archive) :
           request[r].archive.entries[i].name \in DOMAIN tree[r].files
      /\ \A name \in DOMAIN tree[r].files :
           Holds(request[r].archive, name, tree[r].files[name])

(* What the files of an archive take up to an entry, wherever they go.     *)
BytesUpTo(archive, last) ==
  UNION {{i} \X (1..archive.entries[i].size) : i \in {j \in FilesIn(archive) : j <= last}}

(* The unpacking was given up at an entry that could not be unpacked, or   *)
(* with which the files of the archive exceed the limit.                   *)
GivenUpForCause(r) ==
  At(r, "removing") /\ request[r].next <= Len(request[r].archive.entries) =>
    \/ EntryOf(r).kind = "damaged"
    \/ CannotBe(tree[r], EntryOf(r))
    \/ Cardinality(BytesUpTo(request[r].archive, request[r].next)) > Limit

(* The limit is exact.  An upload never takes more of the disk than it and *)
(* the byte that tells it is exceeded, and what is scanned is within it;   *)
(* yet an archive of just that many bytes is unpacked, unless a write      *)
(* fails (extractZip, extractTarGz and writeFileLimited).                  *)
DiskBounded ==
  \A r \in Request :
    /\ Size(r) <= IF At(r, "scanning") THEN Limit ELSE Limit + 1
    /\ faults = 0 => GivenUpForCause(r)

(* A directory is there only while it is unpacked, scanned or about to be  *)
(* removed, unless the removal failed or the server was killed before it.  *)
NothingLeftBehind ==
  \A r \in Request :
    tree[r].made =>
      r \in left \/ request[r].at \in {"unpacking", "unpacked", "scanning", "removing"}
=============================================================================
