---------------------------- MODULE UploadsProofs ----------------------------
(***************************************************************************)
(* The limiter keeps its promise to every number of sources and requests,  *)
(* for every rate, in whatever order requests reach it; and an upload is   *)
(* scanned whole, within its limit, and removed, for every archive.        *)
(***************************************************************************)
EXTENDS Uploads, FiniteSetTheorems, TLAPS

(* The credit of a bucket: what it has, taken or not, is what it held when *)
(* it was made and what has been refilled up to its last request; counted  *)
(* on to the present, what it has is never negative.                       *)
Sound(b) ==
  /\ b.last <= clock /\ b.made <= clock
  /\ b.taken + b.tokens <= Burst + (b.last - b.made)
  /\ b.tokens + (clock - b.last) >= 0

LimiterInv ==
  /\ LimiterTypeOK
  /\ IsFiniteSet(DOMAIN buckets)
  /\ Cardinality(DOMAIN buckets) <= MaxBuckets + 1
  /\ \A s \in DOMAIN buckets : Sound(buckets[s])

AskedBefore == \A r \in Request : request[r].now \in Nat /\ request[r].now <= clock

IInv ==
  /\ LimiterInv
  /\ DOMAIN request = Request
  /\ AskedBefore

-----------------------------------------------------------------------------
LEMMA NoneIsSound ==
  /\ DOMAIN NoBuckets = {}
  /\ IsFiniteSet({}) /\ Cardinality({}) = 0
BY FS_EmptySet DEF NoBuckets

(* Dropping all of them leaves room for one more.                          *)
LEMMA KeptIsSound ==
  ASSUME LimiterInv
  PROVE  /\ DOMAIN Kept \subseteq Source
         /\ IsFiniteSet(DOMAIN Kept) /\ Cardinality(DOMAIN Kept) <= MaxBuckets
         /\ \A s \in DOMAIN Kept : Kept[s] \in Bucket /\ Sound(Kept[s])
<1>1. Cardinality(DOMAIN buckets) \in Nat /\ MaxBuckets \in Nat
  BY FS_CardinalityType, LimiterAssumption DEF LimiterInv
<1>2. CASE Cardinality(DOMAIN buckets) > MaxBuckets
  BY <1>1, <1>2, NoneIsSound DEF Kept
<1>3. CASE ~(Cardinality(DOMAIN buckets) > MaxBuckets)
  BY <1>1, <1>3 DEF Kept, LimiterInv, LimiterTypeOK
<1>4. QED  BY <1>2, <1>3

(* A request that read the clock before those that went first takes the    *)
(* bucket back to its time, and the next one forward again.                *)
LEMMA BucketIsSound ==
  ASSUME LimiterInv, NEW s \in Source, NEW now \in Nat, now <= clock
  PROVE  LET b == BucketOf(s, now)
         IN /\ b \in Bucket /\ Sound(b)
            /\ b.tokens >= Token => Taken(b) \in Bucket /\ Sound(Taken(b))
<1> DEFINE b == BucketOf(s, now)
<1>1. clock \in Nat /\ Burst \in Nat /\ Token \in Nat
  BY LimiterAssumption DEF LimiterInv, LimiterTypeOK
<1>2. b \in Bucket /\ Sound(b)
  <2>1. CASE s \in DOMAIN Kept
    <3> DEFINE k == Kept[s]
    <3>1. k \in Bucket /\ Sound(k)  BY <2>1, KeptIsSound
    <3>2. b = Refilled(k, now)  BY <2>1 DEF BucketOf
    <3> HIDE DEF k, b
    <3>3. QED  BY <1>1, <3>1, <3>2 DEF Refilled, Bucket, Sound
  <2>2. CASE s \notin DOMAIN Kept
    BY <1>1, <2>2 DEF BucketOf, Full, Bucket, Sound
  <2>3. QED  BY <2>1, <2>2
<1>3. ASSUME b.tokens >= Token PROVE Taken(b) \in Bucket /\ Sound(Taken(b))
  <2> HIDE DEF b
  <2>1. QED  BY <1>1, <1>2, <1>3 DEF Taken, Bucket, Sound
<1>4. QED  BY <1>2, <1>3

LEMMA AllowKeepsInv ==
  ASSUME LimiterInv, NEW s \in Source, NEW now \in Nat, now <= clock,
         Allow(s, now), clock' = clock
  PROVE  LimiterInv'
<1> DEFINE b == BucketOf(s, now)
           mine == IF b.tokens >= Token THEN Taken(b) ELSE b
<1>1. mine \in Bucket /\ Sound(mine)  BY BucketIsSound
<1>2. DOMAIN buckets' = DOMAIN Kept \cup {s}
  BY DEF Allow
<1>3. \A t \in DOMAIN buckets' : buckets'[t] = IF t # s THEN Kept[t] ELSE mine
  BY DEF Allow
<1> HIDE DEF mine
<1>4. \A t \in DOMAIN buckets' : buckets'[t] \in Bucket /\ Sound(buckets'[t])
  BY <1>1, <1>2, <1>3, KeptIsSound
<1>5. IsFiniteSet(DOMAIN buckets') /\ Cardinality(DOMAIN buckets') <= MaxBuckets + 1
  <2>1. Cardinality(DOMAIN Kept) \in Nat /\ MaxBuckets \in Nat
    BY KeptIsSound, FS_CardinalityType, LimiterAssumption
  <2>2. QED  BY <1>2, <2>1, KeptIsSound, FS_AddElement
<1>6. DOMAIN buckets' \subseteq Source  BY <1>2, KeptIsSound
<1>7. (\A t \in DOMAIN buckets : Sound(buckets[t]))'
  BY <1>4 DEF Sound
<1>8. QED  BY <1>4, <1>5, <1>6, <1>7 DEF LimiterInv, LimiterTypeOK

(* Time only fills.                                                        *)
LEMMA TickKeepsInv ==
  ASSUME LimiterInv, Tick
  PROVE  LimiterInv'
<1>1. clock \in Nat /\ clock' = clock + 1 /\ buckets' = buckets
  BY DEF LimiterInv, LimiterTypeOK, Tick
<1>2. ASSUME NEW s \in DOMAIN buckets PROVE Sound(buckets[s])'
  <2>1. buckets[s] \in Bucket /\ Sound(buckets[s]) /\ Burst \in Nat
    BY <1>2, LimiterAssumption DEF LimiterInv, LimiterTypeOK
  <2>2. QED  BY <1>1, <2>1 DEF Sound, Bucket
<1>3. QED  BY <1>1, <1>2 DEF LimiterInv, LimiterTypeOK

-----------------------------------------------------------------------------
LEMMA InitInv == Init => IInv
<1> SUFFICES ASSUME Init PROVE IInv  OBVIOUS
<1>1. LimiterInv
  BY NoneIsSound, LimiterAssumption
     DEF Init, LimiterInit, LimiterInv, LimiterTypeOK, NoBuckets
<1>2. DOMAIN request = Request /\ AskedBefore
  BY DEF Init, LimiterInit, Blank, AskedBefore
<1>3. QED  BY <1>1, <1>2 DEF IInv

(* Requests that go on, or end, keep the time they have read.              *)
LEMMA GotoKeepsTimes ==
  ASSUME IInv, NEW r \in Request, NEW at, Goto(r, at), clock' = clock
  PROVE  DOMAIN request' = Request /\ AskedBefore'
<1>1. clock \in Nat  BY DEF IInv, LimiterInv, LimiterTypeOK
<1>2. QED  BY <1>1 DEF IInv, Goto, Done, Blank, AskedBefore

LEMMA SameLimiter ==
  ASSUME IInv, UNCHANGED limiterVars
  PROVE  LimiterInv'
BY DEF IInv, LimiterInv, LimiterTypeOK, limiterVars, Sound

LEMMA StepInv == IInv /\ [Next]_vars => IInv'
<1> SUFFICES ASSUME IInv, [Next]_vars PROVE IInv'  OBVIOUS
<1>0. clock \in Nat  BY DEF IInv, LimiterInv, LimiterTypeOK
<1>1. ASSUME NEW r \in Request, Step(r) PROVE IInv'
  <2>1. CASE Ask(r)
    <3>1. UNCHANGED limiterVars  BY <2>1 DEF Ask
    <3>2. DOMAIN request' = Request /\ AskedBefore'
      BY <1>0, <2>1 DEF Ask, IInv, AskedBefore, limiterVars
    <3>3. QED  BY <3>1, <3>2, SameLimiter DEF IInv
  <2>2. CASE Admit(r)
    <3> DEFINE now == request[r].now
    <3>1. SourceOf[r] \in Source  BY UploadAssumption
    <3>2. now \in Nat /\ now <= clock  BY DEF IInv, AskedBefore
    <3>3. Allow(SourceOf[r], now) /\ clock' = clock  BY <2>2 DEF Admit
    <3>4. LimiterInv  BY DEF IInv
    <3> HIDE DEF now
    <3>5. LimiterInv'  BY <3>1, <3>2, <3>3, <3>4, AllowKeepsInv
    <3>6. \E at : Goto(r, at)  BY <2>2 DEF Admit
    <3>7. QED  BY <3>3, <3>5, <3>6, GotoKeepsTimes DEF IInv
  <2>3. CASE \E at : Goto(r, at) /\ UNCHANGED limiterVars
    <3>1. clock' = clock  BY <2>3 DEF limiterVars
    <3>2. QED  BY <2>3, <3>1, GotoKeepsTimes, SameLimiter DEF IInv
  <2>4. CASE /\ \/ \E archive \in Archive, fit \in BOOLEAN : GoodForm(r, archive, fit)
                \/ \E n : Advance(r, n)
             /\ UNCHANGED limiterVars
    <3>1. DOMAIN request' = Request /\ \A q \in Request : request'[q].now = request[q].now
      <4>1. CASE \E archive \in Archive, fit \in BOOLEAN : GoodForm(r, archive, fit)
        BY <4>1 DEF GoodForm, IInv
      <4>2. CASE \E n : Advance(r, n)  BY <4>2 DEF Advance, IInv
      <4>3. QED  BY <2>4, <4>1, <4>2
    <3>2. clock' = clock  BY <2>4 DEF limiterVars
    <3>3. QED  BY <1>0, <2>4, <3>1, <3>2, SameLimiter DEF IInv, AskedBefore
  <2>5. UnpackFile(r) => (\E at : Goto(r, at)) \/ (\E n : Advance(r, n))
    BY DEF UnpackFile
  <2>6. QED
    BY <1>1, <2>1, <2>2, <2>3, <2>4, <2>5
       DEF Step, Unauthorized, BadForm, GoodForm, UnpackNothing, UnpackDir, UnpackFile,
           WriteFails, UnpackFails, Unpacked, Resolve, ScanEnds, Remove, RemoveFails,
           limiterVars
<1>2. CASE Pass
  <2>1. LimiterInv'  BY <1>2, TickKeepsInv DEF IInv, Pass
  <2>2. request' = request /\ clock' = clock + 1  BY <1>2 DEF Pass, Tick
  <2>3. QED  BY <1>0, <2>1, <2>2 DEF IInv, AskedBefore
<1>3. CASE Kill
  <2>1. LimiterInv'
    BY <1>0, <1>3, NoneIsSound, LimiterAssumption
       DEF Kill, LimiterInv, LimiterTypeOK, NoBuckets
  <2>2. DOMAIN request' = Request /\ AskedBefore'
    BY <1>0, <1>3 DEF Kill, IInv, AskedBefore, Done, Blank
  <2>3. QED  BY <2>1, <2>2 DEF IInv
<1>4. CASE UNCHANGED vars
  <2>1. UNCHANGED limiterVars /\ request' = request
    BY <1>4 DEF vars, limiterVars
  <2>2. LimiterInv'  BY <2>1, SameLimiter
  <2>3. QED  BY <2>1, <2>2 DEF IInv, AskedBefore, limiterVars
<1>5. QED  BY <1>1, <1>2, <1>3, <1>4 DEF Next

LEMMA InvHolds == IInv => RateHolds
<1> SUFFICES ASSUME IInv, NEW s \in DOMAIN buckets
             PROVE  buckets[s].taken <= Burst + (clock - buckets[s].made)
  BY DEF IInv, LimiterInv, RateHolds
<1>1. buckets[s] \in Bucket /\ Sound(buckets[s]) /\ clock \in Nat /\ Burst \in Nat
  BY LimiterAssumption DEF IInv, LimiterInv, LimiterTypeOK
<1>2. QED  BY <1>1 DEF Sound, Bucket

(* No bucket ever gives more than it holds and what was refilled since it  *)
(* was made, and there are never more than one above the cap: for requests *)
(* that read the clock in one order and take the lock in another, for      *)
(* kills, and for any rate (rateLimiter.allow).                            *)
THEOREM RateIsLimited == Spec => []RateHolds
BY InitInv, StepInv, InvHolds, PTL DEF Spec
-----------------------------------------------------------------------------
(* The archive and its directory *)

RequestShape == {"at", "now", "archive", "fit", "next", "total"}
TreeShape == {"dirs", "files", "made"}

(* The files are those of the entries before next.                         *)
Extracted(archive, next, files) ==
  /\ \A i \in FilesIn(archive) :
       i < next => archive.entries[i].name \in DOMAIN files
  /\ \A name \in DOMAIN files : \E i \in FilesIn(archive) :
       /\ i < next
       /\ archive.entries[i].name = name /\ archive.entries[i].size = files[name]
       /\ \A j \in FilesIn(archive) :
            j < next /\ archive.entries[j].name = name => j <= i

Unpacking(r) == request[r].at \in {"unpacking", "unpacked", "scanning"}

(* What has been unpacked of an archive until it is removed, and that it   *)
(* is unpacked to its end before it is scanned.                            *)
UnpackedSoFar(r) ==
  /\ request[r].archive \in Archive
  /\ request[r].next \in Nat \ {0} /\ request[r].total \in Nat
  /\ tree[r].made
  /\ Extracted(request[r].archive, request[r].next, tree[r].files)
  /\ request[r].at \in {"unpacked", "scanning"} =>
       request[r].next > Len(request[r].archive.entries)

Fresh(r) ==
  request[r].at \in {"new", "asked", "handled"} =>
    request[r].next = 1 /\ request[r].total = 0

UnpackInv ==
  /\ DOMAIN request = Request /\ DOMAIN tree = Request
  /\ \A r \in Request :
       /\ DOMAIN request[r] = RequestShape /\ DOMAIN tree[r] = TreeShape
       /\ Fresh(r)
       /\ Unpacking(r) => UnpackedSoFar(r)
  /\ NothingLeftBehind

-----------------------------------------------------------------------------
LEMMA ArchiveType ==
  ASSUME NEW archive \in Archive
  PROVE  /\ archive.format \in {"tar", "zip"}
         /\ archive.entries \in Seq(ArchiveEntry)
         /\ Len(archive.entries) \in Nat
         /\ DOMAIN archive.entries = 1..Len(archive.entries)
         /\ \A i \in DOMAIN archive.entries :
              archive.entries[i] \in ArchiveEntry /\ archive.entries[i].size \in Nat
<1>1. archive \in [format : {"tar", "zip"}, entries : Seq(ArchiveEntry)]
  BY ArchiveAssumption
<1>2. /\ archive.format \in {"tar", "zip"}
      /\ archive.entries \in Seq(ArchiveEntry)
  BY <1>1
<1>3. /\ Len(archive.entries) \in Nat
      /\ DOMAIN archive.entries = 1..Len(archive.entries)
      /\ \A i \in DOMAIN archive.entries : archive.entries[i] \in ArchiveEntry
  BY <1>2
<1>4. \A e \in ArchiveEntry : e.size \in Nat  BY DEF ArchiveEntry
<1>5. QED  BY <1>2, <1>3, <1>4

(* An entry that is no file is no file of the directory either.            *)
LEMMA ExtractedPastOther ==
  ASSUME NEW archive \in Archive, NEW next \in Nat, NEW files,
         Extracted(archive, next, files), next \notin FilesIn(archive)
  PROVE  Extracted(archive, next + 1, files)
<1>1. \A i \in FilesIn(archive) : i < next + 1 <=> i < next
  BY ArchiveType DEF FilesIn
<1>2. QED  BY <1>1 DEF Extracted

(* A file takes the place of an earlier one of its name.                   *)
LEMMA ExtractedPastFile ==
  ASSUME NEW archive \in Archive, NEW next \in FilesIn(archive), NEW files,
         Extracted(archive, next, files),
         NEW new, DOMAIN new = DOMAIN files \cup {archive.entries[next].name},
         \A x \in DOMAIN new :
           new[x] = IF x = archive.entries[next].name
                    THEN archive.entries[next].size ELSE files[x]
  PROVE  Extracted(archive, next + 1, new)
<1> DEFINE name == archive.entries[next].name
<1>1. FilesIn(archive) \subseteq Nat /\ next \in Nat
  BY ArchiveType DEF FilesIn
<1>2. \A i \in FilesIn(archive) : i < next + 1 <=> i < next \/ i = next
  BY <1>1
<1>3. \A i \in FilesIn(archive) :
        i < next + 1 => archive.entries[i].name \in DOMAIN new
  BY <1>2 DEF Extracted
<1>4. ASSUME NEW x \in DOMAIN new
      PROVE  \E i \in FilesIn(archive) :
               /\ i < next + 1
               /\ archive.entries[i].name = x /\ archive.entries[i].size = new[x]
               /\ \A j \in FilesIn(archive) :
                    j < next + 1 /\ archive.entries[j].name = x => j <= i
  <2>1. CASE x = name
    <3>1. \A j \in FilesIn(archive) : j < next + 1 => j <= next  BY <1>1
    <3>2. next < next + 1  BY <1>1
    <3>3. QED  BY <2>1, <3>1, <3>2
  <2>2. CASE x # name
    <3>1. x \in DOMAIN files /\ new[x] = files[x]  BY <2>2
    <3>2. PICK i \in FilesIn(archive) :
            /\ i < next
            /\ archive.entries[i].name = x /\ archive.entries[i].size = files[x]
            /\ \A j \in FilesIn(archive) :
                 j < next /\ archive.entries[j].name = x => j <= i
      BY <3>1 DEF Extracted
    <3>3. \A j \in FilesIn(archive) :
            j < next + 1 /\ archive.entries[j].name = x => j <= i
      BY <1>2, <2>2, <3>2
    <3>4. QED  BY <1>2, <3>1, <3>2, <3>3
  <2>3. QED  BY <2>1, <2>2
<1>5. QED  BY <1>3, <1>4 DEF Extracted

(* Nothing is extracted before the first entry.                            *)
LEMMA NothingExtracted ==
  ASSUME NEW archive \in Archive, NEW files, DOMAIN files = {}
  PROVE  Extracted(archive, 1, files)
BY ArchiveType DEF Extracted, FilesIn

(* Past the last entry everything is, and nothing else.                    *)
LEMMA AllExtracted ==
  ASSUME NEW archive \in Archive, NEW next \in Nat, NEW files,
         Extracted(archive, next, files), next > Len(archive.entries)
  PROVE  /\ \A i \in FilesIn(archive) : archive.entries[i].name \in DOMAIN files
         /\ \A name \in DOMAIN files : Holds(archive, name, files[name])
<1>1. \A i \in FilesIn(archive) : i < next  BY ArchiveType DEF FilesIn
<1>2. QED  BY <1>1 DEF Extracted, Holds

-----------------------------------------------------------------------------
(* A step of r leaves the others' requests and directories alone, and they *)
(* need nothing else.                                                      *)
LEMMA OnlyMine ==
  ASSUME UnpackInv, NEW r \in Request,
         DOMAIN request' = Request, DOMAIN tree' = Request,
         \A q \in Request \ {r} : request'[q] = request[q] /\ tree'[q] = tree[q],
         left \subseteq left',
         DOMAIN request'[r] = RequestShape, DOMAIN tree'[r] = TreeShape,
         Fresh(r)', (Unpacking(r) => UnpackedSoFar(r))',
         tree'[r].made => r \in left' \/ Unpacking(r)' \/ request'[r].at = "removing"
  PROVE  UnpackInv'
<1>1. ASSUME NEW q \in Request
      PROVE  (/\ DOMAIN request[q] = RequestShape /\ DOMAIN tree[q] = TreeShape
              /\ Fresh(q)
              /\ Unpacking(q) => UnpackedSoFar(q))'
  <2>1. CASE q = r  BY <2>1
  <2>2. CASE q # r
    BY <2>2 DEF UnpackInv, Fresh, Unpacking, UnpackedSoFar
  <2>3. QED  BY <2>1, <2>2
<1>2. ASSUME NEW q \in Request, tree'[q].made
      PROVE  \/ q \in left'
             \/ request'[q].at \in {"unpacking", "unpacked", "scanning", "removing"}
  <2>1. CASE q = r  BY <1>2, <2>1 DEF Unpacking
  <2>2. CASE q # r  BY <1>2, <2>2 DEF UnpackInv, NothingLeftBehind
  <2>3. QED  BY <2>1, <2>2
<1>3. QED  BY <1>1, <1>2 DEF UnpackInv, NothingLeftBehind

(* A request that goes where nothing is unpacked.                          *)
LEMMA GoesOn ==
  ASSUME UnpackInv, NEW r \in Request, NEW at, Goto(r, at),
         at \in {"handled", "removing", "done"},
         at = "handled" => At(r, "asked"),
         tree' = tree, left \subseteq left',
         tree[r].made => r \in left' \/ at = "removing"
  PROVE  UnpackInv'
<1>1. DOMAIN request[r] = RequestShape /\ DOMAIN tree[r] = TreeShape
  BY DEF UnpackInv
<1>2. /\ DOMAIN request' = Request /\ DOMAIN tree' = Request
      /\ \A q \in Request \ {r} : request'[q] = request[q] /\ tree'[q] = tree[q]
  BY DEF UnpackInv, Goto
<1>3. DOMAIN request'[r] = RequestShape /\ request'[r].at = at
  BY <1>1 DEF UnpackInv, Goto, Done, Blank, RequestShape
<1>4. Fresh(r)'
  BY <1>1, <1>3 DEF UnpackInv, Goto, At, Fresh, RequestShape
<1>5. QED  BY <1>1, <1>2, <1>3, <1>4, OnlyMine DEF Unpacking

LEMMA UnpackInit == Init => UnpackInv
BY DEF Init, Blank, Gone, UnpackInv, Fresh, RequestShape, TreeShape, Unpacking, NothingLeftBehind

(* Unpacking goes on past an entry: what was extracted so far is what the  *)
(* entries before the next one are.                                        *)
LEMMA UnpackGoesOn ==
  ASSUME UnpackInv, NEW r \in Request, More(r), NEW n \in Nat, Advance(r, n),
         DOMAIN tree' = Request,
         \A q \in Request \ {r} : tree'[q] = tree[q],
         DOMAIN tree'[r] = TreeShape, tree'[r].made,
         left' = left,
         Extracted(request[r].archive, request[r].next + 1, tree'[r].files)
  PROVE  UnpackInv'
<1>1. DOMAIN request = Request /\ DOMAIN request[r] = RequestShape
  BY DEF UnpackInv
<1>2. UnpackedSoFar(r)  BY DEF UnpackInv, More, At, Unpacking
<1>3. /\ DOMAIN request' = Request
      /\ \A q \in Request \ {r} : request'[q] = request[q]
      /\ request'[r] = [[request[r] EXCEPT !.next = @ + 1] EXCEPT !.total = @ + n]
  BY <1>1 DEF Advance, RequestShape
<1>4. /\ DOMAIN request'[r] = RequestShape
      /\ request'[r].at = "unpacking"
      /\ request'[r].archive = request[r].archive
      /\ request'[r].next = request[r].next + 1
      /\ request'[r].total = request[r].total + n
  BY <1>1, <1>3 DEF RequestShape, More, At
<1>5. UnpackedSoFar(r)'  BY <1>2, <1>4 DEF UnpackedSoFar
<1>6. Unpacking(r)' /\ Fresh(r)'  BY <1>4 DEF Unpacking, Fresh
<1>7. QED  BY <1>3, <1>4, <1>5, <1>6, OnlyMine

(* What writing a file changes.                                            *)
LEMMA FileWritten ==
  ASSUME NEW t, DOMAIN t = TreeShape, t.made, NEW name, NEW n,
         NEW u, u = WithFile(t, name, n)
  PROVE  /\ DOMAIN u = TreeShape /\ u.made
         /\ DOMAIN u.files = DOMAIN t.files \cup {name}
         /\ \A x \in DOMAIN u.files : u.files[x] = IF x = name THEN n ELSE t.files[x]
<1> DEFINE with == WithDirs(t, Above(name))
           files == [x \in DOMAIN t.files \cup {name} |-> IF x = name THEN n ELSE t.files[x]]
<1>1. DOMAIN with = TreeShape /\ with.made
  BY DEF WithDirs, TreeShape
<1>2. u = [with EXCEPT !.files = files]  BY DEF WithFile
<1> HIDE DEF with, files
<1>3. DOMAIN u = TreeShape /\ u.made /\ u.files = files
  BY <1>1, <1>2 DEF TreeShape
<1>4. /\ DOMAIN files = DOMAIN t.files \cup {name}
      /\ \A x \in DOMAIN files : files[x] = IF x = name THEN n ELSE t.files[x]
  BY DEF files
<1>5. QED  BY <1>3, <1>4

LEMMA UnpackEntry ==
  ASSUME UnpackInv, NEW r \in Request,
         UnpackNothing(r) \/ UnpackDir(r) \/ UnpackFile(r) \/ WriteFails(r)
  PROVE  UnpackInv'
<1> DEFINE archive == request[r].archive
           next == request[r].next
           e == EntryOf(r)
<1>1. More(r)
  BY DEF UnpackNothing, UnpackDir, UnpackFile, WriteFails
<1>2. /\ DOMAIN request = Request /\ DOMAIN tree = Request
      /\ DOMAIN request[r] = RequestShape /\ DOMAIN tree[r] = TreeShape
      /\ UnpackedSoFar(r)
  BY <1>1 DEF UnpackInv, More, At, Unpacking
<1>3. archive \in Archive /\ next \in Nat /\ request[r].total \in Nat /\ tree[r].made
      /\ Extracted(archive, next, tree[r].files)
  BY <1>2 DEF UnpackedSoFar
<1>4. e = archive.entries[next]  BY DEF EntryOf
<1>5. Limit \in Nat /\ Remaining(r) \in Int
  BY <1>3, UploadAssumption DEF Remaining
<1> HIDE DEF archive, next, e
<1>6. CASE UnpackNothing(r) \/ UnpackDir(r)
  <2>1. (e.kind = "link" /\ archive.format = "tar") \/ e.kind = "dir"
    BY <1>6 DEF UnpackNothing, UnpackDir, Skipped, archive, e
  <2>2. next \notin FilesIn(archive)  BY <1>4, <2>1 DEF FilesIn
  <2>3. Extracted(archive, next + 1, tree[r].files)
    BY <1>3, <2>2, ExtractedPastOther
  <2>4. Advance(r, 0) /\ left' = left
    BY <1>6 DEF UnpackNothing, UnpackDir
  <2>5. /\ DOMAIN tree' = Request /\ \A q \in Request \ {r} : tree'[q] = tree[q]
        /\ DOMAIN tree'[r] = TreeShape /\ tree'[r].made
        /\ tree'[r].files = tree[r].files
    <3>1. CASE UnpackNothing(r)  BY <1>2, <1>3, <3>1 DEF UnpackNothing
    <3>2. CASE UnpackDir(r)
      <4>1. PICK names : tree' = [tree EXCEPT ![r] = WithDirs(@, names)]
        BY <3>2 DEF UnpackDir
      <4>2. tree'[r] = [tree[r] EXCEPT !.dirs = @ \cup names]
        BY <1>2, <4>1 DEF WithDirs
      <4>3. QED  BY <1>2, <1>3, <4>1, <4>2 DEF TreeShape
    <3>3. QED  BY <1>6, <3>1, <3>2
  <2>6. QED
    BY <1>1, <2>3, <2>4, <2>5, UnpackGoesOn DEF archive, next
<1>7. ASSUME NEW n, tree' = [tree EXCEPT ![r] = WithFile(@, e.name, n)]
      PROVE  /\ DOMAIN tree' = Request /\ \A q \in Request \ {r} : tree'[q] = tree[q]
             /\ DOMAIN tree'[r] = TreeShape /\ tree'[r].made
             /\ DOMAIN tree'[r].files = DOMAIN tree[r].files \cup {e.name}
             /\ \A x \in DOMAIN tree'[r].files :
                  tree'[r].files[x] = IF x = e.name THEN n ELSE tree[r].files[x]
  <2>1. /\ DOMAIN tree' = Request /\ \A q \in Request \ {r} : tree'[q] = tree[q]
        /\ tree'[r] = WithFile(tree[r], e.name, n)
    BY <1>2, <1>7
  <2>2. QED  BY <1>2, <1>3, <2>1, FileWritten
<1>8. ASSUME NEW n, tree' = [tree EXCEPT ![r] = WithFile(@, e.name, n)],
             Goto(r, "removing"), left' = left
      PROVE  UnpackInv'
  <2>1. /\ DOMAIN request' = Request
        /\ \A q \in Request \ {r} : request'[q] = request[q]
        /\ request'[r] = [request[r] EXCEPT !.at = "removing"]
    BY <1>2, <1>8 DEF Goto
  <2>2. DOMAIN request'[r] = RequestShape /\ request'[r].at = "removing"
    BY <1>2, <2>1 DEF RequestShape
  <2>3. QED  BY <1>7, <1>8, <2>1, <2>2, OnlyMine DEF Unpacking, Fresh
<1>9. CASE UnpackFile(r)
  <2> DEFINE n == Written(r, e.size)
  <2>1. /\ tree' = [tree EXCEPT ![r] = WithFile(@, e.name, n)]
        /\ IF e.kind = "damaged" \/ n > Remaining(r) \/ request[r].total + n > Limit
           THEN Goto(r, "removing") ELSE Advance(r, n)
        /\ IsFile(r) /\ left' = left
    BY <1>9 DEF UnpackFile, e
  <2>2. CASE e.kind = "damaged" \/ n > Remaining(r) \/ request[r].total + n > Limit
    BY <1>8, <2>1, <2>2
  <2>3. CASE ~(e.kind = "damaged" \/ n > Remaining(r) \/ request[r].total + n > Limit)
    <3>1. next \in DOMAIN archive.entries
      <4>1. next <= Len(archive.entries)  BY <1>1 DEF More, archive, next
      <4>2. next >= 1  BY <1>1, <1>2 DEF UnpackedSoFar, next
      <4>3. QED  BY <1>3, <4>1, <4>2, ArchiveType
    <3>2. e.size \in Nat  BY <1>3, <1>4, <3>1, ArchiveType
    <3>3. n = e.size
      BY <1>5, <2>3, <3>2 DEF Written
    <3>4. next \in FilesIn(archive)
      <4>1. archive.format \in {"tar", "zip"}  BY <1>3, ArchiveType
      <4>2. e.kind = "file" \/ (e.kind = "link" /\ archive.format # "tar")
        BY <2>1, <2>3 DEF IsFile, Skipped, archive, e
      <4>3. QED  BY <1>4, <3>1, <4>1, <4>2 DEF FilesIn
    <3> HIDE DEF n
    <3>5. Extracted(archive, next + 1, tree'[r].files)
      <4> DEFINE new == tree'[r].files
      <4>1. /\ DOMAIN new = DOMAIN tree[r].files \cup {e.name}
            /\ \A x \in DOMAIN new :
                 new[x] = IF x = e.name THEN e.size ELSE tree[r].files[x]
        <5>1. /\ DOMAIN new = DOMAIN tree[r].files \cup {e.name}
              /\ \A x \in DOMAIN new : new[x] = IF x = e.name THEN n ELSE tree[r].files[x]
          BY <1>7, <2>1
        <5> HIDE DEF new
        <5>2. QED  BY <3>3, <5>1
      <4> HIDE DEF new
      <4>2. Extracted(archive, next + 1, new)
        BY <1>3, <1>4, <3>4, <4>1, ExtractedPastFile
      <4>3. QED  BY <4>2 DEF new
    <3>6. QED
      BY <1>1, <1>7, <2>1, <2>3, <3>2, <3>3, <3>5, UnpackGoesOn DEF archive, next
  <2>4. QED  BY <2>2, <2>3
<1>10. CASE WriteFails(r)
  <2>1. /\ tree' = [tree EXCEPT ![r] = WithFile(@, e.name, 0)]
        /\ Goto(r, "removing") /\ left' = left
    BY <1>10 DEF WriteFails, e
  <2>2. QED  BY <1>8, <2>1
<1>11. QED  BY <1>6, <1>9, <1>10

(* Whatever else a request does, it keeps what it extracted until it is    *)
(* removed, and removes it or leaves it on record.                         *)
LEMMA UnpackStepInv ==
  ASSUME UnpackInv, NEW r \in Request, Step(r)
  PROVE  UnpackInv'
<1>0. /\ DOMAIN request = Request /\ DOMAIN tree = Request
      /\ DOMAIN request[r] = RequestShape /\ DOMAIN tree[r] = TreeShape
      /\ Unpacking(r) => UnpackedSoFar(r)
      /\ tree[r].made => r \in left \/ Unpacking(r) \/ request[r].at = "removing"
  BY DEF UnpackInv, NothingLeftBehind, Unpacking
<1>1. CASE Ask(r)
  <2>1. /\ DOMAIN request' = Request
        /\ \A q \in Request \ {r} : request'[q] = request[q]
        /\ request'[r] = [[request[r] EXCEPT !.at = "asked"] EXCEPT !.now = clock]
        /\ tree' = tree /\ left' = left
    BY <1>0, <1>1 DEF Ask, RequestShape
  <2>2. DOMAIN request'[r] = RequestShape /\ request'[r].at = "asked"
    BY <1>0, <2>1 DEF RequestShape
  <2>3. At(r, "new")  BY <1>1 DEF Ask
  <2>4. Fresh(r)'
    BY <1>0, <2>1, <2>3 DEF UnpackInv, Fresh, At, RequestShape
  <2>5. QED  BY <1>0, <2>1, <2>2, <2>3, <2>4, OnlyMine DEF Unpacking, At
<1>2. CASE Unauthorized(r) \/ Admit(r) \/ BadForm(r)
  <2>1. tree' = tree /\ left' = left
    BY <1>2 DEF Unauthorized, Admit, BadForm
  <2>2. PICK at \in {"handled", "done"} :
          Goto(r, at) /\ (at = "handled" => At(r, "asked"))
    BY <1>2 DEF Unauthorized, Admit, BadForm
  <2>3. request[r].at \in {"asked", "handled"}
    BY <1>2 DEF Unauthorized, Admit, BadForm, At
  <2>4. tree[r].made => r \in left'  BY <1>0, <2>1, <2>3 DEF Unpacking
  <2>5. QED  BY <2>1, <2>2, <2>4, GoesOn
<1>3. ASSUME NEW archive \in Archive, NEW fit \in BOOLEAN, GoodForm(r, archive, fit)
      PROVE  UnpackInv'
  <2>1. /\ DOMAIN request' = Request /\ DOMAIN tree' = Request
        /\ \A q \in Request \ {r} : request'[q] = request[q] /\ tree'[q] = tree[q]
        /\ left' = left /\ tree'[r] = Empty
    BY <1>0, <1>3 DEF GoodForm
  <2>2. /\ DOMAIN tree'[r] = TreeShape /\ tree'[r].made /\ tree'[r].files = <<>>
    BY <2>1 DEF Empty, Gone, TreeShape
  <2>3. request'[r] =
          [[[request[r] EXCEPT !.at = "unpacking"] EXCEPT !.archive = archive]
             EXCEPT !.fit = fit]
    BY <1>0, <1>3 DEF GoodForm, RequestShape
  <2>4. /\ DOMAIN request'[r] = RequestShape
        /\ request'[r].at = "unpacking" /\ request'[r].archive = archive
        /\ request'[r].next = request[r].next /\ request'[r].total = request[r].total
    BY <1>0, <2>3 DEF RequestShape
  <2>5. request[r].next = 1 /\ request[r].total = 0
    BY <1>3 DEF GoodForm, UnpackInv, Fresh, At
  <2>6. DOMAIN <<>> = {}  OBVIOUS
  <2>7. Extracted(archive, 1, <<>>)  BY <2>6, NothingExtracted
  <2>8. UnpackedSoFar(r)'
    BY <2>2, <2>4, <2>5, <2>7 DEF UnpackedSoFar
  <2>9. Unpacking(r)' /\ Fresh(r)'  BY <2>4 DEF Unpacking, Fresh
  <2>10. QED  BY <2>1, <2>2, <2>4, <2>8, <2>9, OnlyMine
<1>4. CASE UnpackFails(r) \/ ScanEnds(r)
  BY <1>4, GoesOn DEF UnpackFails, ScanEnds
<1>5. CASE UnpackNothing(r) \/ UnpackDir(r) \/ UnpackFile(r) \/ WriteFails(r)
  BY <1>5, UnpackEntry
<1>6. ASSUME NEW at \in {"unpacked", "scanning"}, Goto(r, at), Unpacking(r),
             request[r].next > Len(request[r].archive.entries),
             tree' = tree, left' = left
      PROVE  UnpackInv'
  <2>1. /\ DOMAIN request' = Request
        /\ \A q \in Request \ {r} : request'[q] = request[q]
        /\ request'[r] = [request[r] EXCEPT !.at = at]
    BY <1>0, <1>6 DEF Goto
  <2>2. /\ DOMAIN request'[r] = RequestShape
        /\ request'[r].at = at
        /\ request'[r].archive = request[r].archive
        /\ request'[r].next = request[r].next /\ request'[r].total = request[r].total
    BY <1>0, <2>1 DEF RequestShape
  <2>3. UnpackedSoFar(r)'  BY <1>0, <1>6, <2>2 DEF UnpackedSoFar
  <2>4. Unpacking(r)' /\ Fresh(r)'  BY <2>2 DEF Unpacking, Fresh
  <2>5. QED  BY <1>0, <1>6, <2>1, <2>2, <2>3, <2>4, OnlyMine
<1>7. CASE Unpacked(r)
  <2>1. Unpacking(r)  BY <1>7 DEF Unpacked, At, Unpacking
  <2>2. request[r].next > Len(request[r].archive.entries)
    BY <1>0, <1>7, <2>1, ArchiveType DEF Unpacked, More, UnpackedSoFar
  <2>3. QED  BY <1>6, <1>7, <2>1, <2>2 DEF Unpacked
<1>8. CASE Resolve(r)
  <2>1. Unpacking(r) /\ request[r].next > Len(request[r].archive.entries)
    BY <1>0, <1>8 DEF Resolve, At, Unpacking, UnpackedSoFar
  <2>2. QED  BY <1>6, <1>8, <2>1, GoesOn DEF Resolve
<1>9. CASE Remove(r)
  <2>1. /\ DOMAIN request' = Request /\ DOMAIN tree' = Request
        /\ \A q \in Request \ {r} : request'[q] = request[q] /\ tree'[q] = tree[q]
        /\ left' = left /\ tree'[r] = Gone /\ request'[r] = Done
    BY <1>0, <1>9 DEF Remove, Goto
  <2>2. DOMAIN tree'[r] = TreeShape /\ ~tree'[r].made
    BY <2>1 DEF Gone, TreeShape
  <2>3. DOMAIN request'[r] = RequestShape /\ request'[r].at = "done"
    BY <2>1 DEF Done, Blank, RequestShape
  <2>4. QED  BY <2>1, <2>2, <2>3, OnlyMine DEF Unpacking, Fresh
<1>10. CASE RemoveFails(r)
  BY <1>10, GoesOn DEF RemoveFails
<1>11. QED
  BY <1>1, <1>2, <1>3, <1>4, <1>5, <1>7, <1>8, <1>9, <1>10 DEF Step

LEMMA UnpackNextInv == UnpackInv /\ [Next]_vars => UnpackInv'
<1> SUFFICES ASSUME UnpackInv, [Next]_vars PROVE UnpackInv'  OBVIOUS
<1>1. CASE \E r \in Request : Step(r)  BY <1>1, UnpackStepInv
<1>2. CASE UNCHANGED <<request, tree, left>>
  BY <1>2 DEF UnpackInv, NothingLeftBehind, Fresh, Unpacking, UnpackedSoFar
<1>3. CASE Kill
  <2>1. /\ DOMAIN request' = Request /\ tree' = tree
        /\ \A r \in Request : request'[r] = IF At(r, "new") THEN request[r] ELSE Done
        /\ left' = left \cup {r \in Request : ~At(r, "done") /\ tree[r].made}
    BY <1>3 DEF Kill
  <2>2. ASSUME NEW r \in Request
        PROVE  /\ DOMAIN request'[r] = RequestShape /\ DOMAIN tree'[r] = TreeShape
               /\ Fresh(r)' /\ ~Unpacking(r)'
    <3>1. CASE At(r, "new")
      BY <2>1, <3>1 DEF UnpackInv, Fresh, At, Unpacking
    <3>2. CASE ~At(r, "new")
      BY <2>1, <3>2 DEF UnpackInv, Fresh, Unpacking, Done, Blank, RequestShape
    <3>3. QED  BY <3>1, <3>2
  <2>3. NothingLeftBehind'
    BY <2>1 DEF UnpackInv, NothingLeftBehind, At
  <2>4. QED  BY <2>1, <2>2, <2>3 DEF UnpackInv
<1>4. QED  BY <1>1, <1>2, <1>3 DEF Next, Pass, vars

LEMMA UnpackInvHolds == UnpackInv => ScannedWhole /\ NothingLeftBehind
<1> SUFFICES ASSUME UnpackInv, NEW r \in Request, At(r, "scanning")
             PROVE  /\ tree[r].made
                    /\ \A i \in FilesIn(request[r].archive) :
                         request[r].archive.entries[i].name \in DOMAIN tree[r].files
                    /\ \A name \in DOMAIN tree[r].files :
                         Holds(request[r].archive, name, tree[r].files[name])
  BY DEF UnpackInv, ScannedWhole
<1>1. UnpackedSoFar(r)  BY DEF UnpackInv, At, Unpacking
<1>2. request[r].next > Len(request[r].archive.entries)
  BY <1>1 DEF UnpackedSoFar, At
<1>3. QED  BY <1>1, <1>2, AllExtracted DEF UnpackedSoFar

(* What is scanned is the whole archive and nothing else, of any length,   *)
(* with any names, repeated or not, any sizes and any limit, while other   *)
(* requests are unpacked, writes fail and the server is killed             *)
(* (Extract, uploadAndScan).                                               *)
THEOREM WholeIsScanned == Spec => []ScannedWhole
BY UnpackInit, UnpackNextInv, UnpackInvHolds, PTL DEF Spec

(* A directory outlives its request only if its removal failed or the      *)
(* server was killed, for any number of requests (uploadAndScan).          *)
THEOREM OthersRemoved == Spec => []NothingLeftBehind
BY UnpackInit, UnpackNextInv, UnpackInvHolds, PTL DEF Spec

-----------------------------------------------------------------------------
(* The bytes of a directory's files                                        *)
BytesOf(files) == UNION {{name} \X (1..files[name]) : name \in DOMAIN files}

(* What is on disk is counted in the total while an archive is unpacked,   *)
(* and the last file adds at most one byte to what the limit allows.       *)
DiskOf(r) ==
  /\ IsFiniteSet(Bytes(r))
  /\ Unpacking(r) => request[r].total <= Limit /\ Size(r) <= request[r].total
  /\ Size(r) <= Limit + 1

DiskInv == \A r \in Request : DiskOf(r)

(* A file adds at most its own bytes; it may replace an earlier one.       *)
LEMMA FileAddsItsBytes ==
  ASSUME NEW files, IsFiniteSet(BytesOf(files)), NEW name, NEW n \in Nat,
         NEW new, DOMAIN new = DOMAIN files \cup {name},
         \A x \in DOMAIN new : new[x] = IF x = name THEN n ELSE files[x]
  PROVE  /\ IsFiniteSet(BytesOf(new))
         /\ Cardinality(BytesOf(new)) <= Cardinality(BytesOf(files)) + n
<1> DEFINE its == {name} \X (1..n)
<1>1. BytesOf(new) \subseteq BytesOf(files) \cup its
  <2>1. ASSUME NEW b \in BytesOf(new), b \notin its PROVE b \in BytesOf(files)
    <3>1. PICK x \in DOMAIN new : b \in {x} \X (1..new[x])  BY DEF BytesOf
    <3>2. x # name  BY <2>1, <3>1
    <3>3. x \in DOMAIN files /\ b \in {x} \X (1..files[x])  BY <3>1, <3>2
    <3>4. QED  BY <3>3 DEF BytesOf
  <2>2. QED  BY <2>1
<1>2. IsFiniteSet(its) /\ Cardinality(its) = n
  <2>1. IsFiniteSet({name}) /\ Cardinality({name}) = 1  BY FS_Singleton
  <2>2. IsFiniteSet(1..n) /\ Cardinality(1..n) = n  BY FS_Interval
  <2>3. IsFiniteSet(its) /\ Cardinality(its) = Cardinality({name}) * Cardinality(1..n)
    <3> HIDE DEF its
    <3>1. /\ IsFiniteSet({name} \X (1..n))
          /\ Cardinality({name} \X (1..n)) = Cardinality({name}) * Cardinality(1..n)
      BY <2>1, <2>2, FS_Product
    <3>2. QED  BY <3>1 DEF its
  <2> HIDE DEF its
  <2>4. QED  BY <2>1, <2>2, <2>3
<1> HIDE DEF its
<1>3. /\ IsFiniteSet(BytesOf(files) \cup its)
      /\ Cardinality(BytesOf(files) \cup its)
           = Cardinality(BytesOf(files)) + n - Cardinality(BytesOf(files) \cap its)
  BY <1>2, FS_Union
<1>4. Cardinality(BytesOf(files)) \in Nat  BY FS_CardinalityType
<1>5. Cardinality(BytesOf(files) \cap its) \in Nat
  BY <1>2, FS_Subset, FS_CardinalityType
<1>6. IsFiniteSet(BytesOf(new))
      /\ Cardinality(BytesOf(new)) <= Cardinality(BytesOf(files) \cup its)
  BY <1>1, <1>3, FS_Subset
<1>7. Cardinality(BytesOf(new)) \in Nat  BY <1>6, FS_CardinalityType
<1>8. QED  BY <1>3, <1>4, <1>5, <1>6, <1>7

LEMMA NoBytes ==
  ASSUME NEW files, DOMAIN files = {}
  PROVE  BytesOf(files) = {} /\ IsFiniteSet({}) /\ Cardinality({}) = 0
BY FS_EmptySet DEF BytesOf

LEMMA DiskInit == Init => DiskInv
<1> SUFFICES ASSUME Init, NEW r \in Request PROVE DiskOf(r)  BY DEF DiskInv
<1>1. tree[r].files = <<>> /\ request[r].at = "new"
  BY DEF Init, Gone, Blank
<1>2. Bytes(r) = {}  BY <1>1, NoBytes DEF Bytes, BytesOf
<1>3. QED  BY <1>1, <1>2, NoBytes, UploadAssumption DEF DiskOf, Size, Unpacking

(* A step that writes nothing, or removes everything.                      *)
LEMMA DiskKept ==
  ASSUME DiskInv, NEW r \in Request,
         tree'[r].files = tree[r].files,
         Unpacking(r)' => Unpacking(r) /\ request'[r].total = request[r].total
  PROVE  DiskOf(r)'
<1>1. Bytes(r)' = Bytes(r)  BY DEF Bytes
<1>2. QED  BY <1>1 DEF DiskInv, DiskOf, Size

LEMMA DiskEmptied ==
  ASSUME NEW r \in Request, tree'[r].files = <<>>,
         Unpacking(r)' => request'[r].total = 0
  PROVE  DiskOf(r)'
<1>1. Bytes(r)' = {}  BY NoBytes DEF Bytes, BytesOf
<1>2. QED  BY <1>1, NoBytes, UploadAssumption DEF DiskOf, Size

(* The file that exceeds the limit is the last one.                        *)
LEMMA DiskFile ==
  ASSUME UnpackInv, DiskInv, NEW r \in Request, UnpackFile(r) \/ WriteFails(r)
  PROVE  DiskOf(r)'
<1> DEFINE e == EntryOf(r)
           total == request[r].total
<1>1. More(r)  BY DEF UnpackFile, WriteFails
<1>2. /\ DOMAIN request = Request /\ DOMAIN request[r] = RequestShape
      /\ UnpackedSoFar(r) /\ Unpacking(r)
  BY <1>1 DEF UnpackInv, More, At, Unpacking
<1>3. /\ total \in Nat /\ total <= Limit /\ Limit \in Nat /\ tree[r].made
      /\ IsFiniteSet(BytesOf(tree[r].files))
      /\ Cardinality(BytesOf(tree[r].files)) <= total
  BY <1>2, UploadAssumption DEF UnpackedSoFar, DiskInv, DiskOf, Size, Bytes, BytesOf
<1>4. e.size \in Nat
  <2>1. request[r].next \in DOMAIN request[r].archive.entries
    BY <1>1, <1>2, ArchiveType DEF More, UnpackedSoFar
  <2>2. QED  BY <1>2, <2>1, ArchiveType DEF UnpackedSoFar, EntryOf
<1>5. ASSUME NEW n \in Nat, tree' = [tree EXCEPT ![r] = WithFile(@, e.name, n)]
      PROVE  /\ IsFiniteSet(Bytes(r)') /\ Size(r)' \in Nat
             /\ Size(r)' <= total + n
  <2> DEFINE new == tree'[r].files
  <2>1. /\ DOMAIN new = DOMAIN tree[r].files \cup {e.name}
        /\ \A x \in DOMAIN new : new[x] = IF x = e.name THEN n ELSE tree[r].files[x]
    <3> HIDE DEF e
    <3>1. tree'[r] = WithFile(tree[r], e.name, n)  BY <1>5 DEF UnpackInv
    <3>2. DOMAIN tree[r] = TreeShape  BY DEF UnpackInv
    <3>3. QED  BY <1>3, <3>1, <3>2, FileWritten
  <2>2. /\ IsFiniteSet(BytesOf(new))
        /\ Cardinality(BytesOf(new)) <= Cardinality(BytesOf(tree[r].files)) + n
    <3> HIDE DEF new, e
    <3>1. QED  BY <1>3, <2>1, FileAddsItsBytes
  <2>3. Bytes(r)' = BytesOf(new)  BY DEF Bytes, BytesOf
  <2>4. Cardinality(BytesOf(new)) \in Nat /\ Cardinality(BytesOf(tree[r].files)) \in Nat
    BY <1>3, <2>2, FS_CardinalityType
  <2> HIDE DEF new
  <2>5. QED  BY <1>3, <2>2, <2>3, <2>4 DEF Size
<1>6. CASE UnpackFile(r)
  <2> DEFINE n == Written(r, e.size)
  <2>1. /\ tree' = [tree EXCEPT ![r] = WithFile(@, e.name, n)]
        /\ IF e.kind = "damaged" \/ n > Remaining(r) \/ total + n > Limit
           THEN Goto(r, "removing") ELSE Advance(r, n)
    BY <1>6 DEF UnpackFile
  <2>2. n \in Nat /\ total + n <= Limit + 1
    BY <1>3, <1>4 DEF Written, Remaining
  <2> HIDE DEF n, e
  <2>3. IsFiniteSet(Bytes(r)') /\ Size(r)' \in Nat /\ Size(r)' <= total + n
    BY <1>5, <2>1, <2>2 DEF e
  <2>4. Size(r)' <= Limit + 1  BY <1>3, <2>2, <2>3
  <2>5. Unpacking(r)' => request'[r].total <= Limit /\ Size(r)' <= request'[r].total
    <3>1. CASE e.kind = "damaged" \/ n > Remaining(r) \/ total + n > Limit
      <4>1. request'[r] = [request[r] EXCEPT !.at = "removing"]
        BY <1>2, <2>1, <3>1 DEF Goto
      <4>2. request'[r].at = "removing"  BY <1>2, <4>1 DEF RequestShape
      <4>3. QED  BY <4>2 DEF Unpacking
    <3>2. CASE ~(e.kind = "damaged" \/ n > Remaining(r) \/ total + n > Limit)
      <4>1. request'[r] = [[request[r] EXCEPT !.next = @ + 1] EXCEPT !.total = @ + n]
        BY <1>2, <2>1, <3>2 DEF Advance, RequestShape
      <4>2. request'[r].total = total + n  BY <1>2, <4>1 DEF RequestShape
      <4>3. total + n <= Limit  BY <1>3, <2>2, <3>2
      <4>4. QED  BY <2>3, <4>2, <4>3
    <3>3. QED  BY <3>1, <3>2
  <2>6. QED  BY <2>3, <2>4, <2>5 DEF DiskOf
<1>7. CASE WriteFails(r)
  <2>1. tree' = [tree EXCEPT ![r] = WithFile(@, e.name, 0)] /\ Goto(r, "removing")
    BY <1>7 DEF WriteFails
  <2> HIDE DEF e
  <2>2. IsFiniteSet(Bytes(r)') /\ Size(r)' \in Nat /\ Size(r)' <= total + 0
    BY <1>5, <2>1 DEF e
  <2>3. request'[r] = [request[r] EXCEPT !.at = "removing"]  BY <1>2, <2>1 DEF Goto
  <2>4. request'[r].at = "removing"  BY <1>2, <2>3 DEF RequestShape
  <2>5. QED  BY <1>3, <2>2, <2>4 DEF DiskOf, Unpacking
<1>8. QED  BY <1>6, <1>7

LEMMA DiskStepInv ==
  ASSUME UnpackInv, DiskInv, NEW r \in Request, Step(r)
  PROVE  DiskInv'
<1>0. /\ DOMAIN request = Request /\ DOMAIN tree = Request
      /\ DOMAIN request[r] = RequestShape /\ DOMAIN tree[r] = TreeShape
  BY DEF UnpackInv
<1>1. ASSUME NEW q \in Request \ {r} PROVE DiskOf(q)'
  <2>1. tree'[q] = tree[q] /\ request'[q] = request[q]
    BY <1>0 DEF Step, Ask, Unauthorized, Admit, BadForm, GoodForm, UnpackNothing, UnpackDir,
       UnpackFile, WriteFails, UnpackFails, Unpacked, Resolve, ScanEnds, Remove, RemoveFails,
       Goto, Advance
  <2>2. QED  BY <2>1, DiskKept DEF Unpacking
<1>2. DiskOf(r)'
  <2>1. CASE UnpackFile(r) \/ WriteFails(r)  BY <2>1, DiskFile
  <2>2. CASE Remove(r)
    <3>1. tree'[r] = Gone /\ request'[r] = Done  BY <1>0, <2>2 DEF Remove, Goto
    <3>2. tree'[r].files = <<>> /\ request'[r].at = "done"
      BY <3>1 DEF Gone, Done, Blank
    <3>3. QED  BY <3>2, DiskEmptied DEF Unpacking
  <2>3. ASSUME NEW archive \in Archive, NEW fit \in BOOLEAN, GoodForm(r, archive, fit)
        PROVE  DiskOf(r)'
    <3>1. tree'[r] = Empty
          /\ request'[r] =
               [[[request[r] EXCEPT !.at = "unpacking"] EXCEPT !.archive = archive]
                  EXCEPT !.fit = fit]
      BY <1>0, <2>3 DEF GoodForm, RequestShape
    <3>2. tree'[r].files = <<>> /\ request'[r].total = request[r].total
      BY <1>0, <3>1 DEF Empty, Gone, RequestShape
    <3>3. request[r].total = 0  BY <2>3 DEF GoodForm, UnpackInv, Fresh, At
    <3>4. QED  BY <3>2, <3>3, DiskEmptied
  <2>4. CASE UnpackNothing(r) \/ UnpackDir(r)
    <3>1. At(r, "unpacking") /\ Advance(r, 0)
      BY <2>4 DEF UnpackNothing, UnpackDir, More
    <3>2. Unpacking(r) /\ request[r].total \in Nat
      BY <3>1 DEF At, Unpacking, UnpackInv, UnpackedSoFar
    <3>3. request'[r] = [[request[r] EXCEPT !.next = @ + 1] EXCEPT !.total = @ + 0]
      BY <1>0, <3>1 DEF Advance, RequestShape
    <3>4. request'[r].total = request[r].total  BY <1>0, <3>2, <3>3 DEF RequestShape
    <3>5. tree'[r].files = tree[r].files
      <4>1. CASE UnpackNothing(r)  BY <4>1 DEF UnpackNothing
      <4>2. CASE UnpackDir(r)
        <5>1. PICK names : tree' = [tree EXCEPT ![r] = WithDirs(@, names)]
          BY <4>2 DEF UnpackDir
        <5>2. tree'[r] = [tree[r] EXCEPT !.dirs = @ \cup names]
          BY <1>0, <5>1 DEF WithDirs
        <5>3. QED  BY <1>0, <5>2 DEF TreeShape
      <4>3. QED  BY <2>4, <4>1, <4>2
    <3>6. QED  BY <3>2, <3>4, <3>5, DiskKept
  <2>5. CASE Ask(r)
    <3>1. request'[r] = [[request[r] EXCEPT !.at = "asked"] EXCEPT !.now = clock]
          /\ tree' = tree
      BY <1>0, <2>5 DEF Ask, RequestShape
    <3>2. request'[r].at = "asked"  BY <1>0, <3>1 DEF RequestShape
    <3>3. QED  BY <3>1, <3>2, DiskKept DEF Unpacking
  <2>6. ASSUME NEW at, Goto(r, at), tree' = tree, at \in {"unpacked", "scanning"} => Unpacking(r),
               at # "unpacking"
        PROVE  DiskOf(r)'
    <3>1. CASE at = "done"
      <4>1. request'[r] = Done  BY <1>0, <2>6, <3>1 DEF Goto
      <4>2. request'[r].at = "done"  BY <4>1 DEF Done, Blank
      <4>3. QED  BY <2>6, <4>2, DiskKept DEF Unpacking
    <3>2. CASE at # "done"
      <4>1. request'[r] = [request[r] EXCEPT !.at = at]  BY <1>0, <2>6, <3>2 DEF Goto
      <4>2. request'[r].at = at /\ request'[r].total = request[r].total
        BY <1>0, <4>1 DEF RequestShape
      <4>3. Unpacking(r)' => Unpacking(r)  BY <2>6, <4>2 DEF Unpacking
      <4>4. QED  BY <2>6, <4>2, <4>3, DiskKept
    <3>3. QED  BY <3>1, <3>2
  <2>7. CASE Unauthorized(r) \/ Admit(r) \/ BadForm(r) \/ UnpackFails(r) \/ ScanEnds(r)
             \/ RemoveFails(r)
    BY <2>6, <2>7 DEF Unauthorized, Admit, BadForm, UnpackFails, ScanEnds, RemoveFails
  <2>8. CASE Unpacked(r) \/ Resolve(r)
    BY <2>6, <2>8 DEF Unpacked, Resolve, At, Unpacking
  <2>9. QED
    BY <2>1, <2>2, <2>3, <2>4, <2>5, <2>7, <2>8 DEF Step
<1>3. QED  BY <1>1, <1>2 DEF DiskInv

LEMMA DiskNextInv == UnpackInv /\ DiskInv /\ [Next]_vars => DiskInv'
<1> SUFFICES ASSUME UnpackInv, DiskInv, [Next]_vars PROVE DiskInv'  OBVIOUS
<1>1. CASE \E r \in Request : Step(r)  BY <1>1, DiskStepInv
<1>2. CASE UNCHANGED <<request, tree>>
  BY <1>2, DiskKept DEF DiskInv, Unpacking
<1>3. CASE Kill
  <2>1. ASSUME NEW r \in Request PROVE DiskOf(r)'
    <3>1. tree' = tree /\ request'[r] = IF At(r, "new") THEN request[r] ELSE Done
      BY <1>3 DEF Kill
    <3>2. ~Unpacking(r)'
      BY <3>1 DEF At, Unpacking, Done, Blank
    <3>3. QED  BY <3>1, <3>2, DiskKept
  <2>2. QED  BY <2>1 DEF DiskInv
<1>4. QED  BY <1>1, <1>2, <1>3 DEF Next, Pass, vars

-----------------------------------------------------------------------------
(* The limit is not found exceeded before it is: the running total is what *)
(* the files of the entries before the next one take.                      *)
FitsOf(r) ==
  /\ Unpacking(r) =>
       /\ IsFiniteSet(BytesUpTo(request[r].archive, request[r].next - 1))
       /\ Cardinality(BytesUpTo(request[r].archive, request[r].next - 1))
            = request[r].total
  /\ faults = 0 => GivenUpForCause(r)

FitInv == faults \in Nat /\ \A r \in Request : FitsOf(r)

LEMMA BytesUpToNext ==
  ASSUME NEW archive \in Archive, NEW i \in DOMAIN archive.entries,
         NEW before, before = BytesUpTo(archive, i - 1), IsFiniteSet(before)
  PROVE  /\ IsFiniteSet(BytesUpTo(archive, i))
         /\ i \notin FilesIn(archive) =>
              Cardinality(BytesUpTo(archive, i)) = Cardinality(before)
         /\ i \in FilesIn(archive) =>
              Cardinality(BytesUpTo(archive, i))
                = Cardinality(before) + archive.entries[i].size
<1> DEFINE size == archive.entries[i].size
           its == {i} \X (1..size)
           all == BytesUpTo(archive, i)
<1>1. i \in Nat /\ size \in Nat /\ FilesIn(archive) \subseteq Nat
  BY ArchiveType DEF FilesIn
<1>2. ASSUME NEW j \in FilesIn(archive) PROVE j <= i <=> j <= i - 1 \/ j = i
  BY <1>1, <1>2
<1>3. CASE i \notin FilesIn(archive)
  <2>1. {j \in FilesIn(archive) : j <= i} = {j \in FilesIn(archive) : j <= i - 1}
    BY <1>2, <1>3
  <2>2. all = before  BY <2>1 DEF BytesUpTo
  <2>3. QED  BY <1>3, <2>2
<1>4. CASE i \in FilesIn(archive)
  <2>1. all = before \cup its
    <3>1. {j \in FilesIn(archive) : j <= i} = {j \in FilesIn(archive) : j <= i - 1} \cup {i}
      BY <1>1, <1>2, <1>4
    <3>2. QED  BY <3>1 DEF BytesUpTo
  <2>2. IsFiniteSet(its) /\ Cardinality(its) = size
    <3>1. IsFiniteSet({i}) /\ Cardinality({i}) = 1  BY FS_Singleton
    <3>2. IsFiniteSet(1..size) /\ Cardinality(1..size) = size
      <4> HIDE DEF size
      <4>1. IsFiniteSet(1..size) /\ Cardinality(1..size) = IF 1 > size THEN 0 ELSE size - 1 + 1
        BY <1>1, FS_Interval
      <4>2. QED  BY <1>1, <4>1
    <3> HIDE DEF size
    <3>3. /\ IsFiniteSet({i} \X (1..size))
          /\ Cardinality({i} \X (1..size)) = Cardinality({i}) * Cardinality(1..size)
      BY <3>1, <3>2, FS_Product
    <3>4. QED  BY <1>1, <3>1, <3>2, <3>3
  <2>3. before \cap its = {}
    <3>1. ASSUME NEW b \in before PROVE b \notin its
      <4>1. PICK j \in FilesIn(archive) : j <= i - 1 /\ b \in {j} \X (1..archive.entries[j].size)
        BY DEF BytesUpTo
      <4>2. b[1] = j /\ j # i  BY <1>1, <4>1
      <4>3. QED  BY <4>2
    <3>2. QED  BY <3>1
  <2> HIDE DEF its, size
  <2>4. /\ IsFiniteSet(before \cup its)
        /\ Cardinality(before \cup its)
             = Cardinality(before) + Cardinality(its) - Cardinality(before \cap its)
    BY <2>2, FS_Union
  <2>5. Cardinality(before \cap its) = 0  BY <2>3, FS_EmptySet
  <2>6. Cardinality(before) \in Nat  BY FS_CardinalityType
  <2> HIDE DEF all
  <2>7. IsFiniteSet(all) /\ Cardinality(all) = Cardinality(before) + size
    BY <1>1, <2>1, <2>2, <2>4, <2>5, <2>6
  <2>8. QED  BY <1>4, <2>7 DEF all, size
<1>5. QED  BY <1>3, <1>4

(* A request that leaves its entries and its directory alone.              *)
LEMMA FitsKept ==
  ASSUME NEW r \in Request, FitsOf(r), tree'[r] = tree[r],
         request'[r].archive = request[r].archive, request'[r].next = request[r].next,
         request'[r].total = request[r].total,
         Unpacking(r)' => Unpacking(r),
         faults' = 0 /\ At(r, "removing")' => faults = 0 /\ At(r, "removing")
  PROVE  FitsOf(r)'
BY DEF FitsOf, GivenUpForCause, At, EntryOf

LEMMA NoneUnpacked ==
  ASSUME NEW r \in Request, ~Unpacking(r)', ~At(r, "removing")'
  PROVE  FitsOf(r)'
BY DEF FitsOf, GivenUpForCause, At

LEMMA FitInit == Init => FitInv
<1> SUFFICES ASSUME Init, NEW r \in Request PROVE FitsOf(r)  BY DEF FitInv, Init
<1>1. request[r].at = "new"  BY DEF Init, Blank
<1>2. QED  BY <1>1 DEF FitsOf, GivenUpForCause, Unpacking, At

(* An entry is unpacked, or given up: then its file exceeds what remains,  *)
(* if nothing else is the cause.                                           *)
LEMMA FitEntry ==
  ASSUME UnpackInv, FitInv, DiskInv, NEW r \in Request,
         UnpackNothing(r) \/ UnpackDir(r) \/ UnpackFile(r) \/ WriteFails(r)
  PROVE  FitsOf(r)'
<1> DEFINE archive == request[r].archive
           next == request[r].next
           total == request[r].total
           e == EntryOf(r)
           before == BytesUpTo(archive, next - 1)
<1>1. More(r)  BY DEF UnpackNothing, UnpackDir, UnpackFile, WriteFails
<1>2. /\ DOMAIN request = Request /\ DOMAIN request[r] = RequestShape
      /\ UnpackedSoFar(r) /\ Unpacking(r)
  BY <1>1 DEF UnpackInv, More, At, Unpacking
<1>3. /\ archive \in Archive /\ next \in DOMAIN archive.entries
      /\ next \in Nat /\ total \in Nat /\ Limit \in Nat
      /\ e = archive.entries[next] /\ e.size \in Nat
  BY <1>1, <1>2, ArchiveType, UploadAssumption DEF More, UnpackedSoFar, EntryOf
<1>4. IsFiniteSet(before) /\ Cardinality(before) = total
  BY <1>2 DEF FitInv, FitsOf
<1>5. /\ IsFiniteSet(BytesUpTo(archive, next))
      /\ next \notin FilesIn(archive) => Cardinality(BytesUpTo(archive, next)) = total
      /\ next \in FilesIn(archive) =>
           Cardinality(BytesUpTo(archive, next)) = total + e.size
  <2> HIDE DEF archive, next, total, e
  <2>1. before = BytesUpTo(archive, next - 1)  OBVIOUS
  <2> HIDE DEF before
  <2>2. QED  BY <1>3, <1>4, <2>1, BytesUpToNext
<1>6. ASSUME NEW n \in Nat, Advance(r, n), Cardinality(BytesUpTo(archive, next)) = total + n
      PROVE  FitsOf(r)'
  <2>1. request'[r] = [[request[r] EXCEPT !.next = @ + 1] EXCEPT !.total = @ + n]
    BY <1>2, <1>6 DEF Advance, RequestShape
  <2>2. /\ request'[r].archive = archive /\ request'[r].next = next + 1
        /\ request'[r].total = total + n /\ request'[r].at = "unpacking"
    BY <1>1, <1>2, <2>1 DEF RequestShape, More, At
  <2>3. request'[r].next - 1 = next  BY <1>3, <2>2
  <2>4. QED
    BY <1>5, <1>6, <2>2, <2>3 DEF FitsOf, GivenUpForCause, At
<1>7. CASE UnpackNothing(r) \/ UnpackDir(r)
  <2>1. Advance(r, 0)  BY <1>7 DEF UnpackNothing, UnpackDir
  <2>2. next \notin FilesIn(archive)
    BY <1>3, <1>7 DEF UnpackNothing, UnpackDir, Skipped, FilesIn
  <2>3. QED  BY <1>3, <1>5, <1>6, <2>1, <2>2
<1>8. CASE UnpackFile(r)
  <2> DEFINE n == Written(r, e.size)
  <2>1. IF e.kind = "damaged" \/ n > Remaining(r) \/ total + n > Limit
        THEN Goto(r, "removing") ELSE Advance(r, n)
    BY <1>8 DEF UnpackFile
  <2>2. n \in Nat /\ (n > Limit - total => e.size > Limit - total)
        /\ (n <= Limit - total => n = e.size)
    <3>1. total <= Limit  BY <1>2 DEF DiskInv, DiskOf
    <3> HIDE DEF e, total
    <3>2. n = IF e.size <= Limit - total + 1 THEN e.size ELSE Limit - total + 1
      BY DEF Written, Remaining, total
    <3>3. QED  BY <1>3, <3>1, <3>2
  <2>3. e.kind = "damaged" \/ next \in FilesIn(archive)
    <3>1. e.kind \in {"file", "link", "damaged"} /\ ~Skipped(archive, e)
      BY <1>8 DEF UnpackFile, IsFile
    <3>2. archive.format \in {"tar", "zip"}  BY <1>3, ArchiveType
    <3>3. QED  BY <1>3, <3>1, <3>2 DEF Skipped, FilesIn
  <2>4. Remaining(r) = Limit - total  BY DEF Remaining
  <2> HIDE DEF n
  <2>5. CASE e.kind = "damaged" \/ n > Remaining(r) \/ total + n > Limit
    <3>1. request'[r] = [request[r] EXCEPT !.at = "removing"]
      BY <1>2, <2>1, <2>5 DEF Goto
    <3>2. /\ request'[r].at = "removing" /\ request'[r].archive = archive
          /\ request'[r].next = next
      BY <1>2, <3>1 DEF RequestShape
    <3>3. e.kind = "damaged" \/ Cardinality(BytesUpTo(archive, next)) > Limit
      BY <1>3, <1>5, <2>2, <2>3, <2>4, <2>5
    <3>4. QED  BY <3>2, <3>3 DEF FitsOf, GivenUpForCause, Unpacking, EntryOf
  <2>6. CASE ~(e.kind = "damaged" \/ n > Remaining(r) \/ total + n > Limit)
    <3>1. n = e.size /\ next \in FilesIn(archive)
      BY <1>3, <2>2, <2>3, <2>4, <2>6
    <3>2. Cardinality(BytesUpTo(archive, next)) = total + n  BY <1>5, <3>1
    <3>3. QED  BY <1>6, <2>1, <2>2, <2>6, <3>2
  <2>7. QED  BY <2>5, <2>6
<1>9. CASE WriteFails(r)
  <2>1. request'[r] = [request[r] EXCEPT !.at = "removing"] /\ faults' # 0
    BY <1>2, <1>9 DEF WriteFails, Goto, FitInv
  <2>2. request'[r].at = "removing"  BY <1>2, <2>1 DEF RequestShape
  <2>3. QED  BY <2>1, <2>2 DEF FitsOf, Unpacking
<1>10. QED  BY <1>7, <1>8, <1>9

LEMMA FitStepInv ==
  ASSUME UnpackInv, FitInv, DiskInv, NEW r \in Request, Step(r)
  PROVE  FitInv'
<1>0. /\ DOMAIN request = Request /\ DOMAIN tree = Request
      /\ DOMAIN request[r] = RequestShape
  BY DEF UnpackInv
<1>1. faults' \in Nat /\ faults <= faults'
  <2>1. faults' = faults \/ faults' = faults + 1
    BY DEF Step, Ask, Unauthorized, Admit, BadForm, GoodForm, UnpackNothing, UnpackDir,
       UnpackFile, WriteFails, UnpackFails, Unpacked, Resolve, ScanEnds, Remove, RemoveFails
  <2>2. QED  BY <2>1 DEF FitInv
<1>2. ASSUME NEW q \in Request \ {r} PROVE FitsOf(q)'
  <2>1. tree'[q] = tree[q] /\ request'[q] = request[q]
    BY <1>0 DEF Step, Ask, Unauthorized, Admit, BadForm, GoodForm, UnpackNothing, UnpackDir,
       UnpackFile, WriteFails, UnpackFails, Unpacked, Resolve, ScanEnds, Remove, RemoveFails,
       Goto, Advance
  <2>2. QED  BY <1>1, <2>1, FitsKept DEF FitInv, Unpacking, At
<1>3. FitsOf(r)'
  <2>1. CASE UnpackNothing(r) \/ UnpackDir(r) \/ UnpackFile(r) \/ WriteFails(r)
    BY <2>1, FitEntry
  <2>2. ASSUME NEW at, Goto(r, at), at \in {"handled", "done"}  PROVE FitsOf(r)'
    <3>1. request'[r].at = at
      BY <1>0, <2>2 DEF Goto, Done, Blank, RequestShape
    <3>2. QED  BY <2>2, <3>1, NoneUnpacked DEF Unpacking, At
  <2>3. CASE Unauthorized(r) \/ Admit(r) \/ BadForm(r) \/ Remove(r) \/ RemoveFails(r)
    BY <2>2, <2>3 DEF Unauthorized, Admit, BadForm, Remove, RemoveFails
  <2>4. CASE Ask(r)
    <3>1. request'[r].at = "asked"  BY <1>0, <2>4 DEF Ask, RequestShape
    <3>2. QED  BY <3>1, NoneUnpacked DEF Unpacking, At
  <2>5. ASSUME NEW archive \in Archive, NEW fit \in BOOLEAN, GoodForm(r, archive, fit)
        PROVE  FitsOf(r)'
    <3>1. request'[r] =
            [[[request[r] EXCEPT !.at = "unpacking"] EXCEPT !.archive = archive]
               EXCEPT !.fit = fit]
      BY <1>0, <2>5 DEF GoodForm, RequestShape
    <3>2. /\ request'[r].at = "unpacking" /\ request'[r].archive = archive
          /\ request'[r].next = request[r].next /\ request'[r].total = request[r].total
      BY <1>0, <3>1 DEF RequestShape
    <3>3. request[r].next = 1 /\ request[r].total = 0
      BY <2>5 DEF GoodForm, UnpackInv, Fresh, At
    <3>4. BytesUpTo(archive, 1 - 1) = {}
      <4>1. \A j \in FilesIn(archive) : ~(j <= 1 - 1)
        BY ArchiveType DEF FilesIn
      <4>2. QED  BY <4>1 DEF BytesUpTo
    <3>5. IsFiniteSet(BytesUpTo(archive, 1 - 1)) /\ Cardinality(BytesUpTo(archive, 1 - 1)) = 0
      BY <3>4, FS_EmptySet
    <3>6. QED  BY <3>2, <3>3, <3>5 DEF FitsOf, GivenUpForCause, At
  <2>6. ASSUME NEW at \in {"unpacked", "scanning", "removing"}, Goto(r, at), tree' = tree
        PROVE  /\ tree'[r] = tree[r] /\ request'[r].archive = request[r].archive
               /\ request'[r].next = request[r].next /\ request'[r].total = request[r].total
               /\ request'[r].at = at
    <3>1. request'[r] = [request[r] EXCEPT !.at = at]  BY <1>0, <2>6 DEF Goto
    <3>2. QED  BY <1>0, <2>6, <3>1 DEF RequestShape
  <2>7. CASE Unpacked(r)
    BY <2>6, <2>7, FitsKept DEF Unpacked, FitInv, Unpacking, At
  <2>8. CASE UnpackFails(r)
    <3>1. /\ tree'[r] = tree[r] /\ request'[r].archive = request[r].archive
          /\ request'[r].next = request[r].next /\ request'[r].at = "removing"
      BY <2>6, <2>8 DEF UnpackFails
    <3>2. EntryOf(r)' = EntryOf(r)  BY <3>1 DEF EntryOf
    <3>3. CannotBe(tree[r], EntryOf(r))  BY <2>8 DEF UnpackFails
    <3>4. QED  BY <3>1, <3>2, <3>3 DEF FitsOf, GivenUpForCause, Unpacking
  <2>9. CASE Resolve(r) \/ ScanEnds(r)
    <3>1. PICK at \in {"scanning", "removing"} : Goto(r, at) /\ tree' = tree
      BY <2>9 DEF Resolve, ScanEnds
    <3>2. /\ tree'[r] = tree[r] /\ request'[r].archive = request[r].archive
          /\ request'[r].next = request[r].next /\ request'[r].total = request[r].total
          /\ request'[r].at = at
      BY <2>6, <3>1
    <3>3. /\ UnpackedSoFar(r) /\ Unpacking(r)
          /\ request[r].next > Len(request[r].archive.entries)
      BY <2>9 DEF Resolve, ScanEnds, At, UnpackInv, Unpacking, UnpackedSoFar
    <3>4. ~(request[r].next <= Len(request[r].archive.entries))
      BY <3>3, ArchiveType DEF UnpackedSoFar
    <3>5. QED  BY <3>2, <3>3, <3>4 DEF FitInv, FitsOf, GivenUpForCause
  <2>10. QED  BY <2>1, <2>3, <2>4, <2>5, <2>7, <2>8, <2>9 DEF Step
<1>4. QED  BY <1>1, <1>2, <1>3 DEF FitInv

LEMMA FitNextInv == UnpackInv /\ FitInv /\ DiskInv /\ [Next]_vars => FitInv'
<1> SUFFICES ASSUME UnpackInv, FitInv, DiskInv, [Next]_vars PROVE FitInv'  OBVIOUS
<1>1. CASE \E r \in Request : Step(r)  BY <1>1, FitStepInv
<1>2. CASE UNCHANGED <<request, tree, faults>>
  <2>1. ASSUME NEW r \in Request PROVE FitsOf(r)'
    BY <1>2, FitsKept DEF FitInv, Unpacking, At
  <2>2. QED  BY <1>2, <2>1 DEF FitInv
<1>3. CASE Kill
  <2>1. ASSUME NEW r \in Request PROVE FitsOf(r)'
    <3>1. request'[r] = IF At(r, "new") THEN request[r] ELSE Done
      BY <1>3 DEF Kill
    <3>2. ~Unpacking(r)' /\ ~At(r, "removing")'
      BY <3>1 DEF At, Unpacking, Done, Blank
    <3>3. QED  BY <3>2, NoneUnpacked
  <2>2. QED  BY <1>3, <2>1 DEF FitInv, Kill
<1>4. QED  BY <1>1, <1>2, <1>3 DEF Next, Pass, vars

LEMMA DiskInvHolds == UnpackInv /\ DiskInv /\ FitInv => DiskBounded
<1> SUFFICES ASSUME UnpackInv, DiskInv, FitInv, NEW r \in Request
             PROVE  Size(r) <= IF At(r, "scanning") THEN Limit ELSE Limit + 1
  BY DEF DiskBounded, FitInv, FitsOf
<1>1. CASE At(r, "scanning")
  <2>1. Unpacking(r) /\ request[r].total \in Nat
    BY <1>1 DEF At, Unpacking, UnpackInv, UnpackedSoFar
  <2>2. IsFiniteSet(Bytes(r)) /\ request[r].total <= Limit /\ Size(r) <= request[r].total
    BY <2>1 DEF DiskInv, DiskOf
  <2>3. Size(r) \in Nat  BY <2>2, FS_CardinalityType DEF Size
  <2>4. QED  BY <1>1, <2>1, <2>2, <2>3, UploadAssumption
<1>2. CASE ~At(r, "scanning")
  BY <1>2 DEF DiskInv, DiskOf
<1>3. QED  BY <1>1, <1>2

(* The limit is exact, for any archive, with repeated names too, any limit *)
(* and any number of requests: an upload never takes more of the disk than *)
(* it and one byte, what is scanned is within it, and no archive within it *)
(* is given up for its size (extractZip, extractTarGz, writeFileLimited).  *)
THEOREM UploadsFit == Spec => []DiskBounded
BY UnpackInit, UnpackNextInv, DiskInit, DiskNextInv, FitInit, FitNextInv, DiskInvHolds,
   PTL DEF Spec
=============================================================================
