--------------------------- MODULE DownloadsProofs ---------------------------
(***************************************************************************)
(* Theorems about Downloads, for any numbers of downloads, servers, URLs   *)
(* and files, of any lengths.                                              *)
(***************************************************************************)
EXTENDS Downloads, TLAPS

-----------------------------------------------------------------------------
(* The inductive invariant.                                                *)

Chunk == (Url \X Nat) \cup {Hole}

Thread == [pc: {"fetch", "write"}, server: Server, url: Url, file: File,
           written: Nat]

Opening == [by: Job \cup {Hole}, url: Url \cup {Hole}, mixed: BOOLEAN]

Types ==
  /\ job \in [Job -> {None} \cup Thread]
  /\ disk \in [File -> Seq(Chunk)]
  /\ latest \in [File -> Opening]
  /\ DictType(told, Job, Nat)

WritesTo(j, f) == Writing(j) /\ job[j].file = f

\* A thread that was reported is over, one that has not opened its file has
\* written nothing, one that writes has opened it and has not passed the end,
\* and the latest one to open a file writes to that file if it still runs.
ThreadsInv ==
  /\ \A j \in DOMAIN told : job[j] = None
  /\ \A j \in Job : job[j].pc = "fetch" => job[j].written = 0
  /\ \A j \in Job : Writing(j) =>
       /\ latest[job[j].file].by \in Job
       /\ job[j].written <= Length[job[j].url]
  /\ \A f \in File, j \in Job : latest[f].by = j /\ job[j] # None =>
       WritesTo(j, f) /\ job[j].url = latest[f].url

\* the first n chunks of the latest URL are in f
Holds(f, n) ==
  /\ n <= Len(disk[f])
  /\ \A k \in 1 .. n : disk[f][k] = <<latest[f].url, k>>

\* chunk k of f is in its place, or missing
InPlace(f, k) == disk[f][k] \in {<<latest[f].url, k>>, Hole}

\* Whoever writes to a file that is not mixed has the URL of the latest one,
\* and whatever the latest one has passed, or was reported with, is there.
FileInv(f) ==
  /\ \A j \in Job : WritesTo(j, f) => job[j].url = latest[f].url
  /\ latest[f].by = Hole => disk[f] = << >>
  /\ latest[f].by \in Job =>
       latest[f].url \in Url /\ Len(disk[f]) <= Length[latest[f].url]
  /\ \A k \in 1 .. Len(disk[f]) : InPlace(f, k)
  /\ \A j \in Job : WritesTo(j, f) /\ latest[f].by = j => Holds(f, job[j].written)
  /\ latest[f].by \in DOMAIN told => Holds(f, told[latest[f].by])

FilesInv == \A f \in File : ~latest[f].mixed => FileInv(f)

Inv == Types /\ ThreadsInv /\ FilesInv

-----------------------------------------------------------------------------
(* Files.                                                                  *)

\* What a write leaves: the chunk in its place, the others as they were, and
\* holes between them.
LEMMA WithChunkType ==
  ASSUME NEW c \in Seq(Chunk), NEW k \in Nat, k > 0, NEW v \in Chunk
  PROVE  /\ WithChunk(c, k, v) \in Seq(Chunk)
         /\ k <= Len(WithChunk(c, k, v)) /\ Len(c) <= Len(WithChunk(c, k, v))
         /\ Len(WithChunk(c, k, v)) \in {k, Len(c)}
<1> DEFINE n == IF k > Len(c) THEN k ELSE Len(c)
<1>1. n \in Nat /\ Len(c) \in Nat /\ \A i \in 1 .. Len(c) : c[i] \in Chunk
  OBVIOUS
<1>2. Hole \in Chunk
  BY DEF Chunk
<1>3. WithChunk(c, k, v) \in [1 .. n -> Chunk]
  BY <1>1, <1>2 DEF WithChunk
<1>4. WithChunk(c, k, v) \in Seq(Chunk) /\ Len(WithChunk(c, k, v)) = n
  BY <1>1, <1>3
<1> QED
  BY <1>1, <1>4

\* A file that holds every chunk and is no longer is the whole one.
LEMMA WholeFile ==
  ASSUME NEW u \in Url, NEW c \in Seq(Chunk), Len(c) <= Length[u],
         Length[u] <= Len(c), \A k \in 1 .. Length[u] : c[k] = <<u, k>>
  PROVE  c = Content(u)
<1>1. Length[u] \in Nat
  BY DownloadsAssumption
<1>2. Len(c) = Length[u] /\ c \in [1 .. Len(c) -> Chunk]
  BY <1>1
<1> QED
  BY <1>1, <1>2 DEF Content

\* The invariant says what the properties say.
LEMMA InvImplies == Inv => ReportIsTrue /\ OneSource
<1> SUFFICES ASSUME Inv PROVE ReportIsTrue /\ OneSource
  OBVIOUS
<1>1. ASSUME NEW f \in File, latest[f].by \in DOMAIN told, ~latest[f].mixed,
             NEW n, n = told[latest[f].by], NEW u, u = latest[f].url
      PROVE  /\ n <= Len(disk[f])
             /\ \A k \in 1 .. n : disk[f][k] = <<u, k>>
             /\ n = Length[u] => disk[f] = Content(u)
  <2>1. FileInv(f) /\ latest[f].by \in Job /\ disk[f] \in Seq(Chunk)
    BY <1>1 DEF Inv, FilesInv, Types, DictType
  <2>2. /\ u \in Url /\ Len(disk[f]) <= Length[u]
        /\ n <= Len(disk[f]) /\ \A k \in 1 .. n : disk[f][k] = <<u, k>>
    BY <1>1, <2>1 DEF FileInv, Holds
  <2> QED
    BY <2>1, <2>2, WholeFile
<1>2. OneSource
  BY DEF Inv, FilesInv, FileInv, InPlace, OneSource
<1> QED
  BY <1>1, <1>2 DEF ReportIsTrue

-----------------------------------------------------------------------------
(* The steps.                                                              *)

LEMMA InitInv == Init => Inv
<1> SUFFICES ASSUME Init PROVE Inv
  OBVIOUS
<1>1. /\ job \in [Job -> {None}] /\ DOMAIN told = {}
      /\ \A f \in File : disk[f] = << >> /\ latest[f].by = Hole
  BY DEF Init, EmptyDict
<1>2. Types
  BY <1>1 DEF Init, Types, Opening, DictType
<1>3. ~(\E j \in Job : Writing(j)) /\ Hole \notin Job
  BY <1>1, DownloadsAssumption DEF Writing, None
<1>4. ThreadsInv
  BY <1>1, <1>3 DEF ThreadsInv, None
<1>5. FilesInv
  BY <1>1, <1>3 DEF FilesInv, FileInv, WritesTo
<1> QED
  BY <1>2, <1>4, <1>5 DEF Inv

\* A thread that runs has the fields of its download.
LEMMA ThreadType ==
  ASSUME Types, NEW j \in Job, job[j] # None
  PROVE  job[j] \in Thread
BY DEF Types

\* Nothing is lost of the invariant when threads end.
LEMMA ThreadsEnd ==
  ASSUME Inv, job' \in [Job -> {None} \cup Thread],
         \A j \in Job : job'[j] \in {job[j], None},
         UNCHANGED <<disk, latest, told>>
  PROVE  Inv'
<1>1. \A j \in Job : job'[j] # None => job'[j] = job[j]
  OBVIOUS
<1>2. \A j \in Job : Writing(j)' => Writing(j) /\ job'[j] = job[j]
  BY <1>1 DEF Writing, None
<1>3. Types'
  BY DEF Inv, Types
<1>4. ThreadsInv'
  <2>1. \A j \in DOMAIN told' : job'[j] = None
    BY DEF Inv, ThreadsInv, Types, DictType
  <2>4. \A j \in Job : job'[j].pc = "fetch" => job'[j].written = 0
    BY <1>1 DEF Inv, ThreadsInv, None
  <2>2. \A j \in Job : Writing(j)' =>
          latest'[job'[j].file].by \in Job /\ job'[j].written <= Length[job'[j].url]
    BY <1>2 DEF Inv, ThreadsInv
  <2>3. ASSUME NEW f \in File, NEW j \in Job, latest'[f].by = j, job'[j] # None
        PROVE  WritesTo(j, f)' /\ job'[j].url = latest'[f].url
    BY <1>1, <2>3 DEF Inv, ThreadsInv, WritesTo, Writing
  <2> QED
    BY <2>1, <2>2, <2>3, <2>4 DEF ThreadsInv
<1>5. FilesInv'
  BY <1>2 DEF Inv, FilesInv, FileInv, WritesTo, Holds, InPlace
<1> QED
  BY <1>3, <1>4, <1>5 DEF Inv

LEMMA BeginInv ==
  ASSUME Inv, NEW j \in Job, NEW s \in Server, NEW u \in Url, NEW f \in File,
         Begin(j, s, u, f)
  PROVE  Inv'
<1>1. /\ UNCHANGED <<disk, latest, told>> /\ j \notin DOMAIN told
      /\ job \in [Job -> {None} \cup Thread] /\ \A g \in File : latest[g].by # j
      /\ job' = [job EXCEPT ![j] = [pc |-> "fetch", server |-> s, url |-> u,
                                    file |-> f, written |-> 0]]
  BY DEF Begin, Inv, Types
<1>2. Types'
  <2>1. job' \in [Job -> {None} \cup Thread]
    BY <1>1 DEF Thread
  <2> QED
    BY <1>1, <2>1 DEF Inv, Types
<1>3. \A h \in Job \ {j} : job'[h] = job[h]
  BY <1>1
<1>4. \A h \in Job : Writing(h)' => Writing(h) /\ job'[h] = job[h]
  BY <1>1, <1>3 DEF Writing
<1>5. ThreadsInv'
  BY <1>1, <1>3, <1>4 DEF Inv, ThreadsInv, WritesTo, Writing
<1>6. FilesInv'
  BY <1>1, <1>4 DEF Inv, FilesInv, FileInv, WritesTo, Holds, InPlace
<1> QED
  BY <1>2, <1>5, <1>6 DEF Inv

\* A thread that opens a file is the latest one, and the file is empty.
LEMMA OpenInv == ASSUME Inv, NEW j \in Job, Open(j) PROVE Inv'
<1> DEFINE f == job[j].file
<1>1. /\ job[j] \in Thread /\ job[j].pc = "fetch" /\ f \in File /\ job[j].url \in Url
      /\ job \in [Job -> {None} \cup Thread] /\ disk \in [File -> Seq(Chunk)]
      /\ latest \in [File -> Opening] /\ DictType(told, Job, Nat)
  BY ThreadType DEF Open, Inv, Types, None, Thread
<1>2. /\ job' = [job EXCEPT ![j].pc = "write"] /\ disk' = [disk EXCEPT ![f] = << >>]
      /\ told' = told
      /\ latest' = [latest EXCEPT ![f] = [by |-> j, url |-> job[j].url,
           mixed |-> \E h \in Job : Writing(h) /\ Rivals(j, h)]]
  BY DEF Open, Truncated
<1>3. /\ job'[j] = [job[j] EXCEPT !.pc = "write"]
      /\ \A h \in Job \ {j} : job'[h] = job[h]
      /\ disk'[f] = << >> /\ \A g \in File \ {f} : disk'[g] = disk[g]
      /\ latest'[f].by = j /\ latest'[f].url = job[j].url
      /\ latest'[f].mixed = (\E h \in Job : Writing(h) /\ Rivals(j, h))
      /\ \A g \in File \ {f} : latest'[g] = latest[g]
  BY <1>1, <1>2
<1>4. /\ job'[j].pc = "write" /\ job'[j].file = f /\ job'[j].url = job[j].url
      /\ job'[j].written = job[j].written /\ job'[j] \in Thread
  BY <1>1, <1>3 DEF Thread
<1>5. Types'
  <2>1. job' \in [Job -> {None} \cup Thread]
    BY <1>1, <1>2, <1>3, <1>4
  <2>2. disk' \in [File -> Seq(Chunk)]
    BY <1>1, <1>2
  <2>3. latest' \in [File -> Opening]
    BY <1>1, <1>2 DEF Opening
  <2> QED
    BY <1>1, <1>2, <2>1, <2>2, <2>3 DEF Types
<1>6. ThreadsInv'
  <2>1. \A h \in DOMAIN told' : job'[h] = None
    BY <1>1, <1>2, <1>3 DEF Inv, ThreadsInv, None
  <2>4. \A h \in Job : job'[h].pc = "fetch" => job'[h].written = 0
    BY <1>3, <1>4 DEF Inv, ThreadsInv
  <2>2. ASSUME NEW h \in Job, Writing(h)'
        PROVE  latest'[job'[h].file].by \in Job /\ job'[h].written <= Length[job'[h].url]
    <3>1. CASE h = j
      <4>1. job[j].written = 0
        BY <1>1 DEF Inv, ThreadsInv
      <4>2. Length[job[j].url] \in Nat
        BY <1>1, DownloadsAssumption
      <4>3. job'[h].file = f /\ job'[h].written = 0 /\ job'[h].url = job[j].url
        BY <1>4, <3>1, <4>1
      <4> QED
        BY <1>1, <1>3, <4>2, <4>3
    <3>2. CASE h # j
      <4>1. Writing(h) /\ job'[h] = job[h]
        BY <1>3, <2>2, <3>2 DEF Writing
      <4>2. job[h] \in Thread
        BY <4>1, ThreadType DEF Inv, Writing, None
      <4>3. job[h].file \in File
        BY <4>2 DEF Thread
      <4> QED
        BY <1>3, <4>1, <4>3 DEF Inv, ThreadsInv
    <3> QED
      BY <3>1, <3>2
  <2>3. ASSUME NEW g \in File, NEW h \in Job, latest'[g].by = h, job'[h] # None
        PROVE  WritesTo(h, g)' /\ job'[h].url = latest'[g].url
    <3>1. CASE g = f
      BY <1>3, <1>4, <2>3, <3>1 DEF WritesTo, Writing
    <3>2. CASE g # f
      <4>1. h # j
        BY <1>1, <1>3, <2>3, <3>2 DEF Inv, ThreadsInv, WritesTo, Writing, None
      <4> QED
        BY <1>3, <2>3, <3>2, <4>1 DEF Inv, ThreadsInv, WritesTo, Writing
    <3> QED
      BY <3>1, <3>2
  <2> QED
    BY <2>1, <2>2, <2>3, <2>4 DEF ThreadsInv
<1>7. ASSUME NEW g \in File, ~latest'[g].mixed PROVE FileInv(g)'
  <2>1. CASE g = f
    <3>1. \A h \in Job : WritesTo(h, g)' => job'[h].url = job[j].url
      BY <1>3, <1>4, <1>7, <2>1 DEF WritesTo, Writing, Rivals
    <3>2. Length[job[j].url] \in Nat /\ j \notin DOMAIN told /\ job[j].written = 0
      BY <1>1, DownloadsAssumption DEF Inv, ThreadsInv, None
    <3>3. /\ latest'[g].by = j /\ latest'[g].url = job[j].url /\ Len(disk'[g]) = 0
          /\ j # Hole /\ told' = told
      BY <1>2, <1>3, <2>1, DownloadsAssumption
    <3>4. Holds(g, 0)'
      BY <3>3 DEF Holds
    <3> QED
      BY <1>1, <1>4, <3>1, <3>2, <3>3, <3>4 DEF FileInv
  <2>2. CASE g # f
    <3>1. latest'[g] = latest[g] /\ disk'[g] = disk[g] /\ FileInv(g) /\ told' = told
      BY <1>2, <1>3, <1>7, <2>2 DEF Inv, FilesInv
    <3>2. \A h \in Job : WritesTo(h, g)' => WritesTo(h, g) /\ job'[h] = job[h]
      BY <1>3, <1>4, <2>2 DEF WritesTo, Writing
    <3> QED
      BY <3>1, <3>2 DEF FileInv, Holds, InPlace
  <2> QED
    BY <2>1, <2>2
<1> QED
  BY <1>5, <1>6, <1>7 DEF Inv, FilesInv

\* A chunk is written where it belongs, whoever writes it.
LEMMA WriteInv == ASSUME Inv, NEW j \in Job, WriteChunk(j) PROVE Inv'
<1> DEFINE f == job[j].file
           k == job[j].written + 1
           v == <<job[j].url, k>>
<1>1. /\ job[j] \in Thread /\ Writing(j) /\ f \in File /\ job[j].url \in Url
      /\ k \in Nat \ {0} /\ job[j].written \in Nat /\ v \in Chunk
      /\ k <= Length[job[j].url] /\ Length[job[j].url] \in Nat
      /\ job \in [Job -> {None} \cup Thread] /\ disk \in [File -> Seq(Chunk)]
  <2>1. job[j] \in Thread /\ Writing(j) /\ k <= Length[job[j].url]
    BY ThreadType DEF WriteChunk, Writing, Inv, None
  <2>2. job[j].written \in Nat /\ job[j].url \in Url /\ f \in File
    BY <2>1 DEF Thread
  <2> QED
    BY <2>1, <2>2, DownloadsAssumption DEF Chunk, Inv, Types
<1> DEFINE d == WithChunk(disk[f], k, v)
<1>2. /\ job' = [job EXCEPT ![j].written = k] /\ disk' = [disk EXCEPT ![f] = d]
      /\ latest' = latest /\ told' = told
  BY DEF WriteChunk
<1>3. /\ job'[j] = [job[j] EXCEPT !.written = k] /\ disk'[f] = d
      /\ \A h \in Job \ {j} : job'[h] = job[h]
      /\ \A g \in File \ {f} : disk'[g] = disk[g]
  BY <1>1, <1>2
<1>4. /\ job'[j].pc = "write" /\ job'[j].file = f /\ job'[j].url = job[j].url
      /\ job'[j].written = k /\ job'[j] \in Thread /\ job'[j] # None
  <2>1. k \in Nat /\ job[j] \in Thread /\ job[j].pc = "write"
    BY <1>1 DEF Writing
  <2>2. job'[j] = [job[j] EXCEPT !.written = k]
    BY <1>3
  <2> HIDE DEF k
  <2> QED
    BY <2>1, <2>2 DEF Thread, None
<1>5. /\ d \in Seq(Chunk) /\ disk[f] \in Seq(Chunk)
      /\ k <= Len(d) /\ Len(disk[f]) <= Len(d) /\ Len(d) \in {k, Len(disk[f])}
      /\ \A i \in 1 .. Len(d) : i = k => d[i] = v
      /\ \A i \in 1 .. Len(disk[f]) : i # k => d[i] = disk[f][i]
      /\ \A i \in 1 .. Len(d) : i # k /\ i > Len(disk[f]) => d[i] = Hole
  <2>1. disk[f] \in Seq(Chunk) /\ k \in Nat /\ k > 0 /\ v \in Chunk
    BY <1>1
  <2>2. /\ d \in Seq(Chunk)
        /\ k <= Len(d) /\ Len(disk[f]) <= Len(d) /\ Len(d) \in {k, Len(disk[f])}
    BY <2>1, WithChunkType
  <2>3. \A i \in 1 .. Len(d) :
          d[i] = IF i = k THEN v ELSE IF i <= Len(disk[f]) THEN disk[f][i] ELSE Hole
    <3>1. 1 .. Len(d) = 1 .. (IF k > Len(disk[f]) THEN k ELSE Len(disk[f]))
      BY <2>1, <2>2
    <3> QED
      BY <3>1 DEF WithChunk
  <2> HIDE DEF d, f, k, v
  <2>4. Len(d) \in Nat /\ Len(disk[f]) \in Nat
    BY <2>1, <2>2
  <2>5. \A i \in 1 .. Len(disk[f]) : i # k => d[i] = disk[f][i]
    BY <2>2, <2>3, <2>4
  <2>6. /\ \A i \in 1 .. Len(d) : i = k => d[i] = v
        /\ \A i \in 1 .. Len(d) : i # k /\ i > Len(disk[f]) => d[i] = Hole
    BY <2>3, <2>4
  <2> QED
    BY <2>1, <2>2, <2>5, <2>6
<1> HIDE DEF d
<1>6. Types'
  <2>1. job' \in [Job -> {None} \cup Thread]
    BY <1>1, <1>2, <1>3, <1>4
  <2>2. disk' \in [File -> Seq(Chunk)]
    BY <1>1, <1>2, <1>5
  <2> QED
    BY <1>2, <2>1, <2>2 DEF Inv, Types
<1>7. \A h \in Job : Writing(h)' => Writing(h) /\ job'[h].file = job[h].file
                                    /\ job'[h].url = job[h].url
  BY <1>1, <1>3, <1>4 DEF Writing
<1>8. ThreadsInv'
  <2>1. \A h \in DOMAIN told' : job'[h] = None
    BY <1>1, <1>2, <1>3 DEF Inv, Types, DictType, ThreadsInv, Writing, None
  <2>2. \A h \in Job : job'[h].pc = "fetch" => job'[h].written = 0
    BY <1>3, <1>4 DEF Inv, ThreadsInv
  <2>3. \A h \in Job : Writing(h)' => /\ latest'[job'[h].file].by \in Job
                                      /\ job'[h].written <= Length[job'[h].url]
    BY <1>1, <1>2, <1>3, <1>4, <1>7 DEF Inv, ThreadsInv
  <2>4. ASSUME NEW g \in File, NEW h \in Job, latest'[g].by = h, job'[h] # None
        PROVE  WritesTo(h, g)' /\ job'[h].url = latest'[g].url
    <3>1. job[h] # None /\ latest[g].by = h
      BY <1>1, <1>2, <1>3, <2>4 DEF Writing, None
    <3>2. WritesTo(h, g) /\ job[h].url = latest[g].url
      BY <3>1 DEF Inv, ThreadsInv
    <3> QED
      BY <1>2, <1>3, <1>4, <3>2 DEF WritesTo, Writing
  <2> QED
    BY <2>1, <2>2, <2>3, <2>4 DEF ThreadsInv
<1>9. ASSUME NEW g \in File, ~latest'[g].mixed PROVE FileInv(g)'
  <2>1. FileInv(g)
    BY <1>2, <1>9 DEF Inv, FilesInv
  <2>2. CASE g # f
    <3>1. disk'[g] = disk[g] /\ latest'[g] = latest[g] /\ told' = told
      BY <1>2, <1>3, <2>2
    <3>2. \A h \in Job : WritesTo(h, g)' => WritesTo(h, g) /\ job'[h] = job[h]
      BY <1>3, <1>4, <1>7, <2>2 DEF WritesTo
    <3> QED
      BY <2>1, <3>1, <3>2 DEF FileInv, Holds, InPlace
  <2>3. CASE g = f
    <3>1. /\ job[j].url = latest[g].url /\ latest[g].by \in Job
          /\ v = <<latest[g].url, k>>
      BY <1>1, <2>1, <2>3 DEF FileInv, WritesTo, Inv, ThreadsInv
    <3>2. latest[g].by # Hole
      BY <3>1, DownloadsAssumption
    <3>3. \A h \in Job : WritesTo(h, g)' => job'[h].url = latest'[g].url
      BY <1>2, <1>7, <2>1 DEF FileInv, WritesTo
    <3>4. Len(disk'[g]) <= Length[latest[g].url]
      BY <1>1, <1>3, <1>5, <2>1, <2>3, <3>1 DEF FileInv
    <3>5. ASSUME NEW i \in 1 .. Len(disk'[g]) PROVE InPlace(g, i)'
      <4>1. d[i] \in {<<latest[g].url, i>>, Hole}
        <5>1. i \in 1 .. Len(d) /\ Len(disk[f]) \in Nat
          BY <1>3, <1>5, <2>3
        <5>2. CASE i = k
          BY <1>5, <3>1, <5>1, <5>2
        <5>3. CASE i # k /\ i <= Len(disk[f])
          <6>1. i \in 1 .. Len(disk[f]) /\ d[i] = disk[f][i]
            BY <1>5, <5>1, <5>3
          <6> QED
            BY <2>1, <2>3, <6>1 DEF FileInv, InPlace
        <5>4. CASE i # k /\ i > Len(disk[f])
          BY <1>5, <5>1, <5>4
        <5> QED
          BY <1>1, <5>1, <5>2, <5>3, <5>4
      <4> QED
        BY <1>2, <1>3, <2>3, <4>1 DEF InPlace
    <3>6. ASSUME NEW n \in Nat, Holds(g, n) PROVE Holds(g, n)'
      <4>1. n <= Len(disk[f]) /\ \A i \in 1 .. n : disk[f][i] = <<latest[g].url, i>>
        BY <2>3, <3>6 DEF Holds
      <4>2. n <= Len(d) /\ Len(d) \in Nat /\ Len(disk[f]) \in Nat
        BY <1>1, <1>5, <4>1
      <4>3. ASSUME NEW i \in 1 .. n PROVE d[i] = <<latest[g].url, i>>
        <5>1. i \in 1 .. Len(d) /\ i <= Len(disk[f])
          BY <4>1, <4>2
        <5> QED
          BY <1>5, <3>1, <4>1, <5>1
      <4> QED
        BY <1>2, <1>3, <2>3, <4>2, <4>3 DEF Holds
    <3>7. ASSUME Holds(g, job[j].written), NEW n \in Nat, n = k PROVE Holds(g, n)'
      <4>1. /\ job[j].written <= Len(disk[f]) /\ Len(disk[f]) \in Nat
            /\ \A i \in 1 .. job[j].written : disk[f][i] = <<latest[g].url, i>>
        BY <1>5, <2>3, <3>7 DEF Holds
      <4>2. n <= Len(d) /\ Len(d) \in Nat
        BY <1>1, <1>5, <3>7, <4>1
      <4>3. ASSUME NEW i \in 1 .. n PROVE d[i] = <<latest[g].url, i>>
        <5>1. i \in 1 .. Len(d) /\ (i = n \/ (i \in 1 .. job[j].written /\ i <= Len(disk[f])))
          BY <1>1, <3>7, <4>1, <4>2
        <5> QED
          BY <1>5, <3>1, <3>7, <4>1, <5>1
      <4> QED
        BY <1>2, <1>3, <2>3, <4>2, <4>3 DEF Holds
    <3>8. ASSUME NEW h \in Job, WritesTo(h, g)', latest'[g].by = h
          PROVE  Holds(g, job[h].written)'
      <4>1. Writing(h) /\ WritesTo(h, g) /\ latest[g].by = h
        BY <1>2, <1>7, <3>8 DEF WritesTo
      <4>2. Holds(g, job[h].written) /\ job[h].written \in Nat
        <5>1. job[h] \in Thread
          BY <4>1, ThreadType DEF Inv, Writing, None
        <5> QED
          BY <2>1, <4>1, <5>1 DEF FileInv, Thread
      <4>3. Holds(g, job[h].written) => Holds(g, job[h].written)'
        <5>1. CASE h = j
          <6>1. job'[h].written = k
            BY <1>4, <5>1
          <6> QED
            BY <3>7, <4>2, <5>1, <6>1 DEF Holds
        <5>2. CASE h # j
          <6>1. job'[h].written = job[h].written
            BY <1>3, <5>2
          <6> QED
            BY <3>6, <4>2, <6>1 DEF Holds
        <5> QED
          BY <5>1, <5>2
      <4> QED
        BY <4>2, <4>3
    <3>9. ASSUME latest'[g].by \in DOMAIN told', NEW n, n = told[latest[g].by]
          PROVE  Holds(g, n)'
      <4>1. n \in Nat /\ Holds(g, n)
        BY <1>2, <2>1, <3>9 DEF FileInv, Inv, Types, DictType
      <4> QED
        BY <3>6, <4>1
    <3> QED
      BY <1>2, <2>1, <3>1, <3>2, <3>3, <3>4, <3>5, <3>8, <3>9 DEF FileInv
  <2> QED
    BY <2>2, <2>3
<1> QED
  BY <1>6, <1>8, <1>9 DEF Inv, FilesInv

\* What is reported is there: it is what its thread has passed.
LEMMA CompleteInv == ASSUME Inv, NEW j \in Job, Complete(j) PROVE Inv'
<1> DEFINE f == job[j].file
<1>1. /\ job[j] \in Thread /\ Writing(j) /\ f \in File /\ job[j].url \in Url
      /\ job[j].written \in Nat /\ job \in [Job -> {None} \cup Thread]
  <2>1. job[j] \in Thread /\ Writing(j)
    BY ThreadType DEF Complete, Writing, Inv, None
  <2> QED
    BY <2>1 DEF Thread, Inv, Types
<1>2. /\ job' = [job EXCEPT ![j] = None] /\ told' = Put(told, j, job[j].written)
      /\ disk' = disk /\ latest' = latest
  BY DEF Complete
<1>3. job'[j] = None /\ \A h \in Job \ {j} : job'[h] = job[h]
  BY <1>1, <1>2
<1>4. \A h \in Job : Writing(h)' => Writing(h) /\ job'[h] = job[h]
  BY <1>3 DEF Writing, None
<1>5. Types'
  <2>1. DictType(told, Job, Nat)'
    BY <1>1, <1>2 DEF Inv, Types, DictType, Put
  <2> QED
    BY <1>1, <1>2, <2>1 DEF Inv, Types
<1>6. ThreadsInv'
  <2>1. \A h \in DOMAIN told' : job'[h] = None
    BY <1>2, <1>3 DEF Inv, Types, DictType, Put, ThreadsInv
  <2>2. \A h \in Job : job'[h].pc = "fetch" => job'[h].written = 0
    BY <1>3 DEF Inv, ThreadsInv, None
  <2>3. \A h \in Job : Writing(h)' => /\ latest'[job'[h].file].by \in Job
                                      /\ job'[h].written <= Length[job'[h].url]
    BY <1>2, <1>4 DEF Inv, ThreadsInv
  <2>4. \A g \in File, h \in Job : latest'[g].by = h /\ job'[h] # None =>
          WritesTo(h, g)' /\ job'[h].url = latest'[g].url
    BY <1>2, <1>3 DEF Inv, ThreadsInv, WritesTo, Writing
  <2> QED
    BY <2>1, <2>2, <2>3, <2>4 DEF ThreadsInv
<1>7. ASSUME NEW g \in File, ~latest'[g].mixed PROVE FileInv(g)'
  <2>1. FileInv(g)
    BY <1>2, <1>7 DEF Inv, FilesInv
  <2>2. ASSUME latest[g].by = j PROVE Holds(g, job[j].written)
    <3>1. WritesTo(j, g)
      BY <1>1, <2>2 DEF Inv, ThreadsInv, Writing, None
    <3> QED
      BY <2>1, <2>2, <3>1 DEF FileInv
  <2>3. ASSUME latest'[g].by \in DOMAIN told', NEW n, n = told'[latest[g].by]
        PROVE  Holds(g, n)'
    <3>1. latest[g].by \in Job /\ Holds(g, n)' = Holds(g, n)
      BY <1>2, <1>5, <2>3 DEF Types, DictType, Holds
    <3>2. CASE latest[g].by = j
      BY <1>2, <2>2, <2>3, <3>1, <3>2 DEF Put
    <3>3. CASE latest[g].by # j
      BY <1>2, <2>1, <2>3, <3>1, <3>3 DEF FileInv, Put
    <3> QED
      BY <3>2, <3>3
  <2> QED
    BY <1>2, <1>4, <2>1, <2>3 DEF FileInv, WritesTo, Holds, InPlace
<1> QED
  BY <1>5, <1>6, <1>7 DEF Inv, FilesInv

LEMMA NextInv == Inv /\ [Next]_vars => Inv'
<1> SUFFICES ASSUME Inv, [Next]_vars PROVE Inv'
  OBVIOUS
<1>0. job \in [Job -> {None} \cup Thread]
  BY DEF Inv, Types
<1>1. CASE UNCHANGED vars
  BY <1>0, <1>1, ThreadsEnd DEF vars
<1>2. ASSUME NEW j \in Job, FetchFails(j) \/ Fail(j) PROVE Inv'
  <2>1. /\ job' = [job EXCEPT ![j] = None]
        /\ UNCHANGED <<disk, latest, told>>
    BY <1>2 DEF FetchFails, Fail
  <2> QED
    BY <1>0, <2>1, ThreadsEnd
<1>3. ASSUME NEW s \in Server, Kill(s) PROVE Inv'
  <2>1. /\ job' = [j \in Job |-> IF job[j].server = s THEN None ELSE job[j]]
        /\ UNCHANGED <<disk, latest, told>>
    BY <1>3 DEF Kill
  <2>2. job' \in [Job -> {None} \cup Thread] /\ \A j \in Job : job'[j] \in {job[j], None}
    BY <1>0, <2>1
  <2> QED
    BY <2>1, <2>2, ThreadsEnd
<1> QED
  BY <1>1, <1>2, <1>3, BeginInv, OpenInv, WriteInv, CompleteInv DEF Next

-----------------------------------------------------------------------------
(* The theorems.                                                           *)

\* The inductive invariant of the downloads.
THEOREM Invariance == Spec => []Inv
BY InitInv, NextInv, PTL DEF Spec

\* The file a download opened last begins with the chunks the download was
\* reported with, and is the whole file of its URL when these are all, unless
\* another URL was being written to the file when it was opened.
THEOREM ReportsAreTrue == Spec => []ReportIsTrue
BY Invariance, InvImplies, PTL

\* Files are not mixed or misplaced, with the same proviso.
THEOREM NothingMixed == Spec => []OneSource
BY Invariance, InvImplies, PTL

=============================================================================
