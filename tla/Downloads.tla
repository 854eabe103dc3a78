------------------------------ MODULE Downloads ------------------------------
(***************************************************************************)
(* download_file, of http_srv/tcp_server.py and rudp/rudp_server.py: the   *)
(* worker threads of both server processes write into one directory, and   *)
(* several of them may have been asked for the same file name.             *)
(*                                                                         *)
(* A file is the sequence of its chunks; every thread writes at its own    *)
(* offset, so a chunk written beyond the end of a file that another thread *)
(* has truncated leaves a hole before it.  What a thread still buffers is  *)
(* what it has not written yet: the file is closed before it reports.      *)
(* Nobody compares what arrived with the length of the file: a stream that *)
(* is cut without an error is reported as complete, with the bytes it had. *)
(***************************************************************************)
EXTENDS Integers, Sequences, PyDict

CONSTANTS
  Job,     \* bound: downloads that can be started
  Server,  \* the server processes
  Url,     \* what can be downloaded
  File,    \* the names files are saved under, extension included
  Length,  \* chunks of the file at each URL
  Hole     \* what was never written; no job, no URL

ASSUME DownloadsAssumption ==
  /\ Hole \notin Job \cup Url
  /\ Length \in [Url -> Nat]

VARIABLES
  job,     \* the worker threads
  disk,    \* the files
  latest,  \* history: the download that opened each file last, and whether one
           \* of another URL was writing to it then
  told     \* history: how many chunks each download that was reported as
           \* complete was reported with: dictionary job -> number

vars == <<job, disk, latest, told>>

\* a thread that is over, or was not started
None == [pc |-> "none", server |-> Hole, url |-> Hole, file |-> Hole, written |-> 0]

\* the whole file at u, chunk by chunk
Content(u) == [k \in 1 .. Length[u] |-> <<u, k>>]

Writing(j) == job[j].pc = "write"

\* two threads that write to one file what belongs to different URLs
Rivals(j, h) == job[h].file = job[j].file /\ job[h].url # job[j].url

-----------------------------------------------------------------------------

\* a request for URL u, to be saved as f, is handed to a thread of server s
Begin(j, s, u, f) ==
  /\ job[j] = None /\ j \notin DOMAIN told
  /\ \A g \in File : latest[g].by # j
  /\ job' = [job EXCEPT ![j] = [pc |-> "fetch", server |-> s, url |-> u,
                                file |-> f, written |-> 0]]
  /\ UNCHANGED <<disk, latest, told>>

\* the URL is refused, requests.get raises, the status is an error, or open
\* raises: an error is reported, no file is touched
FetchFails(j) ==
  /\ job[j].pc = "fetch"
  /\ job' = [job EXCEPT ![j] = None]
  /\ UNCHANGED <<disk, latest, told>>

\* the file that open(.., "wb") leaves (mutant: "r+b")
Untouched(f) == disk[f]
Truncated(f) == << >>

Open(j) ==
  /\ job[j].pc = "fetch"
  /\ job' = [job EXCEPT ![j].pc = "write"]
  /\ disk' = [disk EXCEPT ![job[j].file] = Truncated(job[j].file)]
  /\ latest' = [latest EXCEPT ![job[j].file] =
       [by |-> j, url |-> job[j].url,
        mixed |-> \E h \in Job : Writing(h) /\ Rivals(j, h)]]
  /\ UNCHANGED told

\* file c with v as chunk number k (mutant: opened with "ab")
AtTheEnd(c, k, v) == Append(c, v)
WithChunk(c, k, v) ==
  [i \in 1 .. IF k > Len(c) THEN k ELSE Len(c) |->
     IF i = k THEN v ELSE IF i <= Len(c) THEN c[i] ELSE Hole]

WriteChunk(j) ==
  LET k == job[j].written + 1 IN
    /\ Writing(j) /\ k <= Length[job[j].url]
    /\ job' = [job EXCEPT ![j].written = k]
    /\ disk' = [disk EXCEPT ![job[j].file] = WithChunk(@, k, <<job[j].url, k>>)]
    /\ UNCHANGED <<latest, told>>

\* iter_content ends, after the whole file or before, and the file is closed:
\* "Download complete. .. (n bytes)."
Complete(j) ==
  /\ Writing(j)
  /\ job' = [job EXCEPT ![j] = None]
  /\ told' = Put(told, j, job[j].written)
  /\ UNCHANGED <<disk, latest>>

\* iter_content or write raises: an error is reported, the part that was
\* written stays
Fail(j) ==
  /\ Writing(j)
  /\ job' = [job EXCEPT ![j] = None]
  /\ UNCHANGED <<disk, latest, told>>

\* the dashboard kills a server, and its threads with it
Kill(s) ==
  /\ \E j \in Job : job[j].server = s
  /\ job' = [j \in Job |-> IF job[j].server = s THEN None ELSE job[j]]
  /\ UNCHANGED <<disk, latest, told>>

-----------------------------------------------------------------------------

Init ==
  /\ job = [j \in Job |-> None]
  /\ disk = [f \in File |-> << >>]
  /\ latest = [f \in File |-> [by |-> Hole, url |-> Hole, mixed |-> FALSE]]
  /\ told = EmptyDict

Next ==
  \/ \E j \in Job :
       \/ \E s \in Server, u \in Url, f \in File : Begin(j, s, u, f)
       \/ FetchFails(j) \/ Open(j) \/ WriteChunk(j) \/ Complete(j) \/ Fail(j)
  \/ \E s \in Server : Kill(s)

Spec == Init /\ [][Next]_vars

-----------------------------------------------------------------------------
(* Properties.                                                             *)

\* What a report says is in the file: if the download that opened a file last
\* was reported with n chunks, the file begins with the first n chunks of its
\* URL, and is exactly the file at the URL when n is all of them, whoever else
\* wrote the same content into it and whatever became of them; unless, when it
\* was opened, another URL was being written to it.
ReportIsTrue ==
  \A f \in File : latest[f].by \in DOMAIN told /\ ~latest[f].mixed =>
    LET n == told[latest[f].by]  u == latest[f].url IN
      /\ n <= Len(disk[f])
      /\ \A k \in 1 .. n : disk[f][k] = <<u, k>>
      /\ n = Length[u] => disk[f] = Content(u)

\* Files are not mixed or misplaced: unless another URL was being written when
\* it was opened, a file holds chunks of the last download's URL only, each at
\* its place, and holes before what an earlier download of that URL still writes.
OneSource ==
  \A f \in File : ~latest[f].mixed =>
    \A k \in 1 .. Len(disk[f]) : disk[f][k] \in {<<latest[f].url, k>>, Hole}

=============================================================================
