--------------------------- MODULE ExportDownload ---------------------------
(***************************************************************************)
(* `ti db download-exported-data` (starter/export.go): the main goroutine  *)
(* asks for the URLs of one batch of files after another and hands each    *)
(* file to a pool of workers over an unbuffered channel; every worker      *)
(* stats, creates, copies and accounts for its files.  The command may be  *)
(* killed and run again over what it left behind.                          *)
(***************************************************************************)
EXTENDS Naturals, FiniteSets

CONSTANTS Workers,     \* the goroutines of the pool (--concurrency)
          FileCount,   \* downloadable files of the export
          MaxBatch,    \* maxExportDownloadBatch
          MaxDownloads \* how often the command is run

VARIABLES
    disk,     \* per file: "absent", "theirs", "partial" or "whole"
    next,     \* the next file to hand over
    urls,     \* what the request for the current batch gave: "ok" or "error"
    batchEnd, \* the last file of the current batch
    fetcher,  \* the main goroutine
    working,  \* per worker: the file it has, or 0, or "gone" once its loop ended
    phase,    \* per worker: "stat", "create", "copy" or "account"
    job,      \* per worker: whether its job carries a URL, none, or an error
    status,   \* per worker: the status of the file it has
    result,   \* per file: the status that was counted, "none" before that
    counted,  \* how many files were counted
    downloads

exportVars == <<disk, next, urls, batchEnd, fetcher, working, phase, job, status,
                result, counted, downloads>>

Files == 1..FileCount
Idle == 0
Gone == FileCount + 1

exportDownloadBatchSize ==
    LET batch == 2 * Cardinality(Workers)
    IN  IF batch > MaxBatch THEN MaxBatch ELSE IF batch < 1 THEN 1 ELSE batch

Init ==
    /\ disk \in [Files -> {"absent", "theirs"}]
    /\ next = 1 /\ urls = "ok" /\ batchEnd = 0 /\ fetcher = "idle"
    /\ working = [w \in Workers |-> Gone] /\ phase = [w \in Workers |-> "stat"]
    /\ job = [w \in Workers |-> "url"] /\ status = [w \in Workers |-> "none"]
    /\ result = [f \in Files |-> "none"] /\ counted = 0 /\ downloads = 0

poolVars == <<working, phase, job, status>>

\* prepareExportDownload lists the files and may fail with nothing done.
DownloadExportedData ==
    /\ fetcher \in {"idle", "ok", "error"} /\ downloads < MaxDownloads
    /\ downloads' = downloads + 1
    /\ result' = [f \in Files |-> "none"] /\ counted' = 0
    /\ \/ fetcher' = "error" /\ UNCHANGED <<next, batchEnd, poolVars>>
       \/ /\ fetcher' = "batch" /\ next' = 1 /\ batchEnd' = 0
          /\ working' = [w \in Workers |-> Idle]
          /\ UNCHANGED <<phase, job, status>>
    /\ UNCHANGED <<disk, urls>>

\* DownloadExportFiles for one batch: its error becomes the error of every file.
FetchURLs ==
    /\ fetcher = "batch"
    /\ \/ /\ next <= FileCount /\ fetcher' = "handing"
          /\ batchEnd' = IF next + exportDownloadBatchSize - 1 > FileCount
                         THEN FileCount ELSE next + exportDownloadBatchSize - 1
          /\ urls' \in {"ok", "error"}
       \/ next > FileCount /\ fetcher' = "closed" /\ UNCHANGED <<batchEnd, urls>>
    /\ UNCHANGED <<disk, next, poolVars, result, counted, downloads>>

\* The send on the unbuffered channel and its receive by a free worker.  The answer
\* to the request may lack the URL of a file.
HandOver(w) ==
    /\ fetcher = "handing" /\ working[w] = Idle
    /\ working' = [working EXCEPT ![w] = next]
    /\ \E j \in (IF urls = "ok" THEN {"url", "empty"} ELSE {"error"}) :
         job' = [job EXCEPT ![w] = j]
    /\ phase' = [phase EXCEPT ![w] = "stat"]
    /\ next' = next + 1
    /\ fetcher' = IF next' > batchEnd THEN "batch" ELSE "handing"
    /\ UNCHANGED <<disk, urls, batchEnd, status, result, counted, downloads>>

Report(w, s) ==
    /\ status' = [status EXCEPT ![w] = s]
    /\ phase' = [phase EXCEPT ![w] = "account"]

\* downloadExportFile: the error of the batch, the file that is there already, the
\* missing URL, in this order.
Stat(w) ==
    /\ working[w] \in Files /\ phase[w] = "stat"
    /\ LET here == disk[working[w]] IN
       \/ job[w] = "error" /\ Report(w, "failed")
       \/ job[w] # "error" /\ here # "absent" /\ Report(w, "skipped")
       \/ job[w] = "empty" /\ here = "absent" /\ Report(w, "failed")
       \/ /\ job[w] = "url" /\ here = "absent"
          /\ phase' = [phase EXCEPT ![w] = "create"] /\ UNCHANGED status
    /\ UNCHANGED <<disk, next, urls, batchEnd, fetcher, working, job, result, counted, downloads>>

\* copyExportURL: the request may fail; the file is created with O_EXCL, which
\* fails when somebody made it since the stat.
Create(w) ==
    /\ working[w] \in Files /\ phase[w] = "create"
    /\ \/ Report(w, "failed") /\ UNCHANGED disk
       \/ /\ disk[working[w]] = "absent"
          /\ disk' = [disk EXCEPT ![working[w]] = "partial"]
          /\ phase' = [phase EXCEPT ![w] = "copy"] /\ UNCHANGED status
    /\ UNCHANGED <<next, urls, batchEnd, fetcher, working, job, result, counted, downloads>>

\* A broken copy is removed, and the removal may fail unnoticed.
Copy(w) ==
    /\ working[w] \in Files /\ phase[w] = "copy"
    /\ \/ disk' = [disk EXCEPT ![working[w]] = "whole"] /\ Report(w, "succeeded")
       \/ /\ disk' \in {disk, [disk EXCEPT ![working[w]] = "absent"]}
          /\ Report(w, "failed")
    /\ UNCHANGED <<next, urls, batchEnd, fetcher, working, job, result, counted, downloads>>

\* Under the mutex.
Account(w) ==
    /\ working[w] \in Files /\ phase[w] = "account"
    /\ result' = [result EXCEPT ![working[w]] = status[w]]
    /\ counted' = counted + 1
    /\ working' = [working EXCEPT ![w] = Idle]
    /\ phase' = [phase EXCEPT ![w] = "stat"]
    /\ status' = [status EXCEPT ![w] = "none"] /\ job' = [job EXCEPT ![w] = "url"]
    /\ UNCHANGED <<disk, next, urls, batchEnd, fetcher, downloads>>

\* The channel is closed: the loop of a free worker ends.
WorkerDone(w) ==
    /\ fetcher = "closed" /\ working[w] = Idle
    /\ working' = [working EXCEPT ![w] = Gone]
    /\ UNCHANGED <<disk, next, urls, batchEnd, fetcher, phase, job, status, result, counted, downloads>>

\* wait.Wait, then the error when a file failed.
ReturnsAtClose == fetcher = "closed"
allWorkersDone == fetcher = "closed" /\ \A w \in Workers : working[w] = Gone

Return ==
    /\ allWorkersDone
    /\ fetcher' = IF \E f \in Files : result[f] = "failed" THEN "error" ELSE "ok"
    /\ UNCHANGED <<disk, next, urls, batchEnd, poolVars, result, counted, downloads>>

\* Another process makes one of the files while the command runs.
SomebodyCreates(f) ==
    /\ fetcher \notin {"idle", "ok", "error"} /\ disk[f] = "absent"
    /\ disk' = [disk EXCEPT ![f] = "theirs"]
    /\ UNCHANGED <<next, urls, batchEnd, fetcher, poolVars, result, counted, downloads>>

KillDownload ==
    /\ fetcher \in {"batch", "handing", "closed"}
    /\ fetcher' = "idle" /\ working' = [w \in Workers |-> Gone]
    /\ phase' = [w \in Workers |-> "stat"]
    /\ result' = [f \in Files |-> "none"] /\ counted' = 0
    /\ job' = [w \in Workers |-> "url"] /\ status' = [w \in Workers |-> "none"]
    /\ UNCHANGED <<disk, next, urls, batchEnd, downloads>>

Next ==
    \/ DownloadExportedData \/ FetchURLs \/ Return \/ KillDownload
    \/ \E w \in Workers : HandOver(w) \/ Stat(w) \/ Create(w) \/ Copy(w) \/ Account(w) \/ WorkerDone(w)
    \/ \E f \in Files : SomebodyCreates(f)

Spec == Init /\ [][Next]_exportVars

-----------------------------------------------------------------------------
\* A command that returns has accounted for every file exactly once, none of its
\* goroutines is left, and a file that it calls succeeded is whole on disk.
DownloadsAccounted ==
    fetcher \in {"ok", "error"} /\ counted > 0 =>
        /\ counted = FileCount
        /\ \A w \in Workers : working[w] = Gone
        /\ \A f \in Files : /\ result[f] # "none"
                            /\ result[f] = "succeeded" => disk[f] = "whole"
=============================================================================
