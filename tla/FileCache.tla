----------------------------- MODULE FileCache -----------------------------
(***************************************************************************)
(* cache/dbcache with the downloads of www: a table row that says in which *)
(* file the content of a URL is, calls that look it up and download what   *)
(* is missing, and downloads that go on in the background after a timeout. *)
(*                                                                         *)
(* URLs share nothing, so this is one of them. Every call that downloads   *)
(* makes up a random file name: a file is named by the call it belongs to. *)
(* The table and the files outlive the program.                            *)
(***************************************************************************)
EXTENDS Naturals

CONSTANTS
    Calls,       \* calls of GetURL and GetContent, each made once
    Retries,     \* len(retryPolicy)
    Faults,      \* what may fail: subset of FaultKinds
    MaxCrashes   \* bound: how often the program dies and is restarted

FaultKinds == {"db", "timeout", "get", "disk", "copy"}

NoFile == "none"

ASSUME FileCacheConstantsOK ==
    /\ NoFile \notin Calls
    /\ Retries \in Nat \ {0}
    /\ Faults \subseteq FaultKinds
    /\ MaxCrashes \in Nat

VARIABLES
    row,      \* the row of the URL in file_cache
    file,     \* what is on disk
    kind,     \* which function a call is of
    pc,       \* where a call stands
    seen,     \* the file_path it has got from the table
    ctype,    \* the content type that a download has got
    bg,       \* where the background download of a call stands
    tries,    \* requests it has made
    body,     \* the content a GetContent has returned
    crashes   \* restarts so far

fileVars == <<row, file, kind, pc, seen, ctype, bg, tries, body, crashes>>

Files == Calls \cup {NoFile}
Contents == {"none", "partial", "full"}
Downloading == {"request", "create", "copy"}

FileTypeOK ==
    /\ row \in [path : Files, type : {"empty", "known"}]
    /\ file \in [Calls -> Contents]
    /\ kind \in [Calls -> {"url", "content"}]
    /\ pc \in [Calls -> {"new", "stat", "read", "record", "returned"} \cup Downloading]
    /\ seen \in [Calls -> Files]
    /\ ctype \in [Calls -> {"empty", "known"}]
    /\ bg \in [Calls -> {"none", "callback", "ended"} \cup Downloading]
    /\ tries \in [Calls -> 0 .. Retries]
    /\ body \in [Calls -> Contents]
    /\ crashes \in 0 .. MaxCrashes

FileInit ==
    /\ row = [path |-> NoFile, type |-> "empty"]
    /\ file = [c \in Calls |-> "none"]
    /\ kind \in [Calls -> {"url", "content"}]
    /\ pc = [c \in Calls |-> "new"]
    /\ seen = [c \in Calls |-> NoFile]
    /\ ctype = [c \in Calls |-> "empty"]
    /\ bg = [c \in Calls |-> "none"]
    /\ tries = [c \in Calls |-> 0]
    /\ body = [c \in Calls |-> "none"]
    /\ crashes = 0

(***************************************************************************)
(* GetURL and GetContent.                                                  *)
(***************************************************************************)
Goto(c, where) == pc' = [pc EXCEPT ![c] = where]

\* An error reads as "not found".
getCacheRecord(c) ==
    /\ pc[c] = "new"
    /\ \E path \in {row.path} \cup (IF "db" \in Faults THEN {NoFile} ELSE {}) :
          seen' = [seen EXCEPT ![c] = path]
    /\ Goto(c, "stat")
    /\ UNCHANGED <<row, file, kind, ctype, bg, tries, body, crashes>>

\* extPath != "" && file.Exists(fullPath)
Exists(path) == path # NoFile /\ file[path] # "none"

LookForFile(c) ==
    /\ pc[c] = "stat"
    /\ \/ Exists(seen[c]) /\ Goto(c, IF kind[c] = "url" THEN "returned" ELSE "read")
       \/ ~Exists(seen[c]) /\ Goto(c, "request")
    /\ UNCHANGED <<row, file, kind, seen, ctype, bg, tries, body, crashes>>

\* Whatever is in the file by now.
Read(c) ==
    /\ pc[c] = "read"
    /\ body' = [body EXCEPT ![c] = file[seen[c]]]
    /\ Goto(c, "returned")
    /\ UNCHANGED <<row, file, kind, seen, ctype, bg, tries, crashes>>

\* getResponse. Only a request that times out is tried again, in the background
\* and by GetURL alone; GetURL then goes on as if the file were there.
Request(c) ==
    /\ pc[c] = "request"
    /\ \/ /\ ctype' = [ctype EXCEPT ![c] = "known"]
          /\ Goto(c, "create")
          /\ UNCHANGED bg
       \/ /\ "timeout" \in Faults /\ kind[c] = "url"
          /\ bg' = [bg EXCEPT ![c] = "request"]
          /\ Goto(c, "record")
          /\ UNCHANGED ctype
       \/ /\ "get" \in Faults \/ ("timeout" \in Faults /\ kind[c] = "content")
          /\ Goto(c, "returned")
          /\ UNCHANGED <<ctype, bg>>
    /\ UNCHANGED <<row, file, kind, seen, tries, body, crashes>>

\* os.Create
CreateFile(c) ==
    /\ pc[c] = "create"
    /\ \/ /\ file' = [file EXCEPT ![c] = "partial"]
          /\ Goto(c, "copy")
       \/ /\ "disk" \in Faults
          /\ Goto(c, "returned")
          /\ UNCHANGED file
    /\ UNCHANGED <<row, kind, seen, ctype, bg, tries, body, crashes>>

\* Mutant: an error of io.Copy is not returned.
CopyIgnoringErrors(c) ==
    /\ pc[c] = "copy"
    /\ \E f \in {"partial", "full"} :
          /\ file' = [file EXCEPT ![c] = f]
          /\ body' = [body EXCEPT ![c] = IF kind[c] = "content" THEN f ELSE @]
    /\ Goto(c, "record")
    /\ UNCHANGED <<row, kind, seen, ctype, bg, tries, crashes>>

\* io.Copy; for GetContent the body is copied to the buffer as well.
Copy(c) ==
    /\ pc[c] = "copy"
    /\ \/ /\ file' = [file EXCEPT ![c] = "full"]
          /\ body' = [body EXCEPT ![c] = IF kind[c] = "content" THEN "full" ELSE @]
          /\ Goto(c, "record")
       \/ /\ "copy" \in Faults
          /\ Goto(c, "returned")
          /\ UNCHANGED <<file, body>>
    /\ UNCHANGED <<row, kind, seen, ctype, bg, tries, crashes>>

\* The content type is empty when the download is still to come. An error is
\* returned to the caller, with the content.
setCacheRecord(c) ==
    /\ pc[c] = "record"
    /\ \/ row' = [path |-> c, type |-> IF bg[c] = "none" THEN ctype[c] ELSE "empty"]
       \/ "db" \in Faults /\ UNCHANGED row
    /\ Goto(c, "returned")
    /\ UNCHANGED <<file, kind, seen, ctype, bg, tries, body, crashes>>

(***************************************************************************)
(* The goroutine of EnqueueDownload.                                       *)
(***************************************************************************)
\* Mutant: a timeout is tried again without end.
BgRequestForEver(c) ==
    /\ bg[c] = "request"
    /\ \/ /\ ctype' = [ctype EXCEPT ![c] = "known"]
          /\ bg' = [bg EXCEPT ![c] = "create"]
          /\ UNCHANGED tries
       \/ /\ "timeout" \in Faults
          /\ tries' = [tries EXCEPT ![c] = 1 - @]
          /\ UNCHANGED <<ctype, bg>>
    /\ UNCHANGED <<row, file, kind, pc, seen, body, crashes>>

\* One delay and one attempt. Anything but a timeout ends the loop.
BgRequest(c) ==
    /\ bg[c] = "request"
    /\ tries' = [tries EXCEPT ![c] = @ + 1]
    /\ \/ /\ ctype' = [ctype EXCEPT ![c] = "known"]
          /\ bg' = [bg EXCEPT ![c] = "create"]
       \/ /\ "timeout" \in Faults
          /\ bg' = [bg EXCEPT ![c] = IF tries[c] + 1 < Retries THEN "request" ELSE "ended"]
          /\ UNCHANGED ctype
       \/ /\ "get" \in Faults
          /\ bg' = [bg EXCEPT ![c] = "callback"]
          /\ UNCHANGED ctype
    /\ UNCHANGED <<row, file, kind, pc, seen, body, crashes>>

BgCreateFile(c) ==
    /\ bg[c] = "create"
    /\ \/ /\ file' = [file EXCEPT ![c] = "partial"]
          /\ bg' = [bg EXCEPT ![c] = "copy"]
       \/ /\ "disk" \in Faults
          /\ bg' = [bg EXCEPT ![c] = "callback"]
          /\ UNCHANGED file
    /\ UNCHANGED <<row, kind, pc, seen, ctype, tries, body, crashes>>

BgCopy(c) ==
    /\ bg[c] = "copy"
    /\ \/ file' = [file EXCEPT ![c] = "full"]
       \/ "copy" \in Faults /\ UNCHANGED file
    /\ bg' = [bg EXCEPT ![c] = "callback"]
    /\ UNCHANGED <<row, kind, pc, seen, ctype, tries, body, crashes>>

\* Mutant: the loop goes on after the callback.
contentTypeUpdateAndRetry(c) ==
    /\ bg[c] = "callback"
    /\ row' = [row EXCEPT !.type = ctype[c]]
    /\ bg' = [bg EXCEPT ![c] = IF tries[c] < Retries THEN "request" ELSE "ended"]
    /\ UNCHANGED <<file, kind, pc, seen, ctype, tries, body, crashes>>

\* Called after a success and after an error alike. The update changes nothing
\* while there is no row; its error is only logged.
contentTypeUpdate(c) ==
    /\ bg[c] = "callback"
    /\ \/ row' = IF row.path = NoFile THEN row ELSE [row EXCEPT !.type = ctype[c]]
       \/ "db" \in Faults /\ UNCHANGED row
    /\ bg' = [bg EXCEPT ![c] = "ended"]
    /\ UNCHANGED <<file, kind, pc, seen, ctype, tries, body, crashes>>

\* The program dies: calls and downloads are gone, the table and the files stay
\* as they are.
Crash ==
    /\ crashes < MaxCrashes
    /\ crashes' = crashes + 1
    /\ pc' = [c \in Calls |-> IF pc[c] = "new" THEN "new" ELSE "returned"]
    /\ bg' = [c \in Calls |-> IF bg[c] = "none" THEN "none" ELSE "ended"]
    /\ UNCHANGED <<row, file, kind, seen, ctype, tries, body>>

-----------------------------------------------------------------------------
CallStep(c) ==
    \/ LookForFile(c) \/ Read(c)
    \/ Request(c) \/ CreateFile(c) \/ Copy(c)
    \/ setCacheRecord(c)

BackgroundStep(c) ==
    \/ BgRequest(c) \/ BgCreateFile(c) \/ BgCopy(c)
    \/ contentTypeUpdate(c)

FileNext ==
    \/ \E c \in Calls : getCacheRecord(c) \/ CallStep(c) \/ BackgroundStep(c)
    \/ Crash

\* Goroutines are scheduled, and the HTTP client answers or times out.
FileSpec ==
    /\ FileInit /\ [][FileNext]_fileVars
    /\ \A c \in Calls : WF_fileVars(CallStep(c)) /\ WF_fileVars(BackgroundStep(c))

-----------------------------------------------------------------------------
\* Calls download the same URL at the same time, requests and writes fail, the
\* program dies: the row never points to a file that is not complete, unless
\* that file was left to a background download.
RecordedFileIsWhole ==
    row.path # NoFile /\ bg[row.path] = "none" => file[row.path] = "full"

\* GetContent returns a part of the content only out of a file that a
\* background download was filling, or has failed to fill.
BodyIsWhole ==
    \A c \in Calls :
        body[c] = "partial" => seen[c] # NoFile /\ bg[seen[c]] # "none"

\* What has been downloaded is not written again: no retry truncates a file
\* that a caller may already have been given.
FullStaysFull ==
    [][\A c \in Calls : file[c] = "full" => file'[c] = "full"]_fileVars

\* A background download comes to an end however often it times out, and with it
\* the goroutine that retries it.
BackgroundEnds == \A c \in Calls : bg[c] = "request" ~> bg[c] = "ended"

(***************************************************************************)
(* The inductive invariant.                                                *)
(***************************************************************************)
\* A call records its file only when it is complete or left to the background.
RecordsWhole ==
    \A c \in Calls :
        pc[c] = "record" /\ bg[c] = "none" => file[c] = "full"

\* Nobody writes to a file that is complete; while a call downloads by itself it
\* has left nothing to the background, and the other way round.
OneWriter ==
    \A c \in Calls :
        /\ file[c] = "full" => pc[c] \notin Downloading /\ bg[c] \notin Downloading
        /\ bg[c] # "none" => pc[c] \in {"record", "returned"}

\* A file that is seen has been recorded, and is complete if nothing in the
\* background fills it.
SeenIsRecorded ==
    \A c \in Calls :
        seen[c] # NoFile /\ bg[seen[c]] = "none" => file[seen[c]] = "full"

\* What a call knows at its point of the code.
CallOrder ==
    \A c \in Calls :
        /\ pc[c] = "new" => body[c] = "none"
        /\ pc[c] = "read" => seen[c] # NoFile
        /\ pc[c] \in {"new", "stat", "read", "request"} => file[c] = "none"
        /\ bg[c] \in {"none", "request"} => tries[c] < Retries

FileInv ==
    /\ FileTypeOK
    /\ RecordedFileIsWhole
    /\ BodyIsWhole
    /\ RecordsWhole
    /\ OneWriter
    /\ SeenIsRecorded
    /\ CallOrder
=============================================================================
