---------------------------- MODULE ModelDownload ----------------------------
(***************************************************************************)
(* transcribe_download_model, called by several R sessions that share one  *)
(* cache directory: the model is fetched into <file>.part, looked at,      *)
(* renamed to <file>, and whatever .part is left is removed on exit.       *)
(* Fetches fail, with an error or without one, and sessions are killed at  *)
(* any point.                                                              *)
(***************************************************************************)
EXTENDS Naturals

CONSTANTS
  Sessions,    \* R sessions that download the same model
  NoFile,      \* no directory entry
  MaxFetches   \* bound: fetches in all

ASSUME ModelDownloadAssumption == MaxFetches \in Nat /\ NoFile \notin Nat

\* Two functions of other packages, taken at what they promise: curl::curl_download
\* writes a file of its own, renames it to the destination when it is complete, and
\* raises an error otherwise; utils::download.file, for sessions without curl, writes in
\* the destination, and tells some failures by an error, others only by a warning and
\* the status that it returns.
Fetchers == {"curl", "file"}

Files == 1 .. MaxFetches

VARIABLES
  at,        \* where each session is in its call
  fetcher,   \* how it fetches
  outcome,   \* what its last call ended with
  handle,    \* the file that it writes
  target,    \* the file behind the model's name, or NoFile
  part,      \* the file behind the .part name, or NoFile
  opener,    \* the session that last created or truncated each file
  whole,     \* the files that hold all of the model
  fetches,   \* fetches so far
  cut,       \* history: the files that a session went on with after a failure that it
             \* did not notice
  together,  \* history: two calls were under way at once
  inPlace,   \* history: and one of them wrote in place
  killed     \* history: a session was killed in a call

callVars == << at, fetcher, outcome, handle >>
dirVars  == << target, part >>
fileVars == << opener, whole, fetches, cut >>
history  == << together, inPlace, killed >>
vars     == << callVars, dirVars, fileVars, history >>

Busy(s) == at[s] # "idle"

Init ==
  /\ at = [s \in Sessions |-> "idle"]
  /\ fetcher = [s \in Sessions |-> "curl"]
  /\ outcome = [s \in Sessions |-> "none"]
  /\ handle = [s \in Sessions |-> NoFile]
  /\ target = NoFile /\ part = NoFile
  /\ opener = [f \in Files |-> NoFile] /\ whole = {} /\ fetches = 0
  /\ cut = {}
  /\ together = FALSE /\ inPlace = FALSE /\ killed = FALSE

\* Mutant of StartFetch: the old model goes before the new one is there.
StartFetch_DropsOld(s, over) ==
  /\ target = NoFile \/ over
  /\ at' = [at EXCEPT ![s] = "fetch"]
  /\ outcome' = [outcome EXCEPT ![s] = "none"]
  /\ target' = NoFile
  /\ UNCHANGED part

\* Past the check for a cached model.
StartFetch(s, over) ==
  /\ target = NoFile \/ over
  /\ at' = [at EXCEPT ![s] = "fetch"]
  /\ outcome' = [outcome EXCEPT ![s] = "none"]
  /\ UNCHANGED dirVars

\* A model that is present is not downloaded again; a user who is asked may decline.
StartCached(s, over) ==
  /\ \/ target # NoFile /\ ~ over /\ outcome' = [outcome EXCEPT ![s] = "cached"]
     \/ (target = NoFile \/ over) /\ outcome' = [outcome EXCEPT ![s] = "failed"]
  /\ UNCHANGED << at, dirVars >>

Start(s, how, over) ==
  /\ at[s] = "idle"
  /\ fetcher' = [fetcher EXCEPT ![s] = how]
  /\ StartFetch(s, over) \/ StartCached(s, over)
  /\ LET others == {r \in Sessions \ {s} : Busy(r)}
     IN  /\ together' = (together \/ (at'[s] # "idle" /\ others # {}))
         /\ inPlace' = (inPlace \/ (/\ at'[s] # "idle"
                                    /\ \E r \in others : "file" \in {how, fetcher[r]}))
  /\ UNCHANGED << handle, fileVars, killed >>

\* curl: a complete file takes the .part name.
CurlFetches(s) ==
  /\ at[s] = "fetch" /\ fetcher[s] = "curl" /\ fetches < MaxFetches
  /\ fetches' = fetches + 1
  /\ part' = fetches'
  /\ whole' = whole \cup {fetches'}
  /\ at' = [at EXCEPT ![s] = "look"]
  /\ UNCHANGED << fetcher, outcome, handle, target, opener, cut, history >>

\* download.file: the .part file is created, or truncated, whoever writes it.
FileOpens(s) ==
  /\ at[s] = "fetch" /\ fetcher[s] = "file" /\ fetches < MaxFetches
  /\ fetches' = fetches + 1
  /\ part' = IF part = NoFile THEN fetches' ELSE part
  /\ handle' = [handle EXCEPT ![s] = part']
  /\ opener' = [opener EXCEPT ![part'] = s]
  /\ whole' = whole \ {part'}
  /\ cut' = cut \ {part'}
  /\ at' = [at EXCEPT ![s] = "write"]
  /\ UNCHANGED << fetcher, outcome, target, history >>

\* All of it is written; the file is whole unless it was truncated meanwhile.
FileWrites(s) ==
  /\ at[s] = "write"
  /\ whole' = IF opener[handle[s]] = s THEN whole \cup {handle[s]} ELSE whole
  /\ handle' = [handle EXCEPT ![s] = NoFile]
  /\ at' = [at EXCEPT ![s] = "look"]
  /\ UNCHANGED << fetcher, outcome, dirVars, opener, fetches, cut, history >>

\* Mutants of FetchFails: the handler of the error only warns; the file stays open.
FetchFails_Swallowed(s) ==
  /\ at[s] \in {"fetch", "write"}
  /\ handle' = [handle EXCEPT ![s] = NoFile]
  /\ at' = [at EXCEPT ![s] = "look"]
  /\ UNCHANGED << fetcher, outcome, dirVars, fileVars, history >>

FetchFails_LeavesOpen(s) ==
  /\ at[s] \in {"fetch", "write"}
  /\ outcome' = [outcome EXCEPT ![s] = "failed"]
  /\ at' = [at EXCEPT ![s] = "unlink"]
  /\ UNCHANGED << fetcher, handle, dirVars, fileVars, history >>

\* The fetch fails with an R error, or is interrupted: on to on.exit.
FetchFails(s) ==
  /\ at[s] \in {"fetch", "write"}
  /\ outcome' = [outcome EXCEPT ![s] = "failed"]
  /\ handle' = [handle EXCEPT ![s] = NoFile]
  /\ at' = [at EXCEPT ![s] = "unlink"]
  /\ UNCHANGED << fetcher, dirVars, fileVars, history >>

\* The fetch fails and raises no error: the value of download.file is dropped, and the
\* call goes on with whatever has the .part name.
FetchFailsUnnoticed(s) ==
  /\ at[s] \in {"fetch", "write"} /\ fetcher[s] = "file"
  /\ cut' = cut \cup ({part} \ {NoFile})
  /\ handle' = [handle EXCEPT ![s] = NoFile]
  /\ at' = [at EXCEPT ![s] = "look"]
  /\ UNCHANGED << fetcher, outcome, dirVars, opener, whole, fetches, history >>

\* The .part file must be there, and not empty, which one being written may be.
Look(s) ==
  /\ at[s] = "look"
  /\ \/ /\ part # NoFile
        /\ at' = [at EXCEPT ![s] = "rename"]
        /\ UNCHANGED outcome
     \/ /\ part = NoFile \/ part \notin whole
        /\ at' = [at EXCEPT ![s] = "unlink"]
        /\ outcome' = [outcome EXCEPT ![s] = "failed"]
  /\ UNCHANGED << fetcher, handle, dirVars, fileVars, history >>

\* Mutant of Rename: on.exit came first.
Rename_Late(s) ==
  /\ at[s] = "rename"
  /\ part' = NoFile
  /\ outcome' = [outcome EXCEPT ![s] = "saved"]
  /\ at' = [at EXCEPT ![s] = "unlink"]
  /\ UNCHANGED << fetcher, handle, target, fileVars, history >>

\* file.rename, whose answer nobody reads.
Rename(s) ==
  /\ at[s] = "rename"
  /\ target' = IF part = NoFile THEN target ELSE part
  /\ part' = NoFile
  /\ outcome' = [outcome EXCEPT ![s] = "saved"]
  /\ at' = [at EXCEPT ![s] = "unlink"]
  /\ UNCHANGED << fetcher, handle, fileVars, history >>

\* Mutant of Unlink: a download that failed leaves its .part behind.
Unlink_OnSuccess(s) ==
  /\ at[s] = "unlink"
  /\ part' = IF outcome[s] = "saved" THEN NoFile ELSE part
  /\ at' = [at EXCEPT ![s] = "idle"]
  /\ UNCHANGED << fetcher, outcome, handle, target, fileVars, history >>

\* on.exit(unlink(tmp)), whoever made the file; then the call ends.
Unlink(s) ==
  /\ at[s] = "unlink"
  /\ part' = NoFile
  /\ at' = [at EXCEPT ![s] = "idle"]
  /\ UNCHANGED << fetcher, outcome, handle, target, fileVars, history >>

\* A session is killed, without on.exit, and started again.
Kill(s) ==
  /\ Busy(s)
  /\ at' = [at EXCEPT ![s] = "idle"]
  /\ outcome' = [outcome EXCEPT ![s] = "none"]
  /\ handle' = [handle EXCEPT ![s] = NoFile]
  /\ killed' = TRUE
  /\ UNCHANGED << fetcher, dirVars, fileVars, together, inPlace >>

Next ==
  \E s \in Sessions :
    \/ \E how \in Fetchers, over \in BOOLEAN : Start(s, how, over)
    \/ CurlFetches(s)
    \/ FileOpens(s)
    \/ FileWrites(s)
    \/ FetchFails(s)
    \/ FetchFailsUnnoticed(s)
    \/ Look(s)
    \/ Rename(s)
    \/ Unlink(s)
    \/ Kill(s)

Spec == Init /\ [][Next]_vars

-----------------------------------------------------------------------------
(* Correctness.                                                            *)

TypeOK ==
  /\ at \in [Sessions -> {"idle", "fetch", "write", "look", "rename", "unlink"}]
  /\ fetcher \in [Sessions -> Fetchers]
  /\ outcome \in [Sessions -> {"none", "cached", "saved", "failed"}]
  /\ handle \in [Sessions -> Files \cup {NoFile}]
  /\ target \in Files \cup {NoFile}
  /\ part \in Files \cup {NoFile}
  /\ opener \in [Files -> Sessions \cup {NoFile}]
  /\ whole \subseteq Files /\ cut \subseteq Files
  /\ fetches \in 0 .. MaxFetches
  /\ together \in BOOLEAN /\ inPlace \in BOOLEAN /\ killed \in BOOLEAN
  /\ \A s \in Sessions : at[s] = "write" <=> handle[s] # NoFile

\* What is installed under the model's name, which later calls take for the model,
\* is all of it, whatever fetches ended in an error or in a kill of their session: it
\* is less only if download.file failed without an error, or if a session that writes
\* in place met another one.
InstalledIsWhole == ~ inPlace => target \in whole \cup cut \cup {NoFile}

\* A model that is installed stays: a download that overwrites it and fails leaves
\* the old one, which others may be loading.
InstalledStays == [][target # NoFile => target' # NoFile]_vars

\* A call that says it saved the model has it in place, unless another session was
\* downloading at the same time.
SavedAlone == ~ together => \A s \in Sessions : outcome[s] = "saved" => target # NoFile

\* No .part file outlives the calls, unless a session was killed.
NoLeftovers == ~ killed /\ (\A s \in Sessions : ~ Busy(s)) => part = NoFile

\* "The path to the downloaded file" (R/download.R, of the value): a call that says
\* it saved the model returns the path of a file that exists.
SavedExists == \A s \in Sessions : outcome[s] = "saved" => target # NoFile
=============================================================================
