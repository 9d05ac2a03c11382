------------------------- MODULE ModelDownloadProofs -------------------------
(***************************************************************************)
(* Theorems about ModelDownload, for any number of sessions and fetches.   *)
(***************************************************************************)
EXTENDS ModelDownload, TLAPS

-----------------------------------------------------------------------------
(* The invariant *)

\* Files are numbered in the order of the fetches that make them; the installed
\* model and the .part file are two files.
FilesNumbered ==
  /\ target \in (1 .. fetches) \cup {NoFile}
  /\ part \in (1 .. fetches) \cup {NoFile}
  /\ whole \subseteq 1 .. fetches /\ cut \subseteq 1 .. fetches
  /\ \A s \in Sessions : handle[s] \in (1 .. fetches) \cup {NoFile}
  /\ part # NoFile => part # target

\* Unless it is recorded otherwise, two calls under way both use curl.
InPlaceRecorded ==
  ~ inPlace =>
    \A s, r \in Sessions :
      s # r /\ Busy(s) /\ Busy(r) => fetcher[s] = "curl" /\ fetcher[r] = "curl"

\* Who writes in place writes the .part file, has opened it last, and is the
\* only one to write.
WriterIsAlone ==
  ~ inPlace =>
    \A s \in Sessions :
      at[s] = "write" =>
        fetcher[s] = "file" /\ part # NoFile /\ handle[s] = part /\ opener[part] = s

\* Past the fetch, what has the .part name is whole, or its fetch failed unnoticed.
PartIsWhole ==
  ~ inPlace =>
    \A s \in Sessions : at[s] \in {"look", "rename"} => part \in whole \cup cut \cup {NoFile}

\* Unless it is recorded otherwise, one call is under way, and the .part file
\* that it has looked at is there.
AloneRecorded ==
  ~ together =>
    \A s, r \in Sessions : Busy(s) /\ Busy(r) => s = r
PartStays ==
  ~ together => \A s \in Sessions : at[s] = "rename" => part # NoFile

Inv ==
  /\ TypeOK
  /\ FilesNumbered /\ InPlaceRecorded /\ WriterIsAlone /\ PartIsWhole
  /\ InstalledIsWhole
  /\ AloneRecorded /\ PartStays /\ SavedAlone
  /\ NoLeftovers

\* The empty cache directory.
LEMMA InitInv == Init => Inv
<1> SUFFICES ASSUME Init  PROVE Inv
  OBVIOUS
<1>1. TypeOK
  <2>1. /\ fetches \in 0 .. MaxFetches /\ whole \subseteq Files /\ cut \subseteq Files
        /\ target \in Files \cup {NoFile} /\ part \in Files \cup {NoFile}
    BY ModelDownloadAssumption DEF Init
  <2>5. together \in BOOLEAN /\ inPlace \in BOOLEAN /\ killed \in BOOLEAN
    BY DEF Init
  <2>2. /\ handle \in [Sessions -> Files \cup {NoFile}]
        /\ opener \in [Files -> Sessions \cup {NoFile}]
    BY DEF Init
  <2>3. /\ at \in [Sessions -> {"idle", "fetch", "write", "look", "rename", "unlink"}]
        /\ fetcher \in [Sessions -> Fetchers]
        /\ outcome \in [Sessions -> {"none", "cached", "saved", "failed"}]
    BY DEF Init, Fetchers
  <2>4. \A s \in Sessions : at[s] = "write" <=> handle[s] # NoFile
    BY DEF Init
  <2> QED  BY <2>1, <2>2, <2>3, <2>4, <2>5 DEF TypeOK
<1>2. FilesNumbered
  BY DEF Init, FilesNumbered
<1>3. InPlaceRecorded /\ AloneRecorded /\ NoLeftovers
  BY DEF Init, InPlaceRecorded, AloneRecorded, NoLeftovers, Busy
<1>4. WriterIsAlone /\ PartIsWhole /\ InstalledIsWhole /\ PartStays
  BY DEF Init, WriterIsAlone, PartIsWhole, InstalledIsWhole, PartStays
<1>5. SavedAlone
  BY DEF Init, SavedAlone
<1> QED  BY <1>1, <1>2, <1>3, <1>4, <1>5 DEF Inv

-----------------------------------------------------------------------------
(* Steps *)

\* A step is taken by one session, or changes nothing.
OneStep(s) ==
  \/ \E how \in Fetchers, over \in BOOLEAN : Start(s, how, over)
  \/ CurlFetches(s) \/ FileOpens(s) \/ FileWrites(s) \/ FetchFails(s)
  \/ FetchFailsUnnoticed(s) \/ Look(s) \/ Rename(s) \/ Unlink(s) \/ Kill(s)

LEMMA SomeoneSteps ==
  ASSUME [Next]_vars
  PROVE  UNCHANGED vars \/ \E s \in Sessions : OneStep(s)
BY DEF Next, OneStep

\* What a start does, put together from its two outcomes.
Starts(s) ==
  /\ at[s] = "idle"
  /\ \E how \in Fetchers : fetcher' = [fetcher EXCEPT ![s] = how]
  /\ \/ at' = at /\ \E o \in {"cached", "failed"} :
                       /\ outcome' = [outcome EXCEPT ![s] = o]
                       /\ o = "cached" => target # NoFile
     \/ /\ at' = [at EXCEPT ![s] = "fetch"]
        /\ outcome' = [outcome EXCEPT ![s] = "none"]
  /\ UNCHANGED << dirVars, handle, fileVars, killed >>

\* Either outcome of a start is one of Starts.
LEMMA StartIs ==
  ASSUME NEW s \in Sessions, NEW how \in Fetchers, NEW over \in BOOLEAN,
         Start(s, how, over)
  PROVE  Starts(s)
BY DEF Start, StartFetch, StartCached, Starts, dirVars

\* Types, by action.
LEMMA TypeKept ==
  ASSUME TypeOK, NEW s \in Sessions, OneStep(s)
  PROVE  TypeOK'
<1> USE ModelDownloadAssumption DEF TypeOK, Files
<1>1. CASE \E how \in Fetchers, over \in BOOLEAN : Start(s, how, over)
  <2>1. Starts(s)
    BY <1>1, StartIs
  <2>2. together' \in BOOLEAN /\ inPlace' \in BOOLEAN
    BY <1>1 DEF Start
  <2>3. UNCHANGED << target, part, handle, opener, whole, fetches, cut, killed >>
    BY <2>1 DEF Starts, dirVars, fileVars
  <2>4. /\ fetcher' \in [Sessions -> Fetchers]
        /\ outcome' \in [Sessions -> {"none", "cached", "saved", "failed"}]
    BY <2>1 DEF Starts
  <2>5. /\ at' \in [Sessions -> {"idle", "fetch", "write", "look", "rename", "unlink"}]
        /\ \A r \in Sessions : at'[r] = "write" <=> handle[r] # NoFile
    BY <2>1 DEF Starts
  <2> QED  BY <2>2, <2>3, <2>4, <2>5
<1>2. CASE CurlFetches(s)
  BY <1>2 DEF CurlFetches, history
<1>3. CASE FileOpens(s)
  BY <1>3 DEF FileOpens, history
<1>4. CASE FileWrites(s)
  BY <1>4 DEF FileWrites, dirVars, history
<1>5. CASE FetchFails(s)
  BY <1>5 DEF FetchFails, dirVars, fileVars, history
<1>6. CASE Look(s)
  BY <1>6 DEF Look, dirVars, fileVars, history
<1>7. CASE Rename(s)
  BY <1>7 DEF Rename, fileVars, history
<1>8. CASE Unlink(s)
  BY <1>8 DEF Unlink, fileVars, history
<1>9. CASE Kill(s)
  BY <1>9 DEF Kill, dirVars, fileVars
<1>10. CASE FetchFailsUnnoticed(s)
  BY <1>10 DEF FetchFailsUnnoticed, dirVars, history
<1> QED
  BY <1>1, <1>2, <1>3, <1>4, <1>5, <1>6, <1>7, <1>8, <1>9, <1>10 DEF OneStep

\* A fetch takes a new number or the file behind .part.
LEMMA NumbersKept ==
  ASSUME TypeOK, FilesNumbered, NEW s \in Sessions, OneStep(s)
  PROVE  FilesNumbered'
<1> USE ModelDownloadAssumption DEF TypeOK, FilesNumbered, Files
<1>1. CASE \E how \in Fetchers, over \in BOOLEAN : Start(s, how, over)
  <2>1. Starts(s)
    BY <1>1, StartIs
  <2> QED  BY <2>1 DEF Starts, dirVars, fileVars
<1>2. CASE CurlFetches(s)
  BY <1>2 DEF CurlFetches
<1>3. CASE FileOpens(s)
  BY <1>3 DEF FileOpens
<1>4. CASE FileWrites(s)
  <2>1. /\ UNCHANGED << target, part, fetches, cut >>
        /\ whole' = IF opener[handle[s]] = s THEN whole \cup {handle[s]} ELSE whole
    BY <1>4 DEF FileWrites, dirVars
  <2>2. handle[s] \in 1 .. fetches
    BY <1>4 DEF FileWrites
  <2>3. handle' = [handle EXCEPT ![s] = NoFile]
    BY <1>4 DEF FileWrites
  <2>4. whole' \subseteq 1 .. fetches
    BY <2>1, <2>2
  <2>5. \A r \in Sessions : handle'[r] \in (1 .. fetches) \cup {NoFile}
    BY <2>3
  <2> QED  BY <2>1, <2>4, <2>5
<1>5. CASE FetchFails(s) \/ Look(s) \/ Kill(s)
  BY <1>5 DEF FetchFails, Look, Kill, dirVars, fileVars
<1>6. CASE Rename(s) \/ Unlink(s)
  BY <1>6 DEF Rename, Unlink, fileVars
<1>7. CASE FetchFailsUnnoticed(s)
  BY <1>7 DEF FetchFailsUnnoticed, dirVars
<1> QED
  BY <1>1, <1>2, <1>3, <1>4, <1>5, <1>6, <1>7 DEF OneStep

\* A start is recorded if others are under way.
LEMMA StartRecords ==
  ASSUME Inv, NEW s \in Sessions, NEW how \in Fetchers, NEW over \in BOOLEAN,
         Start(s, how, over)
  PROVE  /\ inPlace => inPlace'
         /\ together => together'
         /\ at' # at => \A r \in Sessions \ {s} :
              Busy(r) => /\ together'
                         /\ inPlace' \/ (how = "curl" /\ fetcher[r] = "curl")
<1>1. at' = at \/ at' = [at EXCEPT ![s] = "fetch"]
  BY DEF Start, StartFetch, StartCached
<1>2. at' # at => at'[s] # "idle"
  BY <1>1 DEF Inv, TypeOK
<1>3. \A r \in Sessions : fetcher[r] \in {"curl", "file"}
  BY DEF Inv, TypeOK, Fetchers
<1>4. /\ inPlace => inPlace'
      /\ together => together'
  BY DEF Start
<1>5. ASSUME NEW r \in Sessions \ {s}, at' # at, Busy(r)
      PROVE  together'
  BY <1>2, <1>5 DEF Start
<1>6. ASSUME NEW r \in Sessions \ {s}, at' # at, Busy(r), ~ inPlace'
      PROVE  how = "curl" /\ fetcher[r] = "curl"
  <2>1. "file" \notin {how, fetcher[r]}
    BY <1>2, <1>6 DEF Start
  <2> QED  BY <1>3, <2>1 DEF Fetchers
<1> QED  BY <1>4, <1>5, <1>6

\* No other step starts a call, chooses a fetcher or changes the record.
Goes(s) ==
  \/ CurlFetches(s) \/ FileOpens(s) \/ FileWrites(s) \/ FetchFails(s)
  \/ FetchFailsUnnoticed(s) \/ Look(s) \/ Rename(s) \/ Unlink(s) \/ Kill(s)

LEMMA GoesOn ==
  ASSUME Inv, NEW s \in Sessions, Goes(s)
  PROVE  /\ UNCHANGED << fetcher, together, inPlace >>
         /\ Busy(s)
         /\ \A r \in Sessions \ {s} : at'[r] = at[r] /\ handle'[r] = handle[r]
                                         /\ outcome'[r] = outcome[r]
BY DEF Inv, TypeOK, Goes, Busy, CurlFetches, FileOpens, FileWrites, FetchFails,
       FetchFailsUnnoticed, Look, Rename, Unlink, Kill, history

\* The records of who met whom are kept by each step.
LEMMA RecordsKept ==
  ASSUME Inv, NEW s \in Sessions, OneStep(s)
  PROVE  InPlaceRecorded' /\ AloneRecorded'
<1>1. CASE \E how \in Fetchers, over \in BOOLEAN : Start(s, how, over)
  <2>1. PICK how \in Fetchers, over \in BOOLEAN : Start(s, how, over)
    BY <1>1
  <2>2. /\ at[s] = "idle"
        /\ fetcher' = [fetcher EXCEPT ![s] = how]
        /\ at' = at \/ at' = [at EXCEPT ![s] = "fetch"]
    BY <2>1 DEF Start, StartFetch, StartCached
  <2>3. /\ inPlace => inPlace'
        /\ together => together'
        /\ at' # at => \A r \in Sessions \ {s} :
             Busy(r) => /\ together'
                        /\ inPlace' \/ (how = "curl" /\ fetcher[r] = "curl")
    BY <2>1, StartRecords
  <2>4. \A r \in Sessions \ {s} : at'[r] = at[r] /\ fetcher'[r] = fetcher[r]
    BY <2>2 DEF Inv, TypeOK
  <2>5. at' = at => ~ Busy(s)'
    BY <2>2 DEF Busy
  <2>6. fetcher'[s] = how
    BY <2>2 DEF Inv, TypeOK
  <2>7. InPlaceRecorded'
    <3> SUFFICES ASSUME ~ inPlace', NEW q \in Sessions, NEW r \in Sessions,
                        q # r, Busy(q)', Busy(r)'
                 PROVE  fetcher'[q] = "curl" /\ fetcher'[r] = "curl"
      BY DEF InPlaceRecorded, Busy
    <3>1. CASE q # s /\ r # s
      BY <2>3, <2>4, <3>1 DEF Inv, InPlaceRecorded, Busy
    <3>2. CASE q = s
      <4>1. at' # at /\ r \in Sessions \ {s} /\ Busy(r)
        BY <2>4, <2>5, <3>2 DEF Busy
      <4> QED  BY <2>3, <2>4, <2>6, <3>2, <4>1
    <3>3. CASE r = s
      <4>1. at' # at /\ q \in Sessions \ {s} /\ Busy(q)
        BY <2>4, <2>5, <3>3 DEF Busy
      <4> QED  BY <2>3, <2>4, <2>6, <3>3, <4>1
    <3> QED  BY <3>1, <3>2, <3>3
  <2>8. AloneRecorded'
    <3> SUFFICES ASSUME ~ together', NEW q \in Sessions, NEW r \in Sessions,
                        Busy(q)', Busy(r)'
                 PROVE  q = r
      BY DEF AloneRecorded, Busy
    <3>1. CASE q # s /\ r # s
      BY <2>3, <2>4, <3>1 DEF Inv, AloneRecorded, Busy
    <3>2. CASE q = s /\ r # s
      <4>1. at' # at /\ r \in Sessions \ {s} /\ Busy(r)
        BY <2>4, <2>5, <3>2 DEF Busy
      <4> QED  BY <2>3, <4>1
    <3>3. CASE r = s /\ q # s
      <4>1. at' # at /\ q \in Sessions \ {s} /\ Busy(q)
        BY <2>4, <2>5, <3>3 DEF Busy
      <4> QED  BY <2>3, <4>1
    <3> QED  BY <3>1, <3>2, <3>3
  <2> QED  BY <2>7, <2>8
<1>2. CASE Goes(s)
  <2>1. /\ UNCHANGED << fetcher, together, inPlace >>
        /\ \A r \in Sessions : Busy(r)' => Busy(r)
    BY <1>2, GoesOn DEF Busy
  <2>2. InPlaceRecorded'
    BY <2>1 DEF Inv, InPlaceRecorded, Busy
  <2>3. AloneRecorded'
    BY <2>1 DEF Inv, AloneRecorded, Busy
  <2> QED  BY <2>2, <2>3
<1> QED  BY <1>1, <1>2 DEF OneStep, Goes

-----------------------------------------------------------------------------
(* Whole files *)

\* Beside a session that writes in place nobody is under way, unless recorded.
LEMMA WriterMeetsNobody ==
  ASSUME Inv, ~ inPlace, NEW s \in Sessions, NEW r \in Sessions \ {s},
         Busy(s), Busy(r)
  PROVE  fetcher[s] # "file" /\ at[s] # "write" /\ at[r] # "write"
BY DEF Inv, InPlaceRecorded, WriterIsAlone

\* What is installed, or about to be, stays whole.
LEMMA WholeKept ==
  ASSUME Inv, NEW s \in Sessions, OneStep(s)
  PROVE  WriterIsAlone' /\ PartIsWhole' /\ InstalledIsWhole'
<1> SUFFICES ASSUME ~ inPlace'
             PROVE  /\ \A r \in Sessions :
                         at'[r] = "write" =>
                           /\ fetcher'[r] = "file" /\ part' # NoFile
                           /\ handle'[r] = part' /\ opener'[part'] = r
                    /\ \A r \in Sessions :
                         at'[r] \in {"look", "rename"} => part' \in whole' \cup cut' \cup {NoFile}
                    /\ target' \in whole' \cup cut' \cup {NoFile}
  BY DEF WriterIsAlone, PartIsWhole, InstalledIsWhole
<1>1. CASE \E how \in Fetchers, over \in BOOLEAN : Start(s, how, over)
  <2>1. ~ inPlace
    BY <1>1 DEF Start
  <2>2. Starts(s)
    BY <1>1, StartIs
  <2>3. UNCHANGED << target, part, whole, cut, opener, handle >>
    BY <2>2 DEF Starts, dirVars, fileVars
  <2>4. \A r \in Sessions : /\ at'[r] \in {at[r], "fetch"}
                            /\ r # s => fetcher'[r] = fetcher[r]
    BY <2>2 DEF Starts, Inv, TypeOK
  <2>5. at'[s] \notin {"write", "look", "rename"}
    BY <2>2 DEF Starts, Inv, TypeOK
  <2> QED  BY <2>1, <2>3, <2>4, <2>5 DEF Inv, WriterIsAlone, PartIsWhole, InstalledIsWhole
<1>2. CASE Goes(s)
  <2>1. /\ ~ inPlace /\ fetcher' = fetcher
        /\ Busy(s)
        /\ \A r \in Sessions \ {s} : at'[r] = at[r] /\ handle'[r] = handle[r]
    BY <1>2, GoesOn
  <2>2. ASSUME NEW r \in Sessions \ {s}, at[r] # "idle"
        PROVE  fetcher[s] # "file" /\ at[s] # "write" /\ at[r] # "write"
    BY <2>1, <2>2, WriterMeetsNobody DEF Busy
  <2>3. CASE CurlFetches(s)
    <3>1. /\ part' = fetches' /\ whole' = whole \cup {part'}
          /\ at'[s] = "look" /\ target' = target /\ cut' = cut
      BY <2>3 DEF CurlFetches, Inv, TypeOK
    <3> QED  BY <2>1, <2>2, <3>1 DEF Inv, InstalledIsWhole
  <2>4. CASE FileOpens(s)
    <3>1. /\ fetcher[s] = "file" /\ at'[s] = "write"
          /\ handle'[s] = part' /\ target' = target
          /\ whole' = whole \ {part'} /\ cut' = cut \ {part'}
      BY <2>4 DEF FileOpens, Inv, TypeOK
    <3>2. part' \in Files /\ part' # target
      BY <2>4, ModelDownloadAssumption DEF FileOpens, Inv, FilesNumbered, TypeOK, Files
    <3>3. opener'[part'] = s
      BY <2>4, <3>2 DEF FileOpens, Inv, TypeOK
    <3>4. part' # NoFile
      BY <3>2, ModelDownloadAssumption DEF Files
    <3>5. \A r \in Sessions \ {s} : at'[r] = "idle"
      BY <2>1, <2>2, <3>1
    <3> QED  BY <2>1, <3>1, <3>2, <3>3, <3>4, <3>5 DEF Inv, InstalledIsWhole
  <2>5. CASE FileWrites(s)
    <3>1. /\ at[s] = "write" /\ at'[s] = "look"
          /\ UNCHANGED << target, part, cut >>
      BY <2>5 DEF FileWrites, dirVars, Inv, TypeOK
    <3>2. handle[s] = part /\ opener[part] = s
      BY <2>1, <3>1 DEF Inv, WriterIsAlone
    <3>3. whole' = whole \cup {part}
      BY <2>5, <3>2 DEF FileWrites
    <3>4. \A r \in Sessions \ {s} : at'[r] = "idle"
      BY <2>1, <2>2, <3>1
    <3> QED  BY <2>1, <3>1, <3>3, <3>4 DEF Inv, InstalledIsWhole
  <2>6. CASE FetchFails(s) \/ Kill(s)
    <3>1. /\ UNCHANGED << target, part, whole, cut, opener >>
          /\ at'[s] \in {"unlink", "idle"}
      BY <2>6 DEF FetchFails, Kill, dirVars, fileVars, Inv, TypeOK
    <3> QED
      BY <2>1, <3>1 DEF Inv, WriterIsAlone, PartIsWhole, InstalledIsWhole
  <2>7. CASE Look(s)
    <3>1. /\ UNCHANGED << target, part, whole, cut, opener >>
          /\ at[s] = "look" /\ at'[s] \in {"rename", "unlink"}
      BY <2>7 DEF Look, dirVars, fileVars, Inv, TypeOK
    <3> QED
      BY <2>1, <3>1 DEF Inv, WriterIsAlone, PartIsWhole, InstalledIsWhole
  <2>8. CASE Rename(s)
    <3>1. /\ target' \in {target, part} /\ part' = NoFile /\ UNCHANGED << whole, cut >>
          /\ at[s] = "rename" /\ at'[s] = "unlink"
      BY <2>8 DEF Rename, fileVars, Inv, TypeOK
    <3>2. part \in whole \cup cut \cup {NoFile}
      BY <2>1, <3>1 DEF Inv, PartIsWhole
    <3> QED  BY <2>1, <2>2, <3>1, <3>2 DEF Inv, InstalledIsWhole
  <2>9. CASE Unlink(s)
    <3>1. /\ target' = target /\ part' = NoFile /\ UNCHANGED << whole, cut >>
          /\ at'[s] = "idle"
      BY <2>9 DEF Unlink, fileVars, Inv, TypeOK
    <3> QED  BY <2>1, <2>2, <3>1 DEF Inv, InstalledIsWhole
  <2>10. CASE FetchFailsUnnoticed(s)
    <3>1. /\ UNCHANGED << target, part, whole, opener >>
          /\ at'[s] = "look" /\ fetcher[s] = "file"
          /\ cut' = cut \cup ({part} \ {NoFile})
      BY <2>10 DEF FetchFailsUnnoticed, dirVars, Inv, TypeOK
    <3>2. \A r \in Sessions \ {s} : at'[r] = "idle"
      BY <2>1, <2>2, <3>1
    <3> QED  BY <2>1, <3>1, <3>2 DEF Inv, InstalledIsWhole
  <2> QED
    BY <1>2, <2>3, <2>4, <2>5, <2>6, <2>7, <2>8, <2>9, <2>10 DEF Goes
<1> QED  BY <1>1, <1>2 DEF OneStep, Goes

-----------------------------------------------------------------------------
(* What a call says, and leaves *)

\* What a lone session has looked at stays until it renames it.
LEMMA SavedKept ==
  ASSUME Inv, NEW s \in Sessions, OneStep(s)
  PROVE  PartStays' /\ SavedAlone'
<1> SUFFICES ASSUME ~ together'
             PROVE  /\ \A r \in Sessions : at'[r] = "rename" => part' # NoFile
                    /\ \A r \in Sessions : outcome'[r] = "saved" => target' # NoFile
  BY DEF PartStays, SavedAlone
<1>1. CASE \E how \in Fetchers, over \in BOOLEAN : Start(s, how, over)
  <2>1. ~ together
    BY <1>1 DEF Start
  <2>2. Starts(s)
    BY <1>1, StartIs
  <2>3. UNCHANGED << target, part >>
    BY <2>2 DEF Starts, dirVars
  <2>4. \A r \in Sessions : at'[r] = "rename" => at[r] = "rename"
    BY <2>2 DEF Starts, Inv, TypeOK
  <2>5. \A r \in Sessions : outcome'[r] = "saved" => outcome[r] = "saved"
    BY <2>2 DEF Starts, Inv, TypeOK
  <2> QED  BY <2>1, <2>3, <2>4, <2>5 DEF Inv, PartStays, SavedAlone
<1>2. CASE Goes(s)
  <2>1. /\ ~ together /\ Busy(s)
        /\ \A r \in Sessions \ {s} : at'[r] = at[r] /\ outcome'[r] = outcome[r]
    BY <1>2, GoesOn
  <2>2. \A r \in Sessions \ {s} : at'[r] = "idle"
    BY <2>1 DEF Inv, AloneRecorded, Busy
  <2>3. CASE CurlFetches(s) \/ FileOpens(s)
    <3>1. target' = target /\ outcome' = outcome /\ at'[s] # "rename"
      BY <2>3 DEF CurlFetches, FileOpens, Inv, TypeOK
    <3> QED  BY <2>1, <2>2, <3>1 DEF Inv, SavedAlone
  <2>4. CASE FileWrites(s) \/ FetchFails(s) \/ FetchFailsUnnoticed(s) \/ Kill(s)
    <3>1. /\ target' = target /\ at'[s] # "rename"
          /\ outcome'[s] = "saved" => outcome[s] = "saved"
      BY <2>4 DEF FileWrites, FetchFails, FetchFailsUnnoticed, Kill, dirVars, Inv, TypeOK
    <3> QED  BY <2>1, <2>2, <3>1 DEF Inv, SavedAlone
  <2>5. CASE Look(s)
    <3>1. /\ UNCHANGED << target, part >>
          /\ at'[s] = "rename" => part # NoFile
          /\ outcome'[s] = "saved" => outcome[s] = "saved"
      BY <2>5 DEF Look, dirVars, Inv, TypeOK
    <3> QED  BY <2>1, <2>2, <3>1 DEF Inv, SavedAlone
  <2>6. CASE Rename(s)
    <3>1. part # NoFile
      BY <2>1, <2>6 DEF Rename, Inv, PartStays
    <3>2. target' # NoFile /\ at'[s] # "rename"
      BY <2>6, <3>1 DEF Rename, Inv, TypeOK
    <3> QED  BY <2>2, <3>2
  <2>7. CASE Unlink(s)
    <3>1. target' = target /\ outcome' = outcome /\ at'[s] # "rename"
      BY <2>7 DEF Unlink, Inv, TypeOK
    <3> QED  BY <2>1, <2>2, <3>1 DEF Inv, SavedAlone
  <2> QED
    BY <1>2, <2>3, <2>4, <2>5, <2>6, <2>7 DEF Goes
<1> QED  BY <1>1, <1>2 DEF OneStep, Goes

\* A call that ends leaves no .part file.
LEMMA CleanKept ==
  ASSUME Inv, NEW s \in Sessions, OneStep(s)
  PROVE  NoLeftovers'
<1> SUFFICES ASSUME ~ killed', \A r \in Sessions : at'[r] = "idle"
             PROVE  part' = NoFile
  BY DEF NoLeftovers, Busy
<1>1. CASE \E how \in Fetchers, over \in BOOLEAN : Start(s, how, over)
  <2>1. Starts(s)
    BY <1>1, StartIs
  <2>2. at' = at /\ part' = part /\ killed' = killed
    BY <2>1 DEF Starts, dirVars, Inv, TypeOK
  <2> QED  BY <2>2 DEF Inv, NoLeftovers, Busy
<1>2. CASE Unlink(s)
  BY <1>2 DEF Unlink
<1>3. CASE Kill(s)
  BY <1>3 DEF Kill
<1>4. CASE \/ CurlFetches(s) \/ FileOpens(s) \/ FileWrites(s) \/ FetchFails(s)
           \/ FetchFailsUnnoticed(s) \/ Look(s) \/ Rename(s)
  <2>1. at'[s] # "idle"
    BY <1>4 DEF CurlFetches, FileOpens, FileWrites, FetchFails, FetchFailsUnnoticed, Look,
                Rename, Inv, TypeOK
  <2> QED  BY <2>1
<1> QED  BY <1>1, <1>2, <1>3, <1>4 DEF OneStep

-----------------------------------------------------------------------------
(* Theorems *)

\* The invariant is inductive.
LEMMA InvKept ==
  ASSUME Inv, [Next]_vars
  PROVE  Inv'
<1>1. CASE UNCHANGED vars
  BY <1>1 DEF vars, callVars, dirVars, fileVars, history, Inv, TypeOK, FilesNumbered,
     InPlaceRecorded, WriterIsAlone, PartIsWhole, InstalledIsWhole, AloneRecorded,
     PartStays, SavedAlone, NoLeftovers, Busy
<1>2. CASE \E s \in Sessions : OneStep(s)
  <2>1. PICK s \in Sessions : OneStep(s)
    BY <1>2
  <2>2. TypeOK' /\ FilesNumbered'
    BY <2>1, TypeKept, NumbersKept DEF Inv
  <2>3. InPlaceRecorded' /\ AloneRecorded'
    BY <2>1, RecordsKept
  <2>4. WriterIsAlone' /\ PartIsWhole' /\ InstalledIsWhole'
    BY <2>1, WholeKept
  <2>5. PartStays' /\ SavedAlone' /\ NoLeftovers'
    BY <2>1, SavedKept, CleanKept
  <2> QED  BY <2>2, <2>3, <2>4, <2>5 DEF Inv
<1> QED  BY <1>1, <1>2, SomeoneSteps

\* The state of the calls and of the directory is of its type, for any number of
\* sessions and of fetches, and any failures and kills.
THEOREM TypeCorrect == Spec => []TypeOK
<1>1. Inv => TypeOK  BY DEF Inv
<1> QED  BY <1>1, InitInv, InvKept, PTL DEF Spec

\* What stands under the model's name is all of the model, unless download.file failed
\* without an error, or a session that writes in place met another one.
THEOREM InstalledModelsAreWhole == Spec => []InstalledIsWhole
<1>1. Inv => InstalledIsWhole  BY DEF Inv
<1> QED  BY <1>1, InitInv, InvKept, PTL DEF Spec

\* A call that nobody disturbed, and that says it saved the model, has saved it.
THEOREM SavedMeansThere == Spec => []SavedAlone
<1>1. Inv => SavedAlone  BY DEF Inv
<1> QED  BY <1>1, InitInv, InvKept, PTL DEF Spec

\* When no call is under way, and none was killed, there is no .part file.
THEOREM NothingLeft == Spec => []NoLeftovers
<1>1. Inv => NoLeftovers  BY DEF Inv
<1> QED  BY <1>1, InitInv, InvKept, PTL DEF Spec

\* No step removes an installed model: it is replaced in one step or stays.
THEOREM InstalledModelsStay == Spec => InstalledStays
<1>1. [Next]_vars => [target # NoFile => target' # NoFile]_vars
  <2> SUFFICES ASSUME NEW s \in Sessions, OneStep(s), target # NoFile
               PROVE  target' # NoFile
    BY SomeoneSteps
  <2>1. CASE \E how \in Fetchers, over \in BOOLEAN : Start(s, how, over)
    <3>1. Starts(s)
      BY <2>1, StartIs
    <3> QED  BY <3>1 DEF Starts, dirVars
  <2>2. CASE Goes(s)
    BY <2>2 DEF Goes, CurlFetches, FileOpens, FileWrites, FetchFails,
                FetchFailsUnnoticed, Look, Rename, Unlink, Kill, dirVars
  <2> QED  BY <2>1, <2>2 DEF OneStep, Goes
<1> QED  BY <1>1, PTL DEF Spec, InstalledStays
==============================================================================
