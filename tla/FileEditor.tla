----------------------------- MODULE FileEditor -----------------------------
(***************************************************************************)
(* The files a user edits in a worktree (useWorkspaceFileEditor.ts): the   *)
(* tabs, of which one may be a preview, the state of each file, and the    *)
(* requests that load and save it, which may be answered after the user    *)
(* went on.                                                                *)
(*                                                                         *)
(* A text is a number: NoText is on disk at first, and the user types a    *)
(* new one each time.  The tabs, the states and the search parameters that *)
(* name the file in view change together.  The user accepts what he is     *)
(* asked to confirm: a confirmation declined changes nothing.              *)
(***************************************************************************)
EXTENDS Naturals, FiniteSets, SequencesExt

CONSTANTS
    Paths, NoPath,
    MaxTexts,       \* bound: texts typed
    MaxRequests,    \* bound: requests made
    MaxFaults       \* bound: requests that fail

ASSUME FileAssumption ==
    NoPath \notin Paths /\ {MaxTexts, MaxRequests, MaxFaults} \subseteq Nat

VARIABLES
    viewed,         \* activeFilePath, while activeView is "file"
    fileTabs,       \* openFileTabsByWorktreeId: [path, pinned]
    fileState,      \* editorFileStateByWorktreeId
    loads,          \* requests to read: [path, owned, text]; the effect of the view owns
                    \* those it cancels
    saves,          \* requests to write: [path, text, written]
    disk,           \* the text of each file
    requests, faults,
    typed,          \* history: the number of texts typed
    newest,         \* history: the text last typed into a file and not given up
    exposed,        \* history: the files whose text an answer or a retry may replace
    stranded        \* history: the files left while they loaded, and those of which a
                    \* failed save was retried: nothing loads them

fileVars == <<viewed, fileTabs, fileState, loads, saves, disk, requests, faults, typed,
              newest, exposed, stranded>>

NoText == 0
Unread == MaxTexts + 1

\* createInitialEditorFileState, and a file without a state.
Initial == [known |-> TRUE, saved |-> NoText, draft |-> NoText, loading |-> FALSE,
            loaded |-> FALSE, saving |-> FALSE, error |-> "none"]
Absent  == [Initial EXCEPT !.known = FALSE]

FileInit ==
    /\ viewed = NoPath /\ fileTabs = << >> /\ fileState = [p \in Paths |-> Absent]
    /\ loads = {} /\ saves = {} /\ disk = [p \in Paths |-> NoText]
    /\ requests = 0 /\ faults = 0 /\ typed = 0
    /\ newest = [p \in Paths |-> NoText] /\ exposed = {} /\ stranded = {}

-----------------------------------------------------------------------------
\* updateEditorFileState: an update gives a file without a state its initial one.
Current(p) == [fileState[p] EXCEPT !.known = TRUE]

\* isFileDirty
IsDirty(p) == fileState[p].loaded /\ fileState[p].draft # fileState[p].saved

\* The editor shows neither a spinner nor an error.
Editable(p) == viewed = p /\ ~fileState[p].loading /\ fileState[p].error = "none"

HasTab(p)   == \E i \in DOMAIN fileTabs : fileTabs[i].path = p
PlaceOf(p)  == CHOOSE i \in DOMAIN fileTabs : fileTabs[i].path = p
Previews    == {i \in DOMAIN fileTabs : ~fileTabs[i].pinned}
Tab(p, pin) == [path |-> p, pinned |-> pin]
PinTab(p)   == [i \in DOMAIN fileTabs |->
                   IF fileTabs[i].path = p THEN Tab(p, TRUE) ELSE fileTabs[i]]

InFlight(p) == p \in {r.path : r \in loads \cup saves}

\* The user agrees to drop the changes of a file, if it has any.
GiveUp(p) ==
    /\ newest' = IF IsDirty(p) THEN [newest EXCEPT ![p] = NoText] ELSE newest
    /\ exposed' = IF IsDirty(p) THEN exposed \ {p} ELSE exposed

\* loadEditorFile, for the effect of the view or for nobody who would cancel it.
NeedsAnyLoad(state) == ~state.loading     \* mutant: loads again what is loaded
NeedsLoad(state) == ~state.loading /\ ~state.loaded
Loading(state) == [state EXCEPT !.known = TRUE, !.loading = TRUE, !.error = "none"]
Read(p, owned) == [path |-> p, owned |-> owned, text |-> Unread]

\* A request is made, or none.
Requests(made) ==
    IF made THEN requests < MaxRequests /\ requests' = requests + 1 ELSE UNCHANGED requests

\* The view turns to a file: the effect that loads the one before cancels its request,
\* and that of the new one starts.  `states` are what the tabs removed meanwhile leave.
Turn(p, states) ==
    LET turned  == p # viewed
        loadsIt == turned /\ p # NoPath /\ NeedsLoad(states[p])
        kept    == IF turned THEN {l \in loads : ~l.owned} ELSE loads
        left    == {q \in stranded \cup {l.path : l \in loads \ kept} : states[q].known}
    IN  /\ viewed' = p
        /\ loads' = IF loadsIt THEN kept \cup {Read(p, TRUE)} ELSE kept
        /\ Requests(loadsIt)
        /\ fileState' = IF loadsIt THEN [states EXCEPT ![p] = Loading(@)] ELSE states
        /\ stranded' = IF loadsIt THEN left \ {p} ELSE left

-----------------------------------------------------------------------------
\* openReadFile, from the explorer, a search or the quick picker.  ensureFileTab gives a
\* file without a tab that of the preview, whose file loses its state, or a new one.
OpenReadFile(p) ==
    /\ IF HasTab(p) \/ Previews = {}
       THEN /\ fileTabs' = IF HasTab(p) THEN fileTabs ELSE Append(fileTabs, Tab(p, FALSE))
            /\ Turn(p, fileState)
            /\ UNCHANGED <<newest, exposed>>
       ELSE \E i \in Previews :
            /\ \A j \in Previews : i <= j
            /\ fileTabs' = [fileTabs EXCEPT ![i] = Tab(p, FALSE)]
            /\ Turn(p, [fileState EXCEPT ![fileTabs[i].path] = Absent])
            /\ GiveUp(fileTabs[i].path)
    /\ UNCHANGED <<saves, disk, faults, typed>>

SelectFileTab(p) ==
    /\ HasTab(p) /\ Turn(p, fileState)
    /\ UNCHANGED <<fileTabs, saves, disk, faults, typed, newest, exposed>>

\* handlePinFileTab
PinFileTab(p) ==
    /\ HasTab(p) /\ fileTabs' = PinTab(p) /\ Turn(p, fileState)
    /\ UNCHANGED <<saves, disk, faults, typed, newest, exposed>>

\* A thread, a terminal or another worktree is shown instead.
LeaveFiles ==
    /\ viewed # NoPath /\ Turn(NoPath, fileState)
    /\ UNCHANGED <<fileTabs, saves, disk, faults, typed, newest, exposed>>

\* handleCloseFileTab: the tab after the closed one comes into view, or the last one.
CloseFileTab(p) ==
    /\ HasTab(p)
    /\ LET tabs == RemoveAt(fileTabs, PlaceOf(p))
           after == IF viewed # p THEN viewed ELSE IF tabs = << >> THEN NoPath
                    ELSE IF PlaceOf(p) <= Len(tabs) THEN tabs[PlaceOf(p)].path
                    ELSE Last(tabs).path
       IN  fileTabs' = tabs /\ Turn(after, [fileState EXCEPT ![p] = Absent])
    /\ GiveUp(p)
    /\ UNCHANGED <<saves, disk, faults, typed>>

-----------------------------------------------------------------------------
\* handleEditorDraftChange: a new text pins the tab.
DraftChange(p) ==
    /\ Editable(p) /\ fileState[p].loaded
    /\ typed < MaxTexts /\ typed' = typed + 1
    /\ fileTabs' = PinTab(p)
    /\ fileState' = [fileState EXCEPT ![p].draft = typed', ![p].error = "none"]
    /\ newest' = [newest EXCEPT ![p] = typed']
    /\ exposed' = IF InFlight(p) THEN exposed \cup {p} ELSE exposed \ {p}
    /\ UNCHANGED <<viewed, loads, saves, disk, requests, faults, stranded>>

\* handleSaveActiveFile.  Bound: of two equal requests one is made.
SaveActiveFile(p) ==
    LET s == fileState[p]
        write == [path |-> p, text |-> s.draft, written |-> FALSE]
    IN  /\ viewed = p /\ s.loaded /\ ~s.loading /\ ~s.saving /\ s.error = "none"
        /\ write \notin saves /\ saves' = saves \cup {write} /\ Requests(TRUE)
        /\ fileState' = [fileState EXCEPT ![p].saving = TRUE, ![p].error = "none"]
        /\ UNCHANGED <<viewed, fileTabs, loads, disk, faults, typed, newest, exposed, stranded>>

\* handleRetryActiveFileLoad, offered where an error is shown: loadEditorFile still sees
\* the state as it was.  Bound: of two equal requests one is made.
RetryFileLoad(p) ==
    LET again == NeedsLoad(fileState[p])
    IN  /\ viewed = p /\ fileState[p].error # "none"
        /\ Read(p, FALSE) \notin loads
        /\ fileState' = [fileState EXCEPT ![p].loaded = FALSE, ![p].loading = again,
                                          ![p].error = "none"]
        /\ loads' = IF again THEN loads \cup {Read(p, FALSE)} ELSE loads
        /\ Requests(again)
        /\ stranded' = IF again THEN stranded \ {p} ELSE stranded \cup {p}
        /\ exposed' = IF fileState[p].loaded THEN exposed \cup {p} ELSE exposed
        /\ UNCHANGED <<viewed, fileTabs, saves, disk, faults, typed, newest>>

-----------------------------------------------------------------------------
\* The runtime serves the requests: GET and PUT /worktrees/:id/files/content.
ServeRead(l) ==
    /\ l.text = Unread
    /\ loads' = (loads \ {l}) \cup {[l EXCEPT !.text = disk[l.path]]}
    /\ UNCHANGED <<viewed, fileTabs, fileState, saves, disk, requests, faults, typed,
                   newest, exposed, stranded>>

ServeWrite(s) ==
    /\ ~s.written
    /\ saves' = (saves \ {s}) \cup {[s EXCEPT !.written = TRUE]}
    /\ disk' = [disk EXCEPT ![s.path] = s.text]
    /\ UNCHANGED <<viewed, fileTabs, fileState, loads, requests, faults, typed,
                   newest, exposed, stranded>>

\* The answers: the `then` and `catch` of loadEditorFile, of which the second also stands
\* for its time limit, and those of handleSaveActiveFile.
LoadAnswered(l) ==
    /\ l.text # Unread /\ loads' = loads \ {l}
    /\ fileState' = [fileState EXCEPT ![l.path] =
                        [Initial EXCEPT !.saved = l.text, !.draft = l.text, !.loaded = TRUE]]
    /\ stranded' = stranded \ {l.path}
    /\ UNCHANGED <<viewed, fileTabs, saves, disk, requests, faults, typed, newest, exposed>>

LoadFails(l) ==
    /\ faults < MaxFaults /\ faults' = faults + 1 /\ loads' = loads \ {l}
    /\ fileState' = [fileState EXCEPT ![l.path] =
                        [Current(l.path) EXCEPT !.loading = FALSE, !.loaded = FALSE,
                                                !.saving = FALSE, !.error = "load"]]
    /\ UNCHANGED <<viewed, fileTabs, saves, disk, requests, typed, newest, exposed, stranded>>

SaveAnswered(s) ==
    /\ s.written /\ saves' = saves \ {s}
    /\ fileState' = [fileState EXCEPT ![s.path] =
                        [Current(s.path) EXCEPT !.saved = s.text, !.draft = s.text,
                                        !.saving = FALSE, !.loaded = TRUE, !.error = "none"]]
    /\ UNCHANGED <<viewed, fileTabs, loads, disk, requests, faults, typed,
                   newest, exposed, stranded>>

SaveFails(s) ==
    /\ faults < MaxFaults /\ faults' = faults + 1 /\ saves' = saves \ {s}
    /\ fileState' = [fileState EXCEPT ![s.path] =
                        [Current(s.path) EXCEPT !.saving = FALSE, !.error = "save"]]
    /\ UNCHANGED <<viewed, fileTabs, loads, disk, requests, typed, newest, exposed, stranded>>

FileNext ==
    \/ \E p \in Paths : \/ OpenReadFile(p) \/ SelectFileTab(p) \/ PinFileTab(p)
                        \/ CloseFileTab(p) \/ DraftChange(p) \/ SaveActiveFile(p)
                        \/ RetryFileLoad(p)
    \/ LeaveFiles
    \/ \E l \in loads : ServeRead(l) \/ LoadAnswered(l) \/ LoadFails(l)
    \/ \E s \in saves : ServeWrite(s) \/ SaveAnswered(s) \/ SaveFails(s)

FileSpec == FileInit /\ [][FileNext]_fileVars

-----------------------------------------------------------------------------
\* The text last typed into a file is on disk or in the editor until the user agrees to
\* drop it, unless he typed it while a request for the file was in flight, whose answer
\* replaces it, or retried a save that failed.
EditsAreKept ==
    \A p \in Paths :
        newest[p] # NoText /\ p \notin exposed
            => newest[p] = disk[p] \/ (fileState[p].loaded /\ newest[p] = fileState[p].draft)

\* A file that shows a spinner has a request that will end it, and one in view that is
\* not loaded has a request or an error with its retry, unless it was stranded.
LoadingHasRequest ==
    \A p \in Paths \ stranded :
        /\ fileState[p].loading => \E l \in loads : l.path = p
        /\ viewed = p => \/ fileState[p].loaded \/ fileState[p].error # "none"
                         \/ \E l \in loads : l.path = p

\* One tab is a preview, no file has two, the file in view has one, and a file with
\* changes has one that no other file takes.
TabsAreSound ==
    /\ Cardinality(Previews) <= 1
    /\ \A i, j \in DOMAIN fileTabs : fileTabs[i].path = fileTabs[j].path => i = j
    /\ viewed # NoPath => HasTab(viewed)
    /\ \A p \in Paths : IsDirty(p) => HasTab(p) /\ fileTabs[PlaceOf(p)].pinned

\* The editor of files loses neither text nor tabs, and waits for nothing that does not
\* come (useWorkspaceFileEditor.ts).
FilesAreTended == EditsAreKept /\ LoadingHasRequest /\ TabsAreSound
=============================================================================
