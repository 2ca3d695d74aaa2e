-------------------------- MODULE DirectoryListing --------------------------
(***************************************************************************)
(* Listing a directory through one handle: the driver keeps the search     *)
(* pattern and the index of the next entry in the CCB (sys/directory.c),   *)
(* the library keeps the list of the last scan in the open info, scans     *)
(* again when it must, and fills the buffer with the entries that match    *)
(* (dokan/directory.c); the lists come from a pool (dokan/dokan_pool.c).   *)
(* Files come and go meanwhile.  A synchronous handle has one request at a *)
(* time, the requests of the other kind overlap.                           *)
(***************************************************************************)
EXTENDS Integers, Sequences, SequencesExt

CONSTANTS
  Request,     \* requests that can be in flight
  Vector,      \* the DOKAN_VECTORs of directory entries
  NoVector,
  FileName,    \* the names in the directory, in the order of a scan
  Expression,  \* a search pattern that is not "*"
  Fits,        \* the names that match it
  Length,      \* lengths of a buffer, in units
  Size,        \* the units an entry takes, by name
  Handle,      \* <<synchronous, root, operations>>: what is opened where
  MemoryFails  \* a list may fail to grow

Dots == <<".", "..">>
File == Range(FileName)
None == "none"
All == "*"
Pattern == {None, All, Expression}
SearchPatternLength == [p \in Pattern |-> IF p = None THEN 0 ELSE IF p = All THEN 1 ELSE 2]

VARIABLES
  synchronous,   \* FO_SYNCHRONOUS_IO of the handle
  root,          \* it is the root directory
  operations,    \* FindFilesWithPattern: "missing", "refuses" (returns
                 \* STATUS_NOT_IMPLEMENTED), "present"; "neither" is there
  files,         \* what is in the directory
  ccb,           \* SearchPattern, DOKAN_DIR_MATCH_ALL, Context
  openInfo,      \* DirList, DirListSearchPattern
  owner,         \* who holds each vector: "pool", "open", a request, "lost"
  items,         \* what is in it
  req,           \* the requests
  got,           \* entries returned since the enumeration began
  stable,        \* files that were there all the time since it began
  course,        \* "on", "end": all returned, "off": interrupted
  freedInUse,    \* a pattern was freed while it was to be copied
  outgrown       \* a pattern was copied for which the event has no room

vars == <<synchronous, root, operations, files, ccb, openInfo, owner, items, req,
          got, stable, course, freedInUse, outgrown>>
handle == <<synchronous, root, operations>>
history == <<got, stable, course>>
races == <<freedInUse, outgrown>>

NoRequest ==
  [pc |-> "idle", name |-> None, room |-> 0, pattern |-> None,
   restart |-> FALSE, index |-> 0, given |-> FALSE, single |-> FALSE,
   length |-> 0, list |-> NoVector, status |-> "none", entries |-> <<>>]

\* What a program can ask.  The requests that overlap are about who holds which
\* list: one length, no index (it only takes the effect of a restart away), and a
\* directory that does not change are enough for them.
Asked ==
  {[NoRequest EXCEPT !.name = name, !.given = given,
                     !.index = IF given THEN 1 ELSE 0, !.restart = restart,
                     !.single = single, !.length = length] :
     name \in Pattern, restart \in BOOLEAN,
     given \in IF synchronous THEN BOOLEAN ELSE {FALSE},
     single \in IF synchronous THEN BOOLEAN ELSE {FALSE},
     length \in IF synchronous THEN Length ELSE {Max(Length)}}

NewHandle == [SearchPattern |-> None, matchAll |-> FALSE, Context |-> 0]
NewOpenInfo == [DirList |-> NoVector, DirListSearchPattern |-> None]

Init ==
  /\ \E h \in Handle : synchronous = h[1] /\ root = h[2] /\ operations = h[3]
  /\ files \in IF synchronous THEN SUBSET File ELSE {File}
  /\ ccb = NewHandle
  /\ openInfo = NewOpenInfo
  /\ owner = [v \in Vector |-> "pool"]
  /\ items = [v \in Vector |-> <<>>]
  /\ req = [r \in Request |-> NoRequest]
  /\ got = <<>>
  /\ stable = {}
  /\ course = "off"
  /\ freedInUse = FALSE
  /\ outgrown = FALSE

Idle(r) == req[r].pc = "idle"
Quiet == \A r \in Request : Idle(r)

-----------------------------------------------------------------------------
(***************************************************************************)
(* DokanQueryDirectory.  The lock of the FCB is shared: the steps of two   *)
(* requests can mix.                                                       *)
(***************************************************************************)

\* An enumeration that is interrupted is not followed any further.
Interrupt == got' = <<>> /\ stable' = {} /\ course' = "off"

\* One begins with the first query of a handle, or a restart.
Begin(initial, q) ==
  IF q.given THEN Interrupt
  ELSE IF synchronous /\ (initial \/ q.restart)
       THEN got' = <<>> /\ stable' = files /\ course' = "on"
       ELSE UNCHANGED history

\* The first query of a handle is one that finds no pattern; a later one goes by
\* the pattern that is there, whatever it brings.
Query(r, q) ==
  LET initial == ccb.SearchPattern = None /\ ~ccb.matchAll
  IN
  /\ Idle(r)
  /\ synchronous => Quiet
  /\ req' = [req EXCEPT ![r] =
               IF initial THEN [q EXCEPT !.pc = "pattern"]
               ELSE [q EXCEPT !.pc = "size", !.name = None]]
  /\ Begin(initial, q)
  /\ UNCHANGED <<handle, files, ccb, openInfo, owner, items, races>>

\* The request ends in the driver, for want of memory.
Ends(r) ==
  /\ req' = [req EXCEPT ![r] = NoRequest]
  /\ Interrupt

\* The pattern that was given is kept in the CCB for all later queries.  One
\* that another request has put there in the meantime is freed, and there is
\* none if there is no memory for the new one.
QueryPattern(r) ==
  /\ req[r].pc = "pattern"
  /\ \/ /\ ccb' = IF req[r].name = None
                  THEN [ccb EXCEPT !.matchAll = TRUE]
                  ELSE [ccb EXCEPT !.SearchPattern = req[r].name]
        /\ req' = [req EXCEPT ![r].pc = "size", ![r].name = None]
        /\ UNCHANGED history
     \/ /\ req[r].name # None
        /\ ccb' = [ccb EXCEPT !.SearchPattern = None]
        /\ Ends(r)
  /\ freedInUse' =
       \/ freedInUse
       \/ /\ req[r].name # None
          /\ ccb.SearchPattern # None
          /\ \E o \in Request \ {r} : req[o].pc = "copy"
  /\ UNCHANGED <<handle, files, openInfo, owner, items, outgrown>>

\* An event with room for the pattern, and the index.
QuerySize(r) ==
  /\ req[r].pc = "size"
  /\ \/ /\ req' = [req EXCEPT ![r] =
                    [@ EXCEPT !.pc = "copy",
                              !.room = SearchPatternLength[ccb.SearchPattern],
                              !.index = IF req[r].given THEN @
                                        ELSE IF req[r].restart THEN 0
                                        ELSE ccb.Context]]
        /\ UNCHANGED history
     \/ Ends(r)
  /\ UNCHANGED <<handle, files, ccb, openInfo, owner, items, races>>

\* The pattern is copied after the unlock: the one that is there by then.  What
\* a copy past the end of the event overwrites is not followed.
QuerySend(r) ==
  LET pattern == ccb.SearchPattern
  IN
  /\ req[r].pc = "copy"
  /\ req' = [req EXCEPT ![r] =
               [@ EXCEPT !.pc = "sent", !.pattern = pattern, !.room = 0]]
  /\ outgrown' = (outgrown \/ SearchPatternLength[pattern] > req[r].room)
  /\ UNCHANGED <<handle, files, ccb, openInfo, owner, items, history, freedInUse>>

-----------------------------------------------------------------------------
(***************************************************************************)
(* The pool of lists and the vectors.                                      *)
(***************************************************************************)

PopDirectoryList(r, v) ==
  /\ owner[v] = "pool"
  /\ owner' = [owner EXCEPT ![v] = r]
  /\ UNCHANGED items

\* What is left in a list in the pool is cleared when it is taken.
PushDirectoryList(v) ==
  /\ owner' = [owner EXCEPT ![v] = "pool"]
  /\ items' = [items EXCEPT ![v] = <<>>]

-----------------------------------------------------------------------------
(***************************************************************************)
(* Filling the buffer.                                                     *)
(***************************************************************************)

\* What a pattern matches; how its characters are compared is left out.
DokanIsNameInExpression(pattern, n) == pattern = All \/ n \in Fits

\* The names in the directory that match.
Matching(pattern) ==
  {n \in File \cup Range(Dots) : DokanIsNameInExpression(pattern, n)}

\* The library compares with the pattern unless the file system has done so.
Matched(pattern, list) ==
  IF pattern \in {None, All} \/ operations = "present"
  THEN list
  ELSE SelectSeq(list, LAMBDA n : n \in Matching(pattern))

\* DokanFillDirectoryInformation: the entries from s that fit, one after the
\* other.
DokanFillDirectoryInformation(s, length) ==
  LET used[k \in 0..Len(s)] == IF k = 0 THEN 0 ELSE used[k - 1] + Size[s[k]]
      n == CHOOSE k \in 0..Len(s) :
             /\ used[k] =< length
             /\ k < Len(s) => used[k + 1] > length
  IN SubSeq(s, 1, n)

\* MatchFiles: the entries that match, from the index on, as many as fit, or a
\* single one; -1 without any left, -2 when the first does not fit.
MatchFiles(q, list) ==
  LET found == Matched(q.pattern, list)
      rest == SubSeq(found, q.index + 1, Len(found))
      fit == DokanFillDirectoryInformation(rest, q.length)
      entries == IF q.single THEN SubSeq(fit, 1, IF fit = <<>> THEN 0 ELSE 1)
                 ELSE fit
  IN
  CASE rest = <<>> -> [index |-> -1, entries |-> <<>>]
    [] entries = <<>> -> [index |-> -2, entries |-> <<>>]
    [] OTHER -> [index |-> q.index + Len(entries), entries |-> entries]

\* Altered form: a buffer too small for the first entry is a success.
WriteResultsEmpty(q, list) ==
  LET m == MatchFiles(q, list)
  IN [q EXCEPT !.pc = "answered", !.list = NoVector,
               !.status = IF m.index = -1 THEN "no_more_files" ELSE "success",
               !.index = IF m.index < 0 THEN q.index ELSE m.index,
               !.entries = m.entries]

\* WriteDirectoryResults: the index stays when nothing is returned.
WriteDirectoryResults(q, list) ==
  LET m == MatchFiles(q, list)
  IN [q EXCEPT !.pc = "answered", !.list = NoVector,
               !.status = CASE m.index = -1 /\ q.index = 0 -> "no_such_file"
                            [] m.index = -1 -> "no_more_files"
                            [] m.index = -2 -> "buffer_overflow"
                            [] OTHER -> "success",
               !.index = IF m.index < 0 THEN q.index ELSE m.index,
               !.entries = m.entries]

-----------------------------------------------------------------------------
(***************************************************************************)
(* DispatchDirectoryInformation.                                           *)
(***************************************************************************)

\* Altered form: a restart is answered from the list that is there.
ForceScanOnce(q) == openInfo.DirList = NoVector

\* No list yet, a list made for another pattern, or a restart; an index that is
\* given overrides the restart.
ForceScan(q) ==
  LET last == openInfo.DirListSearchPattern
  IN
  \/ openInfo.DirList = NoVector
  \/ q.pattern # None /\ last # None /\ q.pattern # last
  \/ q.pattern # None /\ last = None /\ q.pattern # All
  \/ q.pattern = None /\ last # None /\ last # All
  \/ ~q.given /\ q.restart

Failed(q, status) == [q EXCEPT !.pc = "answered", !.status = status,
                               !.list = NoVector]

\* A class of information that is not listed: the answer has an index of zero,
\* which the driver keeps.
DispatchUnsupported(r) ==
  /\ req[r].pc = "sent"
  /\ req' = [req EXCEPT ![r] = [Failed(@, "invalid_parameter") EXCEPT !.index = 0]]
  /\ UNCHANGED <<handle, files, ccb, openInfo, owner, items, history, races>>

\* Under the lock of the open info: answered from its list, or a list is taken
\* for a scan, if there is memory.  A request of an open handle always carries
\* the open info of the handle (EventCompletion resets the context only after
\* the close), so that the branch for one without it is never taken.
DispatchDirectoryInformation(r) ==
  /\ req[r].pc = "sent"
  /\ IF ~ForceScan(req[r])
     THEN /\ req' = [req EXCEPT ![r] =
                       WriteDirectoryResults(@, items[openInfo.DirList])]
          /\ UNCHANGED <<owner, items>>
     ELSE \/ \E v \in Vector :
               /\ PopDirectoryList(r, v)
               /\ req' = [req EXCEPT ![r].pc = "scan", ![r].list = v]
          \/ /\ req' = [req EXCEPT ![r] = Failed(@, "no_memory")]
             /\ UNCHANGED <<owner, items>>
  /\ UNCHANGED <<handle, files, ccb, openInfo, history, races>>

-----------------------------------------------------------------------------
(***************************************************************************)
(* The scan: the callbacks of the file system fill the list.               *)
(***************************************************************************)

\* The lists that can come of what the file system passes; an entry is lost
\* without a word when the list cannot grow.
DokanFillFileData(found) ==
  IF MemoryFails
  THEN {SelectSeq(found, LAMBDA n : n \in kept) : kept \in SUBSET Range(found)}
  ELSE {found}

\* FindFilesWithPattern, or FindFiles.  A file system may list "."
\* itself.  A list is not given back when neither callback is implemented.
FindFiles(r) ==
  LET v == req[r].list
      wanted == IF operations = "present" /\ req[r].pattern # None
                THEN Matching(req[r].pattern) ELSE File \cup Range(Dots)
  IN
  /\ req[r].pc = "scan"
  /\ \/ /\ operations # "neither"
        /\ \E own \in IF synchronous THEN {{}, {Dots[1]}} ELSE {{}} :
             \E list \in DokanFillFileData(
                           SelectSeq(Dots \o FileName, LAMBDA n :
                             n \in (own \cup files) \cap wanted)) :
               items' = [items EXCEPT ![v] = list]
        /\ req' = [req EXCEPT ![r].pc = "filled", ![r].status = "success"]
        /\ UNCHANGED owner
     \/ /\ operations # "neither"
        /\ req' = [req EXCEPT ![r].pc = "filled", ![r].status = "error"]
        /\ UNCHANGED <<owner, items>>
     \/ /\ operations = "neither"
        /\ req' = [req EXCEPT ![r] = Failed(@, "not_implemented")]
        /\ owner' = [owner EXCEPT ![v] = "lost"]
        /\ UNCHANGED items
  /\ UNCHANGED <<handle, files, ccb, openInfo, history, races>>

\* AddMissingCurrentAndParentFolder: "." and ".." lead the list of everything
\* in a directory that is not the root.
AddMissingCurrentAndParentFolder(q, list) ==
  IF root \/ q.pattern \notin {None, All} THEN list
  ELSE SelectSeq(Dots, LAMBDA n : n \notin Range(list)) \o list

\* Altered form: the list that goes to the pool is the new one.
EndFindFilesPushesNew(r) ==
  LET v == req[r].list
      old == openInfo.DirList
      list == AddMissingCurrentAndParentFolder(req[r], items[v])
  IN
  /\ req[r].pc = "filled"
  /\ req[r].status = "success"
  /\ req' = [req EXCEPT ![r] = WriteDirectoryResults(@, list)]
  /\ openInfo' = [DirList |-> v, DirListSearchPattern |-> req[r].pattern]
  /\ owner' = [w \in Vector |->
                 IF w = v THEN IF old = NoVector THEN "open" ELSE "pool"
                 ELSE owner[w]]
  /\ items' = [items EXCEPT ![v] = list]
  /\ UNCHANGED <<handle, files, ccb, history, races>>

\* EndFindFilesCommon: the answer is made from the new list, which takes the
\* place of the one in the open info.
EndFindFilesCommon(r) ==
  LET v == req[r].list
      old == openInfo.DirList
      list == AddMissingCurrentAndParentFolder(req[r], items[v])
  IN
  /\ req[r].pc = "filled"
  /\ req[r].status = "success"
  /\ req' = [req EXCEPT ![r] = WriteDirectoryResults(@, list)]
  /\ openInfo' = [DirList |-> v, DirListSearchPattern |-> req[r].pattern]
  /\ owner' = [w \in Vector |-> IF w = v THEN "open"
                                ELSE IF w = old THEN "pool" ELSE owner[w]]
  /\ items' = [w \in Vector |-> IF w = v THEN list
                                ELSE IF w = old THEN <<>> ELSE items[w]]
  /\ UNCHANGED <<handle, files, ccb, history, races>>

\* The callback failed: its list goes back, the one of the open info stays.
EndFindFilesFailed(r) ==
  /\ req[r].pc = "filled"
  /\ req[r].status # "success"
  /\ PushDirectoryList(req[r].list)
  /\ req' = [req EXCEPT ![r] = Failed(@, req[r].status)]
  /\ UNCHANGED <<handle, files, ccb, openInfo, history, races>>

-----------------------------------------------------------------------------
(***************************************************************************)
(* The answer, the end of the handle, and the directory itself.            *)
(***************************************************************************)

\* What the answer does to the enumeration.
Follow(taken, q) ==
  IF course = "off" THEN UNCHANGED history
  ELSE IF taken /\ q.status \in {"success", "buffer_overflow"}
  THEN got' = got \o q.entries /\ UNCHANGED <<stable, course>>
  ELSE IF taken /\ q.status \in {"no_such_file", "no_more_files"}
  THEN course' = "end" /\ UNCHANGED <<got, stable>>
  ELSE Interrupt

\* DokanCompleteDirectoryControl: the entries are returned and the index is
\* kept for the next query, without a lock, unless there is no buffer.
DokanCompleteDirectoryControl(r) ==
  LET q == req[r]
      taken == q.length > 0
  IN
  /\ q.pc = "answered"
  /\ ccb' = IF taken THEN [ccb EXCEPT !.Context = q.index] ELSE ccb
  /\ Follow(taken, q)
  /\ req' = [req EXCEPT ![r] = NoRequest]
  /\ UNCHANGED <<handle, files, openInfo, owner, items, races>>

\* The handle is closed; CleanupFileOpenInfo gives the list back.  The next
\* handle has a new CCB and a new open info.
CleanupFileOpenInfo ==
  /\ Quiet
  /\ ccb # NewHandle \/ openInfo # NewOpenInfo
  /\ IF openInfo.DirList = NoVector
     THEN UNCHANGED <<owner, items>>
     ELSE PushDirectoryList(openInfo.DirList)
  /\ ccb' = NewHandle
  /\ openInfo' = NewOpenInfo
  /\ Interrupt
  /\ UNCHANGED <<handle, files, req, races>>

FileAppears(n) ==
  /\ synchronous
  /\ n \notin files
  /\ files' = files \cup {n}
  /\ UNCHANGED <<handle, ccb, openInfo, owner, items, req, history, races>>

FileDisappears(n) ==
  /\ synchronous
  /\ n \in files
  /\ files' = files \ {n}
  /\ stable' = stable \ {n}
  /\ UNCHANGED <<handle, ccb, openInfo, owner, items, req, got, course, races>>

Next ==
  \/ \E r \in Request :
       \/ \E q \in Asked : Query(r, q)
       \/ QueryPattern(r)
       \/ QuerySize(r)
       \/ QuerySend(r)
       \/ DispatchUnsupported(r)
       \/ DispatchDirectoryInformation(r)
       \/ FindFiles(r)
       \/ EndFindFilesCommon(r)
       \/ EndFindFilesFailed(r)
       \/ DokanCompleteDirectoryControl(r)
  \/ CleanupFileOpenInfo
  \/ \E n \in File : FileAppears(n) \/ FileDisappears(n)

Spec == Init /\ [][Next]_vars

-----------------------------------------------------------------------------
(***************************************************************************)
(* Properties.                                                             *)
(***************************************************************************)

\* What the program asked for.
Listed(n) ==
  ccb.SearchPattern # None => DokanIsNameInExpression(ccb.SearchPattern, n)

\* A program that reads a directory to its end through a synchronous handle,
\* in buffers of any length and with single entries or not, is given every file
\* that was there all the time exactly once, and "." and ".." once if it asked
\* for everything in a directory below the root: MatchFiles, the index in the CCB
\* (DokanCompleteDirectoryControl) and the list kept in the open info agree.
EnumerationComplete ==
  synchronous /\ course = "end" =>
    /\ IsInjective(got)
    /\ \A n \in stable : Listed(n) => n \in Range(got)
    /\ \A n \in Range(got) \ Range(Dots) : Listed(n)
    /\ ~root /\ ccb.SearchPattern \in {None, All} =>
         Range(Dots) \subseteq Range(got)

\* A request that succeeds returns an entry, so that a program which asks until
\* it is told STATUS_NO_MORE_FILES comes to an end; and one entry if it asked
\* for a single one (MatchFiles, DokanCompleteDirectoryControl).
SuccessReturnsEntry ==
  \A r \in Request :
    req[r].pc = "answered" /\ req[r].status = "success" =>
      /\ req[r].entries # <<>>
      /\ req[r].single => Len(req[r].entries) = 1

\* The list of the open info is never in the pool or with a request, and a
\* request that scans has a list of its own, whatever requests overlap
\* (EndFindFilesCommon exchanges the lists under the lock, PushDirectoryList
\* and PopDirectoryList hand them on).
ListsApart ==
  /\ openInfo.DirList # NoVector => owner[openInfo.DirList] = "open"
  /\ \A r \in Request : req[r].list # NoVector => owner[req[r].list] = r
  /\ \A v \in Vector : owner[v] = "open" => openInfo.DirList = v

\* DokanQueryDirectory: a search pattern is not freed while another request is
\* about to copy it.
PatternNotFreedInUse == ~freedInUse

\* DokanQueryDirectory: the event has room for the search pattern that is
\* copied into it.
PatternFitsEvent == ~outgrown

\* Every list goes back to the pool when the handle is closed.
ListsReturned ==
  Quiet /\ ccb = NewHandle /\ openInfo = NewOpenInfo => \A v \in Vector : owner[v] = "pool"
=============================================================================
