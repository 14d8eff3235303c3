--------------------------- MODULE FileCheckpoint ---------------------------
(***************************************************************************)
(* File checkpoints of the coding agent: FileCheckpoint                    *)
(* (core/file-checkpoint.ts) as AgentSession drives it from agent events   *)
(* (core/agent-session.ts), beside the write and edit tools of             *)
(* FileMutation.                                                           *)
(*                                                                         *)
(* A turn is a reply with a batch of calls.  The snapshot of a call starts *)
(* with its tool_execution_start and is not awaited: its copies ("turn",   *)
(* then "original") race the tool.  At turn_end the files the turn touched *)
(* are copied one by one, awaited.  Turns are numbered by the replies on   *)
(* the branch; a session point is the number of replies up to it.          *)
(*                                                                         *)
(* Any of it may fail.  Nobody catches a snapshot that fails               *)
(* (agent-session.ts:943), so it ends the process as a crash does.         *)
(*                                                                         *)
(* The copies under turns/ are never read, so their content is left out.   *)
(***************************************************************************)
EXTENDS FileMutation

CONSTANTS
    MaxReplies,         \* bound: replies
    MaxFaults,          \* bound: aborted runs, crashes, and captures and restores
                        \* that fail
    MaxNavigations,     \* bound: moves to an earlier session point
    MaxEvents           \* bound: calls and faults together; no reply follows

ASSUME CheckpointAssumption ==
    /\ MaxReplies \in Nat \ {0}
    /\ MaxFaults \in Nat
    /\ MaxNavigations \in Nat
    /\ MaxEvents \in Nat

VARIABLES
    phase,              \* "idle", "turn", "capture", "failed" (the capture for the
                        \* reply of a failed one), or "between" two turns
    depth,              \* replies on the branch of the session
    turnIndex,          \* _turnIndex
    batch,              \* the calls of the turn, but those refused
    aborted,            \* the run was aborted
    \* FileCheckpoint, in memory
    snapshotted,        \* _snapshotted
    created,            \* _created
    turnChanges,        \* _turnChanges, for each turn the files it changes
    turnSnapshots,      \* _turnSnapshotFiles
    turnEndFiles,       \* _turnEndSnapshotFiles
    copying,            \* for each call, the copy its snapshot is at, and its turn
    toCapture,          \* files captureTurnEnd has still to look at
    \* FileCheckpoint, on disk
    originals,          \* files/
    turnEnds,           \* turn-ends/
    savedCreated,       \* created.json
    savedChanges,       \* turn-changes.json
    \* history
    codeAt,             \* the files at each session point of the branch
    restoredTo,         \* the point the files were just restored to
    errors,             \* the files this restore reported an error for
    late,               \* files opened before the last copy of their original, or
                        \* whose copy a crash has cut
    cut,                \* files of a turn that a crash cut short, or before its record
    lost,               \* files on a list that a crash has cut
    reused,             \* numbers of turns left behind by a navigation
    replies, faults, navigations

turnVars == <<phase, depth, turnIndex, batch, aborted>>
trackVars == <<snapshotted, created, turnChanges, turnSnapshots, turnEndFiles>>
savedVars == <<originals, turnEnds, savedCreated, savedChanges>>
countVars == <<replies, faults, navigations>>
lossVars == <<late, cut, lost>>
restoreVars == <<restoredTo, errors>>
pastVars == <<codeAt, lossVars, reused, countVars>>
vars == <<toolVars, turnVars, trackVars, copying, toCapture, savedVars,
          pastVars, restoreVars>>

-----------------------------------------------------------------------------

Turns == 0..(MaxReplies - 1)
Points == 0..MaxReplies
NotRestored == -1
None == {}              \* no copy in files/ or turn-ends/

InBound == faults + Len(calls) < MaxEvents

Tracked == snapshotted \union created \union UNION {turnChanges[k] : k \in Turns}

CheckpointInit ==
    /\ ToolInit
    /\ phase = "idle"
    /\ depth = 0
    /\ turnIndex = 0
    /\ batch = {}
    /\ aborted = FALSE
    /\ snapshotted = {}
    /\ created = {}
    /\ turnChanges = [k \in Turns |-> {}]
    /\ turnSnapshots = [k \in Turns |-> {}]
    /\ turnEndFiles = [k \in Turns |-> {}]
    /\ copying = <<>>
    /\ toCapture = {}
    /\ originals = [f \in Files |-> None]
    /\ turnEnds = [k \in Turns |-> [f \in Files |-> None]]
    /\ savedCreated = {}
    /\ savedChanges = [k \in Turns |-> {}]
    /\ codeAt = [p \in Points |-> disk]
    /\ restoredTo = NotRestored
    /\ errors = {}
    /\ late = {}
    /\ cut = {}
    /\ lost = {}
    /\ reused = {}
    /\ replies = 0
    /\ faults = 0
    /\ navigations = 0

-----------------------------------------------------------------------------
\* Turns

\* agent_start counts the replies on the branch.  A run that starts with the
\* code of another point than the branch has is left out.
StartRun ==
    /\ phase = "idle"
    /\ replies < MaxReplies
    /\ restoredTo = NotRestored \/ (restoredTo = depth /\ errors = {})
    /\ phase' = "between"
    /\ turnIndex' = depth
    /\ restoredTo' = NotRestored
    /\ UNCHANGED <<errors, toolVars, depth, batch, aborted, trackVars, copying, toCapture, savedVars,
                   pastVars>>

\* A reply is persisted before its tools run.
Reply ==
    /\ phase = "between"
    /\ InBound /\ replies < MaxReplies
    /\ phase' = "turn"
    /\ depth' = depth + 1
    /\ batch' = {}
    /\ replies' = replies + 1
    /\ codeAt' = [codeAt EXCEPT ![depth'] = disk]
    /\ UNCHANGED <<toolVars, turnIndex, aborted, trackVars, copying, toCapture, savedVars,
                   lossVars, reused, faults, navigations, restoreVars>>

Copied == [at |-> "done", turn |-> 0]
AfterTurnCopy(f) ==
    IF f \in snapshotted \union created THEN Copied ELSE [at |-> "original", turn |-> 0]

\* The part of snapshotBeforeWrite after the record of the turn: a new file
\* is listed at once, the original of an old one has still to be copied.
TrackFirst(f, existed) ==
    IF existed \/ f \in snapshotted \union created
    THEN /\ copying' = Append(copying, AfterTurnCopy(f))
         /\ UNCHANGED <<created, savedCreated>>
    ELSE /\ copying' = Append(copying, Copied)
         /\ created' = created \union {f}
         /\ savedCreated' = created'

\* All calls of a batch start before the first one runs, or each one after the
\* one before.
MayStart ==
    /\ phase = "turn"
    /\ ~aborted
    /\ InBound /\ Len(calls) < MaxCalls
    /\ \/ \A b \in batch : calls[b].at = "started"
       \/ \A b \in batch : calls[b].at = "over"

ChangesWith(f) == [turnChanges EXCEPT ![turnIndex] = @ \union {f}]

\* tool_execution_start, and snapshotBeforeWrite up to its first copy.
StartCall(f, k) ==
    LET existed == disk[f] # Missing
    IN /\ MayStart
       /\ calls' = Append(calls, Call(f, k))
       /\ batch' = batch \union {Len(calls')}
       /\ turnChanges' = ChangesWith(f)
       /\ IF existed /\ f \notin turnSnapshots[turnIndex]
          THEN /\ copying' = Append(copying, [at |-> "turn", turn |-> turnIndex])
               /\ UNCHANGED <<created, savedCreated, savedChanges>>
          ELSE /\ savedChanges' = turnChanges'
               /\ TrackFirst(f, existed)
       /\ UNCHANGED <<tail, fileVars, phase, depth, turnIndex, aborted, snapshotted,
                      turnSnapshots, turnEndFiles, toCapture, originals, turnEnds,
                      pastVars, restoreVars>>

\* The copy under turns/ is done: the changes are saved, and the original is
\* next unless the file is known.
CopyTurnFile(c) ==
    LET f == calls[c].file
    IN /\ copying[c].at = "turn"
       /\ turnSnapshots' = [turnSnapshots EXCEPT ![copying[c].turn] = @ \union {f}]
       /\ savedChanges' = turnChanges
       /\ copying' = [copying EXCEPT ![c] = AfterTurnCopy(f)]
       /\ UNCHANGED <<toolVars, turnVars, snapshotted, created, turnChanges, turnEndFiles,
                      toCapture, originals, turnEnds, savedCreated, pastVars, restoreVars>>

\* The copy under files/ has what the file holds by now.
CopyOriginal(c) ==
    LET f == calls[c].file
    IN /\ copying[c].at = "original"
       /\ disk[f] # Missing
       /\ originals' = [originals EXCEPT ![f] = disk[f]]
       /\ snapshotted' = snapshotted \union {f}
       /\ copying' = [copying EXCEPT ![c] = Copied]
       /\ late' = late \union ({f} \intersect touched)
       /\ UNCHANGED <<toolVars, turnVars, created, turnChanges, turnSnapshots, turnEndFiles,
                      toCapture, turnEnds, savedCreated, savedChanges, codeAt, cut,
                      lost, reused, countVars, restoreVars>>

\* The calls that were prepared run in their order; one that is refused, while
\* it is prepared, ends without running.
RunCall(c) ==
    /\ c \in batch
    /\ \A b \in batch : b < c => calls[b].at # "started"
    /\ Join(c)
    /\ UNCHANGED <<turnVars, trackVars, copying, toCapture, savedVars, pastVars, restoreVars>>

RefuseCall(c) ==
    /\ c \in batch /\ c = Len(calls)
    /\ calls[c].at = "started"
    /\ calls' = [calls EXCEPT ![c] = Over(@)]
    /\ batch' = batch \ {c}
    /\ UNCHANGED <<tail, fileVars, phase, depth, turnIndex, aborted, trackVars, copying,
                   toCapture, savedVars, pastVars, restoreVars>>

\* Files this step opens that have no original and are not listed.
OpenedBefore == (touched' \ touched) \ (snapshotted \union created)

ToolStep(c) ==
    /\ Enter(c) \/ FileStep(c)
    /\ late' = late \union OpenedBefore
    /\ UNCHANGED <<turnVars, trackVars, copying, toCapture, savedVars, codeAt, cut, lost,
                   reused, countVars, restoreVars>>

Abort ==
    /\ phase \in {"turn", "between"}
    /\ ~aborted
    /\ InBound /\ faults < MaxFaults
    /\ aborted' = TRUE
    /\ faults' = faults + 1
    /\ AbortCalls(batch)
    /\ UNCHANGED <<phase, depth, turnIndex, batch, trackVars, copying, toCapture, savedVars,
                   codeAt, lossVars, reused, replies, navigations, restoreVars>>

\* turn_end: captureTurnEnd, the files one after the other.
EndTurn ==
    /\ phase = "turn"
    /\ \A c \in batch : calls[c].released /\ calls[c].at \in {"open", "write", "over"}
    /\ phase' = "capture"
    /\ toCapture' = turnChanges[turnIndex]
    /\ UNCHANGED <<toolVars, depth, turnIndex, batch, aborted, trackVars, copying, savedVars,
                   pastVars, restoreVars>>

Capturing == phase \in {"capture", "failed"}

\* A file that has a copy for this turn keeps it.
ToCopy(f) == f \notin turnEndFiles[turnIndex] /\ disk[f] # Missing

Capture(f) ==
    /\ Capturing
    /\ f \in toCapture
    /\ toCapture' = toCapture \ {f}
    /\ IF ToCopy(f)
       THEN /\ turnEnds' = [turnEnds EXCEPT ![turnIndex][f] = disk[f]]
            /\ turnEndFiles' = [turnEndFiles EXCEPT ![turnIndex] = @ \union {f}]
       ELSE UNCHANGED <<turnEnds, turnEndFiles>>
    /\ UNCHANGED <<toolVars, turnVars, snapshotted, created, turnChanges, turnSnapshots,
                   copying, originals, savedCreated, savedChanges, pastVars, restoreVars>>

\* The files are at the code of the points from the reply of the turn on.
TurnIsOver ==
    codeAt' = [p \in Points |-> IF turnIndex < p /\ p <= depth THEN disk ELSE codeAt[p]]

\* The run goes on, or ends after the reply of a failed one.
Captured ==
    /\ Capturing
    /\ toCapture = {}
    /\ phase' = IF phase = "capture" THEN "between" ELSE "idle"
    /\ aborted' = (aborted /\ phase = "capture")
    /\ turnIndex' = turnIndex + 1
    /\ batch' = {}
    /\ TurnIsOver
    /\ UNCHANGED <<toolVars, depth, trackVars, copying, toCapture, savedVars,
                   lossVars, reused, countVars, restoreVars>>

\* A copy fails, which removes what there is of it.
CaptureFails(f) ==
    /\ f \in toCapture /\ ToCopy(f)
    /\ \E left \in {None, turnEnds[turnIndex][f]} :
           turnEnds' = [turnEnds EXCEPT ![turnIndex][f] = left]
    /\ UNCHANGED <<toolVars, turnIndex, trackVars, copying, originals, savedCreated,
                   savedChanges, lossVars, reused, navigations, restoreVars>>

\* The listener throws and the run fails: its reply is persisted, and the
\* turn_end of this reply captures the turn again.
RunFails(f) ==
    /\ phase = "capture"
    /\ InBound /\ faults < MaxFaults /\ replies < MaxReplies
    /\ CaptureFails(f)
    /\ phase' = "failed"
    /\ depth' = depth + 1
    /\ toCapture' = turnChanges[turnIndex]
    /\ replies' = replies + 1
    /\ faults' = faults + 1
    /\ codeAt' = [codeAt EXCEPT ![depth'] = disk]
    /\ UNCHANGED <<batch, aborted>>

\* When that fails as well the run just ends.
RunFailsAgain(f) ==
    /\ phase = "failed"
    /\ CaptureFails(f)
    /\ phase' = "idle"
    /\ aborted' = FALSE
    /\ batch' = {}
    /\ toCapture' = {}
    /\ TurnIsOver
    /\ UNCHANGED <<depth, replies, faults>>

EndRun ==
    /\ phase = "between"
    /\ phase' = "idle"
    /\ aborted' = FALSE
    /\ UNCHANGED <<toolVars, depth, turnIndex, batch, trackVars, copying, toCapture,
                   savedVars, pastVars, restoreVars>>

-----------------------------------------------------------------------------
\* Restoring, navigating and restarting

\* Mutant of LatestChange: the turn that starts at the point counts.
LatestChangeThrough(f, point) ==
    LET before == {k \in Turns : k <= point /\ f \in turnChanges[k]}
    IN IF before = {} THEN -1 ELSE CHOOSE k \in before : \A j \in before : j <= k

LatestChange(f, point) ==
    LET before == {k \in Turns : k < point /\ f \in turnChanges[k]}
    IN IF before = {} THEN -1 ELSE CHOOSE k \in before : \A j \in before : j <= k

\* What restoreToTurn leaves in a file: the copy of the end of the latest turn
\* before the point that changed it, or what was there before any turn did.
RestoredContent(f, point) ==
    LET latest == LatestChange(f, point)
    IN IF latest # -1
       THEN IF turnEnds[latest][f] # None THEN turnEnds[latest][f] ELSE disk[f]
       ELSE IF f \in created THEN Missing
            ELSE IF f \in snapshotted THEN originals[f] ELSE disk[f]

Restorable(f, point) == LatestChange(f, point) # -1 \/ f \in created \union snapshotted

\* A point of the branch (the tree also offers those of other branches).  A
\* file that cannot be restored is left as it is, or torn, and reported.
Restore(point) ==
    /\ phase = "idle"
    /\ point <= depth
    /\ Tracked # {}
    /\ errors' \in SUBSET {f \in Tracked : Restorable(f, point)}
    /\ IF errors' = {}
       THEN UNCHANGED faults
       ELSE InBound /\ faults < MaxFaults /\ faults' = faults + 1
    /\ \E torn \in SUBSET {f \in errors' : RestoredContent(f, point) # Missing} :
           disk' = [f \in Files |-> IF f \in torn THEN Torn
                                   ELSE IF f \in Tracked \ errors' THEN RestoredContent(f, point)
                                   ELSE disk[f]]
    /\ expected' = disk'
    /\ touched' = touched \union {f \in Files : disk'[f] # disk[f]}
    /\ late' = late \union OpenedBefore
    /\ restoredTo' = point
    /\ UNCHANGED <<queueVars, stray, turnVars, trackVars, copying, toCapture, savedVars,
                   codeAt, cut, lost, reused, replies, navigations>>

\* /tree with "Restore code + navigate": the branch goes on at the earlier
\* point the code was restored to.
Navigate(point) ==
    /\ phase = "idle"
    /\ navigations < MaxNavigations
    /\ point < depth
    /\ restoredTo = point
    /\ depth' = point
    /\ navigations' = navigations + 1
    /\ reused' = reused \union point..(depth - 1)
    /\ UNCHANGED <<toolVars, phase, turnIndex, batch, aborted, trackVars, copying, toCapture,
                   savedVars, codeAt, lossVars, replies, faults, restoreVars>>

\* Calls whose change of the turn is not on disk yet.
Unsaved == {c \in Calls : copying[c].at = "turn"}

\* The files with a copy that a crash may cut.
CopyingOriginal == {calls[c].file : c \in {d \in Calls : copying[d].at = "original"}}
CopyingEnd == {f \in toCapture : ToCopy(f)}

\* What a crash leaves of them: what was there, nothing, or a part.
OriginalsCut ==
    \E gone, part \in SUBSET CopyingOriginal :
        originals' = [f \in Files |-> IF f \in part THEN Torn
                                     ELSE IF f \in gone THEN None ELSE originals[f]]

TurnEndsCut ==
    \/ turnEnds' = turnEnds
    \/ \E f \in CopyingEnd, left \in {None, Torn} :
           turnEnds' = [turnEnds EXCEPT ![turnIndex][f] = left]

NoChanges == [k \in Turns |-> {}]

\* What a crash leaves of the lists, which are written in place.  A list that
\* is cut is ignored when it is read.
ListsKept == UNCHANGED <<savedCreated, savedChanges, lost>>

ChangesCut ==
    /\ MayStart \/ Unsaved # {}
    /\ savedChanges' = NoChanges
    /\ lost' = lost \union UNION {turnChanges[k] : k \in Turns}
    /\ UNCHANGED savedCreated

CreatedCut(f) ==
    /\ MayStart
    /\ disk[f] = Missing /\ f \notin snapshotted \union created
    /\ savedChanges' = ChangesWith(f)
    /\ savedCreated' = {}
    /\ lost' = lost \union created \union {f}

\* The process dies and the session is opened again (tryLoadFromDisk).
Crash ==
    /\ InBound /\ faults < MaxFaults
    /\ faults' = faults + 1
    /\ calls' = [c \in Calls |-> Over(calls[c])]
    /\ tail' = [k \in Keys |-> 0]
    /\ copying' = [c \in Calls |-> Copied]
    /\ phase' = "idle"
    /\ aborted' = FALSE
    /\ batch' = {}
    /\ toCapture' = {}
    /\ ListsKept \/ ChangesCut \/ \E f \in Files : CreatedCut(f)
    /\ OriginalsCut
    /\ TurnEndsCut
    /\ snapshotted' = {f \in Files : originals'[f] # None}
    /\ created' = savedCreated'
    /\ turnChanges' = savedChanges'
    /\ turnSnapshots' = savedChanges'
    /\ turnEndFiles' = NoChanges
    /\ late' = late \union {f \in Files : originals'[f] # originals[f]}
    /\ cut' = cut \union {calls[c].file : c \in Unsaved}
              \union (IF phase = "turn" \/ Capturing THEN turnChanges[turnIndex] ELSE {})
    /\ stray' = stray \union {calls[c].file : c \in {d \in Calls : calls[d].at = "write"}}
    /\ UNCHANGED <<disk, touched, expected, depth, turnIndex, codeAt, reused, replies,
                   navigations, restoreVars>>

-----------------------------------------------------------------------------

CallStep(c) == RunCall(c) \/ RefuseCall(c) \/ ToolStep(c)
CopyStep(c) == CopyTurnFile(c) \/ CopyOriginal(c)

Next ==
    \/ StartRun \/ Reply \/ EndTurn \/ Captured \/ EndRun \/ Abort \/ Crash
    \/ \E f \in Files : Capture(f) \/ RunFails(f) \/ RunFailsAgain(f)
    \/ \E f \in Files, k \in Kinds : StartCall(f, k)
    \/ \E c \in Calls : CallStep(c) \/ CopyStep(c)
    \/ \E p \in Points : Restore(p) \/ Navigate(p)

Spec == CheckpointInit /\ [][Next]_vars

\* File operations end and the continuations of the loop run.
FairSpec == Spec /\ \A c \in 1..MaxCalls : WF_vars(c \in Calls /\ CallStep(c))

-----------------------------------------------------------------------------

\* Every variable has its type, and no turn is numbered beyond the branch.
TypeOK ==
    /\ FileTypeOK
    /\ phase \in {"idle", "turn", "capture", "failed", "between"}
    /\ depth \in Points
    /\ turnIndex \in Points
    /\ batch \subseteq Calls
    /\ aborted \in BOOLEAN
    /\ snapshotted \subseteq Files /\ created \subseteq Files
    /\ {turnChanges, turnSnapshots, turnEndFiles, savedChanges} \subseteq [Turns -> SUBSET Files]
    /\ copying \in Seq([at : {"turn", "original", "done"}, turn : Turns])
    /\ Len(copying) = Len(calls)
    /\ toCapture \subseteq Files
    /\ originals \in [Files -> Contents]
    /\ turnEnds \in [Turns -> [Files -> Contents]]
    /\ savedCreated \subseteq Files
    /\ codeAt \in [Points -> [Files -> Contents]]
    /\ restoredTo \in Points \union {NotRestored}
    /\ {late, cut, lost, errors} \subseteq SUBSET Files
    /\ reused \subseteq Turns

\* A file that the latest turn before a point changed and left without a copy
\* of its end: it did not exist then, it could not be copied, or the turn was
\* cut short.
NoTurnEnd(f, point) ==
    LET latest == LatestChange(f, point)
    IN latest # -1 /\ turnEnds[latest][f] = None

\* What a restore can promise of a file: its code at the point, unless there
\* is no copy of it or its original was copied too late or in part.
Restored(f) ==
    \/ f \in late /\ LatestChange(f, restoredTo) = -1
    \/ NoTurnEnd(f, restoredTo)
    \/ disk[f] = codeAt[restoredTo][f]

\* The files a restore reported no error for, but those a crash has cut a turn
\* of and those written by a call that had ended.
Promised == Tracked \ (errors \union cut \union stray)

\* A restore brings back the code of the selected session point, over any
\* order of turns, aborts, failures, restarts and restores in both directions
\* (file-checkpoint.ts:263).  Excepted are the files of a list that a crash
\* has cut, and a turn whose number an abandoned branch has used.
RestoreIsExact ==
    restoredTo # NotRestored =>
        \A f \in Promised \ lost :
            LatestChange(f, restoredTo) \in reused \/ Restored(f)

\* "Both actions restore tracked files to the code state for that selected
\* session point" (docs/file-checkpointing.md:39), on a later branch as well.
BranchRestoreIsExact ==
    restoredTo # NotRestored => \A f \in Promised \ lost : Restored(f)

\* A file that a tool creates is listed in created.json before the tool opens
\* it, so no crash leaves a file behind that a restore would keep
\* (file-checkpoint.ts:59), unless it cuts that list.
NewFilesListed == {f \in touched : codeAt[0][f] = Missing} \ lost \subseteq savedCreated

\* The checkpoint on disk and in memory suffices for every session point of the
\* branch, also after a crash (file-checkpoint.ts:200).
CheckpointSuffices == TypeOK /\ RestoreIsExact /\ NewFilesListed

\* A call that started is over some time, whatever was aborted, refused or
\* failed ahead of it in the queue of its file (file-mutation-queue.ts:34).
CallsEnd == []<>(\A c \in Calls : calls[c].at = "over")
=============================================================================
