---------------------------- MODULE FileMutation ----------------------------
(***************************************************************************)
(* The write and edit tools of packages/coding-agent (core/tools/write.ts, *)
(* edit.ts) over the queue that serializes them per file                   *)
(* (file-mutation-queue.ts) and the file system.  One action per file      *)
(* operation: others run between any two.                                  *)
(*                                                                         *)
(* A call is at "started" (its tool_execution_start was emitted), "queued" *)
(* (in withFileMutationQueue), at the file operation it awaits ("mkdir",   *)
(* "access", "read", "open", "write"), or "over".  An abort rejects a call *)
(* at once; a writeFile that is under way then goes on.                    *)
(*                                                                         *)
(* Each file operation may fail: a writeFile before it opened the file, or *)
(* after it truncated it, which leaves a part of what it had to write.     *)
(*                                                                         *)
(* The content of a file is the set of calls it shows the effect of.       *)
(***************************************************************************)
EXTENDS Integers, Sequences, FiniteSets

CONSTANTS
    Files,
    Linked,             \* reached through a symbolic link to their directory
    MaxCalls            \* bound: tool calls

ASSUME FileAssumption ==
    /\ Linked \subseteq Files
    /\ MaxCalls \in Nat

VARIABLES
    disk,               \* content of each file
    tail,               \* fileMutationQueues: the last call of each chain
    calls,              \* the calls so far
    \* history
    touched,            \* files a tool has opened for writing
    expected,           \* what the calls would have left in each file one by one
    stray               \* files with a write that outlived its call

queueVars == <<tail, calls>>
fileVars == <<disk, touched, expected, stray>>
toolVars == <<queueVars, fileVars>>

-----------------------------------------------------------------------------

Missing == {-1}
Torn == {-2}            \* truncated, and written in part at most
Original == {0}
Contents == SUBSET (-2..MaxCalls)

Calls == DOMAIN calls
Kinds == {"write", "edit"}
Steps == {"started", "queued", "mkdir", "access", "read", "open", "write", "over"}

\* `ahead` is history: the calls for the file that joined before this one and
\* were not over then.
Call(f, k) == [file |-> f, kind |-> k, at |-> "started", after |-> 0, ahead |-> {},
               released |-> FALSE, aborted |-> FALSE, read |-> {}]

CallType == [file : Files, kind : Kinds, at : Steps, after : 0..MaxCalls,
             ahead : SUBSET (1..MaxCalls), released : BOOLEAN, aborted : BOOLEAN,
             read : Contents]

\* getMutationQueueKey: the real path when the file exists, else the path
\* as given.
Key(f) == IF f \in Linked /\ disk[f] = Missing THEN <<f, "given">> ELSE <<f, "real">>
Keys == Files \X {"given", "real"}

\* A call that has been let through and is not released yet.
Entered(c) == calls[c].at \in {"mkdir", "access", "read", "open", "write"}
Holds(c) == Entered(c) /\ ~calls[c].released

ToolInit ==
    /\ disk \in [Files -> {Missing, Original}]
    /\ tail = [k \in Keys |-> 0]
    /\ calls = <<>>
    /\ touched = {}
    /\ expected = disk
    /\ stray = {}

-----------------------------------------------------------------------------
\* withFileMutationQueue

\* The calls for a file that joined and are not over.
Joined(f) == {c \in Calls : calls[c].file = f /\ calls[c].at \notin {"started", "over"}}

\* Mutant of Join: only a call that finds no chain starts one, so all others
\* wait for the same call.
JoinFirstOnly(c) ==
    LET k == Key(calls[c].file)
    IN /\ calls[c].at = "started"
       /\ calls' = [calls EXCEPT ![c].at = "queued", ![c].after = tail[k],
                                 ![c].ahead = Joined(calls[c].file)]
       /\ tail' = [tail EXCEPT ![k] = IF @ = 0 THEN c ELSE @]
       /\ UNCHANGED fileVars

\* The chain is extended before the call awaits its predecessor.
Join(c) ==
    LET k == Key(calls[c].file)
    IN /\ calls[c].at = "started"
       /\ calls' = [calls EXCEPT ![c].at = "queued", ![c].after = tail[k],
                                 ![c].ahead = Joined(calls[c].file)]
       /\ tail' = [tail EXCEPT ![k] = c]
       /\ UNCHANGED fileVars

\* The finally block: the chain is dropped by its last member only.
TailWithout(c) == [k \in Keys |-> IF tail[k] = c THEN 0 ELSE tail[k]]

\* Mutant of Over: a call that fails is not released.
OverHeld(call) == [call EXCEPT !.at = "over", !.after = 0, !.ahead = {}, !.aborted = FALSE,
                               !.read = {}]

\* A call that is over, its locals gone.
Over(call) == [call EXCEPT !.at = "over", !.after = 0, !.ahead = {}, !.released = TRUE,
                           !.aborted = FALSE, !.read = {}]

\* A call ends: it resolves or rejects, and the next one may start.
Leave(c) ==
    /\ calls' = [calls EXCEPT ![c] = Over(@)]
    /\ tail' = TailWithout(c)

\* The next step of a call, when it has not been aborted meanwhile.
Proceed(c, step) ==
    /\ calls' = [calls EXCEPT ![c].at = step]
    /\ tail' = tail

\* The predecessor has released: the tool looks at the signal and starts its
\* first file operation.
Enter(c) ==
    /\ calls[c].at = "queued"
    /\ calls[c].after # 0 => calls[calls[c].after].released
    /\ IF calls[c].aborted
       THEN Leave(c)
       ELSE Proceed(c, IF calls[c].kind = "write" THEN "mkdir" ELSE "access")
    /\ UNCHANGED fileVars

-----------------------------------------------------------------------------
\* The tools

MkdirDone(c) ==
    /\ calls[c].at = "mkdir"
    /\ Proceed(c, "open")
    /\ UNCHANGED fileVars

AccessDone(c) ==
    /\ calls[c].at = "access"
    /\ disk[calls[c].file] # Missing
    /\ Proceed(c, "read")
    /\ UNCHANGED fileVars

ReadDone(c) ==
    /\ calls[c].at = "read"
    /\ disk[calls[c].file] # Missing
    /\ calls' = [calls EXCEPT ![c].at = "open", ![c].read = disk[calls[c].file]]
    /\ UNCHANGED <<tail, fileVars>>

\* A file operation fails and leaves the file as it is (the edits that do not
\* match what was read among them).
StepFails(c) ==
    /\ calls[c].at \in {"mkdir", "access", "read", "open"}
    /\ Leave(c)
    /\ UNCHANGED fileVars

\* writeFile opens the file and truncates it ...
OpenDone(c) ==
    /\ calls[c].at = "open"
    /\ calls' = [calls EXCEPT ![c].at = "write"]
    /\ disk' = [disk EXCEPT ![calls[c].file] = Torn]
    /\ touched' = touched \union {calls[c].file}
    /\ UNCHANGED <<tail, expected, stray>>

Written(c) == calls[c].read \union {c}

\* What the calls up to c leave in its file, done in their order.
Expected(c) ==
    IF calls[c].kind = "edit" THEN expected[calls[c].file] \union {c} ELSE {c}

\* The write of c ends.  A call that was aborted has been released before.
WriteEnds(c, content, result) ==
    LET f == calls[c].file
    IN /\ calls[c].at = "write"
       /\ disk' = [disk EXCEPT ![f] = content]
       /\ Leave(c)
       /\ expected' = IF calls[c].released THEN expected
                      ELSE [expected EXCEPT ![f] = result]
       /\ UNCHANGED <<touched, stray>>

\* ... and writes it ...
WriteDone(c) == WriteEnds(c, Written(c), Expected(c))

\* ... or fails half-way: the call rejects, and what the file had is gone.
WriteFails(c) == WriteEnds(c, Torn, Torn)

FileStep(c) ==
    \/ MkdirDone(c) \/ AccessDone(c) \/ ReadDone(c) \/ OpenDone(c) \/ WriteDone(c)
    \/ StepFails(c) \/ WriteFails(c)

\* The signal of a set of calls aborts.  The listener of a call that was let
\* through rejects it there and then, which releases the queue: what it has
\* only looked at is dropped, what it has begun to write goes on.
AbortCalls(cs) ==
    LET Hit == {c \in cs : Holds(c)}
        Writing == {c \in Hit : calls[c].at \in {"open", "write"}}
    IN /\ calls' = [c \in Calls |->
              IF c \in Hit \ Writing THEN Over(calls[c])
              ELSE [calls[c] EXCEPT !.aborted = @ \/ (c \in cs /\ calls[c].at # "over"),
                                    !.released = @ \/ c \in Writing]]
       /\ tail' = [k \in Keys |-> IF tail[k] \in Hit THEN 0 ELSE tail[k]]
       /\ stray' = stray \union {calls[c].file : c \in Writing}
       /\ UNCHANGED <<disk, touched, expected>>

-----------------------------------------------------------------------------

FileTypeOK ==
    /\ disk \in [Files -> Contents]
    /\ tail \in [Keys -> 0..Len(calls)]
    /\ calls \in Seq(CallType)
    /\ touched \subseteq Files
    /\ expected \in [Files -> Contents]
    /\ stray \subseteq Files

\* Serialize file mutation operations targeting the same file
\* (file-mutation-queue.ts:16): a call is let through only when every call
\* for the file that joined before it was released, although a chain is
\* deleted while others still wait in it and rebuilt by the next call.
\* Excepted are files reached through a link: such a file has one key before
\* it exists and another one afterwards.
QueueIsFifo ==
    \A c \in Calls : Entered(c) /\ calls[c].file \notin Linked =>
        \A d \in calls[c].ahead : calls[d].released

\* No edit is lost to another call: a file nobody is working on holds the last
\* write that succeeded and every edit that succeeded after it (edit.ts:391).
\* What a writeFile that fails half-way has truncated is lost, and only the
\* calls after it count (write.ts:262).  Excepted is a file with a write that
\* outlived its aborted call (write.ts:236), and again one that is reached
\* through a link.
NoUpdateLost ==
    \A f \in Files \ (stray \union Linked) :
        (\A c \in Calls : calls[c].file = f => ~Entered(c)) => disk[f] = expected[f]

\* The calls for a file take effect one after the other, in the order they came
\* (file-mutation-queue.ts:16).
MutationsSerialized == QueueIsFifo /\ NoUpdateLost
=============================================================================
