----------------------------- MODULE SessionTree -----------------------------
(***************************************************************************)
(* A session of packages/agent/src/harness/session: Session (session.ts)   *)
(* over JsonlSessionStorage (jsonl-storage.ts), with its file.  Callers    *)
(* append entries and move the leaf; every method awaits, so the steps of  *)
(* two calls interleave.  The process may crash and open the file again.   *)
(*                                                                         *)
(* An operation is at one of its await points: "leaf" before the leaf is   *)
(* read, "move" before setLeafId, "write" while appendFile is under way,   *)
(* "landed" when the line is in the file and its promise is not yet        *)
(* handled, "summary" between the two appends of moveTo.  The storage in   *)
(* memory (memory-storage.ts) is the case where landing and handling are   *)
(* one step.                                                               *)
(*                                                                         *)
(* An id is the first 8 hex digits of a uuidv7, which are the upper 32     *)
(* bits of its 48 bits of milliseconds: one value for 65 seconds, a        *)
(* window.  When the value is taken a whole uuid is the id.                *)
(***************************************************************************)
EXTENDS Naturals, Sequences, FiniteSets

CONSTANTS
    Callers,            \* operations that may be under way at once
    MaxEntries,         \* bound: entries ever made
    MaxOverlaps,        \* bound: calls made while another one is under way
    MaxWindows,         \* bound: windows of time
    MaxFailures,        \* bound: appends that fail
    MaxCrashes          \* bound: crashes

ASSUME SessionAssumption ==
    /\ MaxEntries \in Nat
    /\ MaxOverlaps \in Nat
    /\ MaxWindows \in Nat \ {0}
    /\ MaxFailures \in Nat
    /\ MaxCrashes \in Nat

VARIABLES
    file,               \* the lines after the header
    cut,                \* the last line has no end
    up,                 \* a storage object is open on the file
    entries,            \* its entries (byId is their index)
    currentLeafId,
    ops,                \* the operation of each caller
    window,             \* the window of time
    \* history
    made,               \* entries made so far
    acked,              \* entries whose append resolved
    joined,             \* something was appended to a line without an end
    torn,               \* a failed append left a line without an end, and
                        \* this process went on
    overlaps,
    failures,
    crashes

storageVars == <<entries, currentLeafId>>
fileVars == <<file, cut, joined>>
faultVars == <<torn, failures, crashes>>
vars == <<fileVars, up, storageVars, ops, window, made, acked, overlaps,
          faultVars>>

-----------------------------------------------------------------------------
\* Ids and entries.  `text` is the payload: what tells two entries with one
\* id apart.

NoId == <<"none", 0>>
ShortId(w) == <<"short", w>>
WholeId(n) == <<"whole", n>>
Ids == {ShortId(w) : w \in 1..MaxWindows} \union {WholeId(n) : n \in 1..MaxEntries}

Entry == [kind : {"entry", "leaf"}, id : Ids, parent : Ids \union {NoId},
          target : Ids \union {NoId}, text : 1..MaxEntries]
Garbage == [kind |-> "garbage"]
Lines == Entry \union {Garbage}

Steps == {"idle", "leaf", "move", "write", "landed", "summary"}
Idle == [at |-> "idle", kind |-> "entry", id |-> NoId, parent |-> NoId,
         target |-> NoId, text |-> 0, summarize |-> FALSE]

EntryOf(o) == [kind |-> o.kind, id |-> o.id, parent |-> o.parent,
               target |-> o.target, text |-> o.text]

KnownIds(s) == {s[i].id : i \in DOMAIN s}

\* generateEntryId: a short id, or a whole uuid when it is taken.
generateEntryId ==
    IF ShortId(window) \in KnownIds(entries)
    THEN WholeId(made + 1) ELSE ShortId(window)

leafIdAfterEntry(e) == IF e.kind = "leaf" THEN e.target ELSE e.id

LeafOf(s) == IF s = <<>> THEN NoId ELSE leafIdAfterEntry(s[Len(s)])

-----------------------------------------------------------------------------
\* Calls of a session.

SetOp(c, o) == ops' = [ops EXCEPT ![c] = o]

\* A call is made, perhaps while one of another caller is under way.
Begin(c) ==
    /\ up /\ ops[c].at = "idle" /\ made < MaxEntries
    /\ IF \A d \in Callers : ops[d].at = "idle" THEN UNCHANGED overlaps
       ELSE overlaps < MaxOverlaps /\ overlaps' = overlaps + 1

\* appendMessage and the other append methods: the id is made first, then
\* the leaf is awaited.
AppendCall(c) ==
    /\ Begin(c)
    /\ SetOp(c, [Idle EXCEPT !.at = "leaf", !.id = generateEntryId,
                             !.text = made + 1])
    /\ made' = made + 1
    /\ UNCHANGED <<fileVars, up, storageVars, window, acked, faultVars>>

\* Mutant of ReadLeaf: the parent is the entry made last.
ReadLeafLast(c) ==
    /\ ops[c].at = "leaf"
    /\ SetOp(c, [ops[c] EXCEPT !.at = "write",
                    !.parent = IF entries = <<>> THEN NoId
                               ELSE entries[Len(entries)].id])
    /\ UNCHANGED <<fileVars, up, storageVars, window, made, acked, faultVars, overlaps>>

\* Mutant of ReadLeaf: the leaf moves before the entry is written.
ReadLeafEarly(c) ==
    /\ ops[c].at = "leaf"
    /\ SetOp(c, [ops[c] EXCEPT !.at = "write", !.parent = currentLeafId])
    /\ currentLeafId' = ops[c].id
    /\ UNCHANGED <<fileVars, up, entries, window, made, acked, faultVars, overlaps>>

\* The arguments of appendTypedEntry are complete: the append starts.
ReadLeaf(c) ==
    /\ ops[c].at = "leaf"
    /\ SetOp(c, [ops[c] EXCEPT !.at = "write", !.parent = currentLeafId])
    /\ UNCHANGED <<fileVars, up, storageVars, window, made, acked, faultVars, overlaps>>

\* moveTo: the target is looked up and awaited.
MoveCall(c) ==
    /\ Begin(c)
    /\ \E target \in KnownIds(entries) \union {NoId}, summarize \in BOOLEAN :
            SetOp(c, [Idle EXCEPT !.at = "move", !.kind = "leaf",
                                  !.target = target, !.summarize = summarize])
    /\ UNCHANGED <<fileVars, up, storageVars, window, made, acked, faultVars>>

\* setLeafId makes its entry and starts the append at once.
SetLeaf(c) ==
    /\ ops[c].at = "move" /\ made < MaxEntries
    /\ SetOp(c, [ops[c] EXCEPT !.at = "write", !.id = generateEntryId,
                               !.parent = currentLeafId, !.text = made + 1])
    /\ made' = made + 1
    /\ UNCHANGED <<fileVars, up, storageVars, window, acked, faultVars, overlaps>>

\* The branch summary of moveTo has the target of the move as its parent.
Summarize(c) ==
    /\ ops[c].at = "summary" /\ made < MaxEntries
    /\ SetOp(c, [Idle EXCEPT !.at = "write", !.id = generateEntryId,
                             !.parent = ops[c].target, !.text = made + 1])
    /\ made' = made + 1
    /\ UNCHANGED <<fileVars, up, storageVars, window, acked, faultVars, overlaps>>

-----------------------------------------------------------------------------
\* appendFile.

\* What is written after a line without an end becomes part of that line.
WriteLine(line, open) ==
    /\ file' = IF cut THEN [file EXCEPT ![Len(file)] = Garbage] ELSE Append(file, line)
    /\ cut' = open
    /\ joined' = (joined \/ cut)

\* The line is in the file.
Land(c) ==
    /\ ops[c].at = "write"
    /\ WriteLine(EntryOf(ops[c]), FALSE)
    /\ SetOp(c, [ops[c] EXCEPT !.at = "landed"])
    /\ UNCHANGED <<up, storageVars, window, made, acked, faultVars, overlaps>>

\* The promise of appendEntry resolves: memory follows the file.
EntryLanded(c) ==
    /\ ops[c].at = "landed" /\ ops[c].kind = "entry"
    /\ entries' = Append(entries, EntryOf(ops[c]))
    /\ currentLeafId' = leafIdAfterEntry(EntryOf(ops[c]))
    /\ acked' = acked \union {EntryOf(ops[c])}
    /\ SetOp(c, Idle)
    /\ UNCHANGED <<fileVars, up, window, made, faultVars, overlaps>>

\* The rest of moveTo after setLeafId: the summary, if there is one.
AfterMove(o) ==
    IF o.summarize THEN [Idle EXCEPT !.at = "summary", !.target = o.target]
    ELSE Idle

\* The promise of setLeafId resolves.
LeafLanded(c) ==
    /\ ops[c].at = "landed" /\ ops[c].kind = "leaf"
    /\ entries' = Append(entries, EntryOf(ops[c]))
    /\ currentLeafId' = ops[c].target
    /\ acked' = acked \union {EntryOf(ops[c])}
    /\ SetOp(c, AfterMove(ops[c]))
    /\ UNCHANGED <<fileVars, up, window, made, faultVars, overlaps>>

\* A part of the line reaches the file, or all of it but its end: then it is
\* an entry for whoever reads the file.
CutLine(c) ==
    /\ ops[c].at = "write"
    /\ \E line \in {Garbage, EntryOf(ops[c])} : WriteLine(line, TRUE)

\* Mutant of AppendFails: the result of appendFile is not looked at.
AppendFailsUnnoticed(c) ==
    /\ ops[c].at = "write"
    /\ failures < MaxFailures
    /\ failures' = failures + 1
    /\ SetOp(c, [ops[c] EXCEPT !.at = "landed"])
    /\ UNCHANGED <<fileVars, up, storageVars, window, made, acked, torn, crashes,
                   overlaps>>

\* The append is an error: the operation throws and memory is as before.
AppendFails(c) ==
    /\ ops[c].at = "write"
    /\ failures < MaxFailures
    /\ failures' = failures + 1
    /\ \/ UNCHANGED <<fileVars, torn>>
       \/ CutLine(c) /\ torn' = TRUE
    /\ SetOp(c, Idle)
    /\ UNCHANGED <<up, storageVars, window, made, acked, crashes, overlaps>>

-----------------------------------------------------------------------------
\* Crash and reopen.

Crash ==
    /\ up /\ crashes < MaxCrashes
    /\ crashes' = crashes + 1
    /\ up' = FALSE
    /\ UNCHANGED fileVars \/ \E c \in Callers : CutLine(c)
    /\ torn' = FALSE
    /\ ops' = [c \in Callers |-> Idle]
    /\ entries' = <<>>
    /\ currentLeafId' = NoId
    /\ UNCHANGED <<window, made, acked, failures, overlaps>>

\* loadJsonlStorage refuses a file with a line that is no entry.  It does not
\* look for the end of the last one.
Loadable == \A i \in DOMAIN file : file[i] # Garbage

\* open and the constructor: the entries and the leaf of the last line.
Open ==
    /\ ~up
    /\ Loadable
    /\ up' = TRUE
    /\ entries' = file
    /\ currentLeafId' = LeafOf(file)
    /\ UNCHANGED <<fileVars, ops, window, made, acked, faultVars, overlaps>>

NextWindow ==
    /\ window < MaxWindows
    /\ window' = window + 1
    /\ UNCHANGED <<fileVars, up, storageVars, ops, made, acked, faultVars, overlaps>>

-----------------------------------------------------------------------------
Init ==
    /\ file = <<>>
    /\ cut = FALSE
    /\ up = TRUE
    /\ entries = <<>>
    /\ currentLeafId = NoId
    /\ ops = [c \in Callers |-> Idle]
    /\ window = 1
    /\ made = 0
    /\ acked = {}
    /\ joined = FALSE
    /\ torn = FALSE
    /\ overlaps = 0
    /\ failures = 0
    /\ crashes = 0

Call(c) == AppendCall(c) \/ ReadLeaf(c) \/ MoveCall(c) \/ SetLeaf(c) \/ Summarize(c)

Write(c) == Land(c) \/ EntryLanded(c) \/ LeafLanded(c) \/ AppendFails(c)

Next ==
    \/ \E c \in Callers : Call(c) \/ Write(c)
    \/ Crash \/ Open \/ NextWindow

Spec == Init /\ [][Next]_vars

-----------------------------------------------------------------------------
\* Properties.

\* Every variable has its type.
TypeOK ==
    /\ file \in Seq(Lines)
    /\ cut \in BOOLEAN
    /\ up \in BOOLEAN
    /\ entries \in Seq(Entry)
    /\ currentLeafId \in Ids \union {NoId}
    /\ ops \in [Callers -> [at : Steps, kind : {"entry", "leaf"},
                            id : Ids \union {NoId}, parent : Ids \union {NoId},
                            target : Ids \union {NoId}, text : 0..MaxEntries,
                            summarize : BOOLEAN]]
    /\ window \in 1..MaxWindows
    /\ made \in 0..MaxEntries
    /\ acked \subseteq Entry
    /\ joined \in BOOLEAN
    /\ torn \in BOOLEAN
    /\ overlaps \in 0..MaxOverlaps
    /\ failures \in Nat
    /\ crashes \in Nat

Quiet == up /\ \A c \in Callers : ops[c].at \in {"idle", "leaf", "move", "summary"}

\* The parent of every entry, and the target of every move, is an entry made
\* before it: getLeafId and getPathToRoot never throw "not found", also after
\* failed appends, a reopen and calls that overlap.
ParentsPrecede ==
    /\ \A i \in DOMAIN entries :
            LET before == {entries[j].id : j \in 1..(i - 1)} \union {NoId}
            IN entries[i].parent \in before /\ entries[i].target \in before
    /\ currentLeafId \in KnownIds(entries) \union {NoId}

\* An append that resolved is in the file, whatever crashes or fails after it.
\* Excepted is a file that was opened with a last line without an end: the next
\* append is joined to it, and no reopen can read the file (jsonl-storage.ts:145).
AckedIsDurable ==
    ~joined => \A e \in acked : \E i \in DOMAIN file : file[i] = e

\* The file holds what memory holds, and can be read again: no failed append
\* of this process left a line, nothing was joined to one.
Sound == ~torn /\ ~joined

\* Between two writes memory holds the entries of the file, each once.
MemoryMatchesFile ==
    Quiet /\ Sound =>
        /\ Len(entries) = Len(file)
        /\ \A i \in DOMAIN file : \E j \in DOMAIN entries : entries[j] = file[i]

\* The leaf that a reopen would find is the leaf of the open session, for one
\* caller at a time (promises may be handled in another order than the lines
\* landed in).
ReopenRestoresLeaf == Quiet /\ Sound /\ overlaps = 0 => LeafOf(file) = currentLeafId

\* The file is the session: what was acknowledged is in it, memory has
\* nothing else, and a reopen finds the same leaf (jsonl-storage.ts:252).
FileIsSession == TypeOK /\ AckedIsDurable /\ MemoryMatchesFile /\ ReopenRestoresLeaf

-----------------------------------------------------------------------------
\* For one caller at a time the file implements the tree of SessionBranches.

Position(s, id) == CHOOSE i \in DOMAIN s : s[i].id = id

\* The path of each line, from the root.
Paths(s) ==
    LET path[i \in DOMAIN s] ==
            IF s[i].parent = NoId THEN <<s[i].id>>
            ELSE Append(path[Position(s, s[i].parent)], s[i].id)
    IN path

PathTo(s, id) == IF id = NoId THEN <<>> ELSE Paths(s)[Position(s, id)]

\* The lines that are entries, while nothing was joined.
Intact ==
    IF file # <<>> /\ file[Len(file)] = Garbage
    THEN SubSeq(file, 1, Len(file) - 1) ELSE file

Branches == INSTANCE SessionBranches
    WITH nodes <- {<<>>} \union {Paths(Intact)[i] : i \in DOMAIN Intact},
         leaf <- PathTo(Intact, LeafOf(Intact))

Undisturbed == overlaps = 0 /\ ~joined

\* Appends, moves, failed appends, crashes and reopens are steps of the tree
\* as long as no calls overlapped and nothing was appended to a line without
\* an end: it only grows, each entry is a child of the active leaf.
ImplementsBranches ==
    Branches!Init /\ [][Undisturbed' => [Branches!Next]_(Branches!vars)]_vars
=============================================================================
