-------------------------- MODULE SessionTreeProofs --------------------------
(***************************************************************************)
(* Proofs about SessionTree: the parent of every entry precedes it, and    *)
(* the file holds the session, for any number of callers, calls, failed    *)
(* appends and crashes; for one caller at a time the file implements the   *)
(* tree of SessionBranches.                                                *)
(*                                                                         *)
(* What memory holds is in the file too, and the file alone must be a tree *)
(* (Open reads nothing else), so the inductive invariant says of the file  *)
(* what ParentsPrecede says of the entries, as long as the file can be     *)
(* loaded, and it can unless a cut line is garbage or something was joined *)
(* to one (FileInv).  An operation that waits remembers a leaf that stays  *)
(* an entry (OpOK).  Lines whose promise is not handled yet are the        *)
(* difference between file and memory (CountInv), and for calls that do    *)
(* not overlap there is at most one of them, the last (AloneInv).          *)
(*                                                                         *)
(* For the refinement each line of the file has a path.  The recursion     *)
(* that gives it ends because parents precede (PathsAt), and a line that   *)
(* follows changes no path because no id is used twice (PathsAppend):      *)
(* BranchInv says that new ids are new and that a line lands on the leaf.  *)
(***************************************************************************)
EXTENDS SessionTree, FiniteSetTheorems, WellFoundedInduction, TLAPS

USE DEF vars, storageVars, fileVars, faultVars

OpRecord == [at : Steps, kind : {"entry", "leaf"}, id : Ids \union {NoId},
             parent : Ids \union {NoId}, target : Ids \union {NoId},
             text : 0..MaxEntries, summarize : BOOLEAN]

-----------------------------------------------------------------------------
\* The inductive invariant

\* The parents and targets in a list of entries are ids of earlier entries.
Precede(s) ==
    \A i \in DOMAIN s :
        LET before == {s[j].id : j \in 1..(i - 1)} \union {NoId}
        IN s[i].parent \in before /\ s[i].target \in before

Known == KnownIds(entries) \union {NoId}

\* An operation refers to entries that memory has.
OpOK(o) ==
    /\ o.at \in {"write", "landed"} => EntryOf(o) \in Entry
    /\ o.at = "leaf" => o.id \in Ids /\ o.text # 0
    /\ o.parent \in Known /\ o.target \in Known

TreeInv == ParentsPrecede /\ \A c \in Callers : OpOK(ops[c])

InFile(e) == \E i \in DOMAIN file : file[i] = e

Landed == {c \in Callers : ops[c].at = "landed"}

FileInv ==
    /\ cut => file # <<>>
    /\ torn => cut \/ joined
    /\ joined => ~Loadable
    /\ ~joined =>
          /\ \A i \in DOMAIN file :
                file[i] = Garbage => i = Len(file) /\ cut /\ (torn \/ ~up)
          /\ \A i \in DOMAIN entries : InFile(entries[i])
          /\ \A c \in Landed : InFile(EntryOf(ops[c]))
    /\ Loadable => Precede(file)
    /\ AckedIsDurable

DownInv == ~up => /\ \A c \in Callers : ops[c] = Idle
                  /\ entries = <<>> /\ currentLeafId = NoId

CountInv ==
    up /\ Sound =>
        /\ IsFiniteSet(Landed)
        /\ Len(file) = Len(entries) + Cardinality(Landed)
        /\ \A i \in DOMAIN file : \/ \E j \in DOMAIN entries : entries[j] = file[i]
                                  \/ \E c \in Landed : EntryOf(ops[c]) = file[i]

AloneInv ==
    overlaps = 0 =>
        /\ \A c, d \in Callers : ops[c].at # "idle" /\ ops[d].at # "idle" => c = d
        /\ up /\ Sound =>
              /\ currentLeafId = LeafOf(entries)
              /\ Landed = {} => file = entries
              /\ \A c \in Landed : file = Append(entries, EntryOf(ops[c]))

SessionInv == TypeOK /\ TreeInv /\ FileInv /\ DownInv /\ CountInv /\ AloneInv

-----------------------------------------------------------------------------
\* Lists of entries

LEMMA AppendFacts ==
    ASSUME NEW S, NEW s \in Seq(S), NEW e \in S
    PROVE  /\ Append(s, e) \in Seq(S) /\ Len(Append(s, e)) = Len(s) + 1
           /\ DOMAIN Append(s, e) = 1..(Len(s) + 1) /\ DOMAIN s = 1..Len(s) /\ Len(s) \in Nat
           /\ \A i \in DOMAIN s : Append(s, e)[i] = s[i] /\ s[i] \in S
           /\ Append(s, e)[Len(s) + 1] = e
OBVIOUS

LEMMA KnownAppend ==
    ASSUME NEW S, NEW s \in Seq(S), NEW e \in S
    PROVE  KnownIds(Append(s, e)) = KnownIds(s) \union {e.id}
<1>1. \A i \in DOMAIN Append(s, e) : i \in DOMAIN s \/ i = Len(s) + 1  BY AppendFacts
<1>2. DOMAIN s \subseteq DOMAIN Append(s, e) /\ Len(s) + 1 \in DOMAIN Append(s, e)
  BY AppendFacts
<1> QED  BY <1>1, <1>2, AppendFacts DEF KnownIds

\* An entry that refers to entries of the list can follow them.
LEMMA PrecedeAppend ==
    ASSUME NEW S, NEW s \in Seq(S), NEW e \in S, Precede(s),
           e.parent \in KnownIds(s) \union {NoId}, e.target \in KnownIds(s) \union {NoId}
    PROVE  Precede(Append(s, e))
<1> DEFINE t == Append(s, e)
<1>1. /\ DOMAIN t = 1..(Len(s) + 1) /\ DOMAIN s = 1..Len(s) /\ Len(s) \in Nat
      /\ \A i \in DOMAIN s : t[i] = s[i]
      /\ t[Len(s) + 1] = e
  BY AppendFacts
<1> HIDE DEF t
<1>2. ASSUME NEW i \in DOMAIN t
      PROVE  LET before == {t[j].id : j \in 1..(i - 1)} \union {NoId}
             IN t[i].parent \in before /\ t[i].target \in before
  <2>1. CASE i \in DOMAIN s
    <3>1. \A j \in 1..(i - 1) : t[j] = s[j]  BY <1>1, <2>1
    <3>2. {t[j].id : j \in 1..(i - 1)} = {s[j].id : j \in 1..(i - 1)}  BY <3>1
    <3> QED  BY <1>1, <2>1, <3>2 DEF Precede
  <2>2. CASE i = Len(s) + 1
    <3>1. \A j \in 1..(i - 1) : t[j] = s[j] /\ j \in DOMAIN s  BY <1>1, <2>2
    <3>2. {t[j].id : j \in 1..(i - 1)} = KnownIds(s)  BY <1>1, <2>2, <3>1 DEF KnownIds
    <3> QED  BY <1>1, <2>2, <3>2
  <2> QED  BY <1>1, <1>2, <2>1, <2>2
<1> QED  BY <1>2 DEF Precede, t

\* The leaf of a list that is a tree is an entry of it.
LEMMA LeafKnown ==
    ASSUME NEW s \in Seq(Entry), Precede(s)
    PROVE  LeafOf(s) \in KnownIds(s) \union {NoId}
<1>1. CASE s = <<>>
  BY <1>1 DEF LeafOf
<1>2. CASE s # <<>>
  <2>1. Len(s) \in DOMAIN s /\ DOMAIN s = 1..Len(s) /\ Len(s) \in Nat  BY <1>2
  <2>2. {s[j].id : j \in 1..(Len(s) - 1)} \subseteq KnownIds(s)  BY <2>1 DEF KnownIds
  <2>3. s[Len(s)].target \in KnownIds(s) \union {NoId}  BY <2>1, <2>2 DEF Precede
  <2>4. s[Len(s)].id \in KnownIds(s)  BY <2>1 DEF KnownIds
  <2> QED  BY <1>2, <2>3, <2>4 DEF LeafOf, leafIdAfterEntry
<1> QED  BY <1>1, <1>2

LEMMA LeafAppend ==
    ASSUME NEW s \in Seq(Entry), NEW e \in Entry
    PROVE  LeafOf(Append(s, e)) = leafIdAfterEntry(e)
<1>1. Append(s, e) # <<>> /\ Append(s, e)[Len(Append(s, e))] = e  OBVIOUS
<1> QED  BY <1>1 DEF LeafOf

-----------------------------------------------------------------------------
\* The initial state

LEMMA IdleType == Idle \in OpRecord /\ Idle.at = "idle" /\ Idle.parent = NoId
                  /\ Idle.target = NoId /\ Idle.kind = "entry"
BY SessionAssumption DEF Idle, OpRecord, Steps

LEMMA InitInv == Init => SessionInv
<1> SUFFICES ASSUME Init PROVE SessionInv  OBVIOUS
<1> USE DEF Init
<1>1. TypeOK
  <2>1. ops \in [Callers -> OpRecord]  BY IdleType
  <2>2. file \in Seq(Lines) /\ entries \in Seq(Entry)  OBVIOUS
  <2>3. window \in 1..MaxWindows /\ made \in 0..MaxEntries /\ overlaps \in 0..MaxOverlaps
        /\ failures \in Nat /\ crashes \in Nat /\ currentLeafId \in Ids \union {NoId}
    BY SessionAssumption
  <2>4. cut \in BOOLEAN /\ up \in BOOLEAN /\ torn \in BOOLEAN /\ joined \in BOOLEAN /\ acked \subseteq Entry
    OBVIOUS
  <2> HIDE DEF Init
  <2> QED  BY <2>1, <2>2, <2>3, <2>4 DEF TypeOK, OpRecord
<1>2. DOMAIN file = {} /\ DOMAIN entries = {} /\ Landed = {} /\ Loadable
  BY IdleType DEF Landed, Loadable
<1>3. \A c \in Callers : ops[c] = Idle  OBVIOUS
<1>4. TreeInv
  BY <1>2, <1>3, IdleType DEF TreeInv, ParentsPrecede, OpOK, Known
<1>5. FileInv
  BY <1>2 DEF FileInv, Precede, AckedIsDurable
<1>6. DownInv
  BY DEF DownInv
<1>7. CountInv
  BY <1>2, FS_EmptySet DEF CountInv
<1>8. AloneInv
  BY <1>2, <1>3, IdleType DEF AloneInv, LeafOf
<1> QED  BY <1>1, <1>4, <1>5, <1>6, <1>7, <1>8 DEF SessionInv

-----------------------------------------------------------------------------
\* The steps of a call before its append

LEMMA Types ==
    ASSUME SessionInv
    PROVE  /\ ops \in [Callers -> OpRecord] /\ file \in Seq(Lines) /\ entries \in Seq(Entry)
           /\ window \in 1..MaxWindows /\ made \in 0..MaxEntries
           /\ overlaps \in 0..MaxOverlaps /\ failures \in Nat /\ crashes \in Nat
           /\ currentLeafId \in Ids \union {NoId} /\ currentLeafId \in Known
           /\ acked \subseteq Entry
<1>1. ops \in [Callers -> OpRecord]  BY DEF SessionInv, TypeOK, OpRecord
<1>2. file \in Seq(Lines) /\ entries \in Seq(Entry)  BY DEF SessionInv, TypeOK
<1>3. /\ window \in 1..MaxWindows /\ made \in 0..MaxEntries
      /\ overlaps \in 0..MaxOverlaps /\ failures \in Nat /\ crashes \in Nat
      /\ currentLeafId \in Ids \union {NoId} /\ acked \subseteq Entry
  BY DEF SessionInv, TypeOK
<1>4. currentLeafId \in Known  BY DEF SessionInv, TreeInv, ParentsPrecede, Known
<1> QED  BY <1>1, <1>2, <1>3, <1>4

LEMMA NewId ==
    ASSUME SessionInv, made < MaxEntries
    PROVE  generateEntryId \in Ids /\ made + 1 \in 0..MaxEntries /\ made + 1 # 0
<1>1. window \in 1..MaxWindows /\ made \in 0..MaxEntries  BY Types
<1>2. made + 1 \in 1..MaxEntries  BY <1>1, SessionAssumption
<1>3. made + 1 \in 0..MaxEntries /\ made + 1 # 0  BY <1>1, <1>2
<1> QED  BY <1>1, <1>2, <1>3 DEF generateEntryId, Ids

\* A step of a call before its append changes its operation and nothing else that
\* the invariant speaks of.
CallChanges(c, o) ==
    /\ up /\ ops[c].at # "landed"
    /\ o \in OpRecord /\ OpOK(o) /\ o.at # "landed"
    /\ ops' = [ops EXCEPT ![c] = o]
    /\ made' \in 0..MaxEntries /\ overlaps' \in 0..MaxOverlaps
    /\ overlaps' = 0 => /\ overlaps = 0
                        /\ ops[c].at # "idle" \/ \A d \in Callers : ops[d].at = "idle"
    /\ UNCHANGED <<fileVars, up, storageVars, window, acked, faultVars>>

LEMMA BeginOverlaps ==
    ASSUME SessionInv, NEW c \in Callers, Begin(c)
    PROVE  /\ up /\ ops[c].at = "idle" /\ overlaps' \in 0..MaxOverlaps /\ made < MaxEntries
           /\ overlaps' = 0 => overlaps = 0 /\ \A d \in Callers : ops[d].at = "idle"
<1>1. overlaps \in 0..MaxOverlaps /\ MaxOverlaps \in Nat  BY Types, SessionAssumption
<1> QED  BY <1>1 DEF Begin

LEMMA CallStep ==
    ASSUME SessionInv, NEW c \in Callers, Call(c)
    PROVE  \E o \in OpRecord : CallChanges(c, o)
<1>0. /\ ops[c] \in OpRecord /\ made \in 0..MaxEntries /\ overlaps \in 0..MaxOverlaps
      /\ currentLeafId \in Ids \union {NoId} /\ currentLeafId \in Known /\ NoId \in Known
      /\ OpOK(ops[c]) /\ (ops[c].at # "idle" => up)
  BY Types, IdleType DEF Known, SessionInv, TreeInv, DownInv
<1>1. KnownIds(entries) \subseteq Ids /\ Known \subseteq Ids \union {NoId}
  <2>1. \A i \in DOMAIN entries : entries[i] \in Entry  BY Types
  <2> QED  BY <2>1 DEF KnownIds, Known, Entry
<1>2. CASE AppendCall(c)
  <2> DEFINE o == [Idle EXCEPT !.at = "leaf", !.id = generateEntryId, !.text = made + 1]
  <2>1. Begin(c) /\ ops' = [ops EXCEPT ![c] = o] /\ made' = made + 1
        /\ UNCHANGED <<fileVars, up, storageVars, window, acked, faultVars>>
    BY <1>2 DEF AppendCall, SetOp
  <2>2. generateEntryId \in Ids /\ made + 1 \in 0..MaxEntries /\ made + 1 # 0
    BY <2>1, BeginOverlaps, NewId
  <2>3. /\ o \in OpRecord /\ o.at = "leaf" /\ o.id \in Ids /\ o.text # 0
        /\ o.parent = NoId /\ o.target = NoId
    BY <2>2, IdleType DEF OpRecord, Steps, Idle
  <2> HIDE DEF o
  <2>4. OpOK(o)  BY <1>0, <2>3 DEF OpOK
  <2>5. CallChanges(c, o)
    BY <2>1, <2>2, <2>3, <2>4, BeginOverlaps DEF CallChanges
  <2> QED  BY <2>3, <2>5
<1>3. CASE MoveCall(c)
  <2>1. PICK target \in Known, summarize \in BOOLEAN :
          ops' = [ops EXCEPT ![c] = [Idle EXCEPT !.at = "move", !.kind = "leaf",
                                         !.target = target, !.summarize = summarize]]
    BY <1>3 DEF MoveCall, SetOp, Known
  <2> DEFINE o == [Idle EXCEPT !.at = "move", !.kind = "leaf", !.target = target,
                               !.summarize = summarize]
  <2>2. /\ o \in OpRecord /\ o.at = "move" /\ o.parent = NoId /\ o.target = target
    BY <1>1, IdleType DEF OpRecord, Steps, Idle
  <2>3. Begin(c) /\ ops' = [ops EXCEPT ![c] = o] /\ made' = made
        /\ UNCHANGED <<fileVars, up, storageVars, window, acked, faultVars>>
    BY <1>3, <2>1 DEF MoveCall
  <2> HIDE DEF o
  <2>4. OpOK(o)  BY <1>0, <2>2 DEF OpOK
  <2>5. CallChanges(c, o)
    BY <1>0, <2>2, <2>3, <2>4, BeginOverlaps DEF CallChanges
  <2> QED  BY <2>2, <2>5
<1>4. CASE ReadLeaf(c)
  <2> DEFINE o == [ops[c] EXCEPT !.at = "write", !.parent = currentLeafId]
  <2>1. ops[c].at = "leaf" /\ ops' = [ops EXCEPT ![c] = o]
        /\ UNCHANGED <<fileVars, up, storageVars, window, made, acked, faultVars, overlaps>>
    BY <1>4 DEF ReadLeaf, SetOp
  <2>2. /\ o \in OpRecord /\ o.at = "write" /\ o.parent = currentLeafId
        /\ o.target = ops[c].target /\ o.id = ops[c].id /\ o.text = ops[c].text
    BY <1>0 DEF OpRecord, Steps
  <2>3. ops[c].id \in Ids /\ ops[c].text # 0 /\ ops[c].target \in Known
    BY <1>0, <2>1 DEF OpOK
  <2> HIDE DEF o
  <2>4. EntryOf(o) \in Entry  BY <2>2, <2>3 DEF EntryOf, Entry, OpRecord
  <2>5. OpOK(o)  BY <1>0, <2>2, <2>3, <2>4 DEF OpOK
  <2>6. CallChanges(c, o)
    BY <1>0, <2>1, <2>2, <2>5 DEF CallChanges
  <2> QED  BY <2>2, <2>6
<1>5. CASE SetLeaf(c)
  <2> DEFINE o == [ops[c] EXCEPT !.at = "write", !.id = generateEntryId,
                                 !.parent = currentLeafId, !.text = made + 1]
  <2>1. ops[c].at = "move" /\ made < MaxEntries /\ ops' = [ops EXCEPT ![c] = o]
        /\ made' = made + 1
        /\ UNCHANGED <<fileVars, up, storageVars, window, acked, faultVars, overlaps>>
    BY <1>5 DEF SetLeaf, SetOp
  <2>2. generateEntryId \in Ids /\ made + 1 \in 0..MaxEntries /\ made + 1 # 0
    BY <2>1, NewId
  <2>3. /\ o \in OpRecord /\ o.at = "write" /\ o.parent = currentLeafId
        /\ o.target = ops[c].target /\ o.id \in Ids /\ o.text # 0
    BY <1>0, <2>2 DEF OpRecord, Steps
  <2> HIDE DEF o
  <2>4. EntryOf(o) \in Entry  BY <2>3 DEF EntryOf, Entry, OpRecord
  <2>5. OpOK(o)  BY <1>0, <2>3, <2>4 DEF OpOK
  <2>6. CallChanges(c, o)
    BY <1>0, <2>1, <2>2, <2>3, <2>5 DEF CallChanges
  <2> QED  BY <2>3, <2>6
<1>6. CASE Summarize(c)
  <2> DEFINE o == [Idle EXCEPT !.at = "write", !.id = generateEntryId,
                               !.parent = ops[c].target, !.text = made + 1]
  <2>1. ops[c].at = "summary" /\ made < MaxEntries /\ ops' = [ops EXCEPT ![c] = o]
        /\ made' = made + 1
        /\ UNCHANGED <<fileVars, up, storageVars, window, acked, faultVars, overlaps>>
    BY <1>6 DEF Summarize, SetOp
  <2>2. generateEntryId \in Ids /\ made + 1 \in 0..MaxEntries /\ made + 1 # 0
    BY <2>1, NewId
  <2>3. ops[c].target \in Known /\ ops[c].target \in Ids \union {NoId}
    BY <1>0 DEF OpOK, OpRecord
  <2>4. /\ o \in OpRecord /\ o.at = "write" /\ o.parent = ops[c].target
        /\ o.target = NoId /\ o.id \in Ids /\ o.text # 0
    BY <2>2, <2>3, IdleType DEF OpRecord, Steps, Idle
  <2> HIDE DEF o
  <2>5. EntryOf(o) \in Entry  BY <2>4 DEF EntryOf, Entry, OpRecord
  <2>6. OpOK(o)  BY <1>0, <2>3, <2>4, <2>5 DEF OpOK
  <2>7. CallChanges(c, o)
    BY <1>0, <2>1, <2>2, <2>4, <2>6 DEF CallChanges
  <2> QED  BY <2>4, <2>7
<1> QED  BY <1>2, <1>3, <1>4, <1>5, <1>6 DEF Call

-----------------------------------------------------------------------------
\* What the steps keep

LEMMA CallKeeps ==
    ASSUME SessionInv, NEW c \in Callers, NEW o \in OpRecord, CallChanges(c, o)
    PROVE  SessionInv'
<1> USE DEF CallChanges
<1>1. /\ ops' \in [Callers -> OpRecord]
      /\ \A d \in Callers : ops'[d] = IF d = c THEN o ELSE ops[d]
  BY Types
<1>2. Landed' = Landed /\ \A d \in Landed : ops'[d] = ops[d]
  BY <1>1 DEF Landed
<1>3. TypeOK'
  BY <1>1 DEF SessionInv, TypeOK, OpRecord
<1>4. TreeInv'
  <2>1. ParentsPrecede' /\ Known' = Known  BY DEF SessionInv, TreeInv, ParentsPrecede, Known
  <2>2. \A d \in Callers : OpOK(ops[d])  BY DEF SessionInv, TreeInv
  <2>3. \A d \in Callers : OpOK(ops'[d])  BY <1>1, <2>2
  <2>4. \A d \in Callers : OpOK(ops[d])'  BY <2>1, <2>3 DEF OpOK
  <2> QED  BY <2>1, <2>4 DEF TreeInv
<1>5. FileInv'
  <2>1. /\ file' = file /\ cut' = cut /\ torn' = torn /\ joined' = joined
        /\ entries' = entries /\ up' = up /\ acked' = acked
    OBVIOUS
  <2>2. Loadable' <=> Loadable  BY <2>1 DEF Loadable
  <2>3. \A d \in Landed' : EntryOf(ops'[d]) = EntryOf(ops[d]) /\ d \in Landed  BY <1>2
  <2> QED  BY <2>1, <2>2, <2>3 DEF SessionInv, FileInv, InFile, AckedIsDurable
<1>6. DownInv'
  BY DEF DownInv
<1>7. CountInv'
  BY <1>2 DEF SessionInv, CountInv, Sound
<1>8. AloneInv'
  <2>1. CASE overlaps' # 0  BY <2>1 DEF AloneInv
  <2>2. CASE overlaps' = 0
    <3>1. AloneInv /\ overlaps = 0  BY <2>2 DEF SessionInv
    <3>2. \A d, e \in Callers : ops'[d].at # "idle" /\ ops'[e].at # "idle" => d = e
      BY <1>1, <2>2, <3>1 DEF AloneInv
    <3>3. /\ file' = file /\ Sound' = Sound /\ entries' = entries /\ up' = up
          /\ currentLeafId' = currentLeafId
      BY DEF Sound
    <3> QED  BY <1>2, <3>1, <3>2, <3>3 DEF AloneInv
  <2> QED  BY <2>1, <2>2
<1> QED  BY <1>3, <1>4, <1>5, <1>6, <1>7, <1>8 DEF SessionInv

\* A file that can be loaded has entries only.
LEMMA LoadableEntries ==
    ASSUME SessionInv, Loadable
    PROVE  file \in Seq(Entry)
<1>1. file \in Seq(Lines) /\ \A i \in DOMAIN file : file[i] \in Entry
  BY Types DEF Loadable, Lines
<1> QED  BY <1>1

LEMMA LandedFinite ==
    ASSUME NEW c \in Callers, c \notin Landed, Landed' = Landed \union {c}, IsFiniteSet(Landed)
    PROVE  IsFiniteSet(Landed') /\ Cardinality(Landed') = Cardinality(Landed) + 1
BY FS_AddElement

\* What is written to a sound file is its last line; what is written after a line
\* without an end makes a file that cannot be loaded, for good.
LEMMA WriteFacts ==
    ASSUME SessionInv, NEW line \in Lines, NEW open \in BOOLEAN, WriteLine(line, open)
    PROVE  /\ file' \in Seq(Lines) /\ cut' = open /\ file' # <<>> /\ joined' \in BOOLEAN
           /\ joined' => ~Loadable'
           /\ ~joined' => /\ ~joined /\ ~cut /\ Sound /\ Loadable /\ file' = Append(file, line)
                          /\ \A x : InFile(x) => \E i \in DOMAIN file' : file'[i] = x
                          /\ \A i \in DOMAIN file' :
                                file'[i] = Garbage => i = Len(file') /\ line = Garbage
<1>1. /\ file' = IF cut THEN [file EXCEPT ![Len(file)] = Garbage] ELSE Append(file, line)
      /\ cut' = open /\ joined' = (joined \/ cut)
  BY DEF WriteLine
<1>2. /\ file \in Seq(Lines) /\ Garbage \in Lines /\ cut \in BOOLEAN /\ joined \in BOOLEAN
      /\ Len(file) \in Nat /\ DOMAIN file = 1..Len(file)
  BY Types DEF Lines, SessionInv, TypeOK
<1>3. CASE cut
  <2>1. file # <<>>  BY <1>3 DEF SessionInv, FileInv
  <2>2. Len(file) \in DOMAIN file  BY <1>2, <2>1
  <2>3. file' = [file EXCEPT ![Len(file)] = Garbage]  BY <1>1, <1>3
  <2>4. file' \in Seq(Lines) /\ DOMAIN file' = DOMAIN file /\ file'[Len(file)] = Garbage
    BY <1>2, <2>2, <2>3
  <2>5. file' # <<>> /\ ~Loadable'  BY <2>2, <2>4 DEF Loadable
  <2>6. joined'  BY <1>1, <1>3
  <2> QED  BY <1>1, <2>4, <2>5, <2>6
<1>4. CASE ~cut
  <2>1. file' = Append(file, line)  BY <1>1, <1>4
  <2>2. /\ file' \in Seq(Lines) /\ DOMAIN file' = 1..(Len(file) + 1)
        /\ Len(file') = Len(file) + 1
        /\ \A i \in DOMAIN file : file'[i] = file[i]
        /\ file'[Len(file) + 1] = line
    BY <1>2, <2>1, AppendFacts
  <2>3. file' # <<>>  BY <1>2, <2>2
  <2>4. CASE joined
    <3>1. PICK i \in DOMAIN file : file[i] = Garbage
      BY <2>4 DEF SessionInv, FileInv, Loadable
    <3>2. i \in DOMAIN file' /\ file'[i] = Garbage  BY <1>2, <2>2, <3>1
    <3>3. ~Loadable'  BY <3>2 DEF Loadable
    <3> QED  BY <1>1, <2>2, <2>3, <2>4, <3>3
  <2>5. CASE ~joined
    <3>1. \A i \in DOMAIN file : file[i] # Garbage
      BY <1>4, <2>5 DEF SessionInv, FileInv
    <3>2. Sound /\ Loadable
      BY <1>4, <2>5, <3>1 DEF SessionInv, FileInv, Sound, Loadable
    <3>3. \A x : InFile(x) => \E i \in DOMAIN file' : file'[i] = x
      BY <1>2, <2>2 DEF InFile
    <3>4. \A i \in DOMAIN file' : file'[i] = Garbage => i = Len(file') /\ line = Garbage
      BY <1>2, <2>2, <3>1
    <3>5. ~joined'  BY <1>1, <1>4, <2>5
    <3> QED  BY <1>1, <1>4, <2>1, <2>2, <2>3, <2>5, <3>2, <3>3, <3>4, <3>5
  <2> QED  BY <2>4, <2>5
<1> QED  BY <1>3, <1>4

\* The line of an operation reaches the file.
LEMMA LandKeeps ==
    ASSUME SessionInv, NEW c \in Callers, Land(c)
    PROVE  SessionInv'
<1> DEFINE e == EntryOf(ops[c])
           o == [ops[c] EXCEPT !.at = "landed"]
<1>0. /\ ops \in [Callers -> OpRecord] /\ ops[c] \in OpRecord /\ file \in Seq(Lines)
      /\ entries \in Seq(Entry) /\ OpOK(ops[c])
  BY Types DEF SessionInv, TreeInv
<1>1. /\ ops[c].at = "write" /\ ops' = [ops EXCEPT ![c] = o] /\ WriteLine(e, FALSE)
      /\ UNCHANGED <<up, storageVars, window, made, acked, faultVars, overlaps>>
  BY DEF Land, SetOp
<1>2. e \in Entry /\ e \in Lines /\ e.parent \in Known /\ e.target \in Known
  BY <1>0, <1>1 DEF OpOK, EntryOf, Lines
<1>3. /\ o \in OpRecord /\ o.at = "landed" /\ EntryOf(o) = e
      /\ o.parent = ops[c].parent /\ o.target = ops[c].target
  BY <1>0 DEF OpRecord, Steps, EntryOf
<1> HIDE DEF e, o
<1>4. /\ ops' \in [Callers -> OpRecord]
      /\ \A d \in Callers : ops'[d] = IF d = c THEN o ELSE ops[d]
  BY <1>0, <1>1, <1>3
<1>5. /\ Landed' = Landed \union {c} /\ c \notin Landed
      /\ \A d \in Landed : ops'[d] = ops[d]
  BY <1>1, <1>3, <1>4 DEF Landed
<1>6. up  BY <1>1, IdleType DEF SessionInv, DownInv
<1>7. /\ file' \in Seq(Lines) /\ cut' = FALSE /\ joined' \in BOOLEAN
      /\ joined' => ~Loadable'
      /\ ~joined' => /\ ~joined /\ ~cut /\ Sound /\ Loadable /\ file' = Append(file, e)
                     /\ \A i \in DOMAIN file' : file'[i] = Garbage => i = Len(file') /\ e = Garbage
  BY <1>1, <1>2, WriteFacts
<1>8. TypeOK'
  BY <1>1, <1>4, <1>7 DEF SessionInv, TypeOK, OpRecord
<1>9. TreeInv'
  <2>1. ParentsPrecede' /\ Known' = Known
    BY <1>1 DEF SessionInv, TreeInv, ParentsPrecede, Known
  <2>2. \A d \in Callers : OpOK(ops[d])  BY DEF SessionInv, TreeInv
  <2>3. OpOK(o)  BY <1>0, <1>2, <1>3 DEF OpOK
  <2>4. \A d \in Callers : OpOK(ops'[d])  BY <1>4, <2>2, <2>3
  <2>5. \A d \in Callers : OpOK(ops[d])'  BY <2>1, <2>4 DEF OpOK
  <2> QED  BY <2>1, <2>5 DEF TreeInv
<1>10. CASE joined'
  <2>1. FileInv'  BY <1>7, <1>10 DEF FileInv, AckedIsDurable
  <2>2. DownInv' /\ CountInv'  BY <1>1, <1>6, <1>10 DEF DownInv, CountInv, Sound
  <2>3. AloneInv'
    BY <1>1, <1>3, <1>4, <1>10 DEF SessionInv, AloneInv, Sound
  <2> QED  BY <1>8, <1>9, <2>1, <2>2, <2>3 DEF SessionInv
<1>11. CASE ~joined'
  <2>1. /\ ~cut /\ ~torn /\ ~joined /\ Sound /\ Loadable /\ file' = Append(file, e)
        /\ file \in Seq(Entry) /\ Precede(file) /\ ~torn'
    BY <1>1, <1>7, <1>11, LoadableEntries DEF SessionInv, FileInv, Sound
  <2>2. /\ DOMAIN file' = 1..(Len(file) + 1) /\ DOMAIN file = 1..Len(file)
        /\ Len(file) \in Nat /\ Len(file') = Len(file) + 1
        /\ \A i \in DOMAIN file : file'[i] = file[i] /\ file[i] \in Entry
        /\ file'[Len(file) + 1] = e
    BY <1>2, <2>1, AppendFacts
  <2>3. Loadable'
    <3>1. Garbage \notin Entry  BY DEF Garbage, Entry
    <3>2. \A i \in DOMAIN file' : file'[i] \in Entry  BY <1>2, <2>2
    <3> QED  BY <3>1, <3>2 DEF Loadable
  <2>4. \A x : InFile(x) => \E i \in DOMAIN file' : file'[i] = x  BY <2>2 DEF InFile
  <2>5. \E i \in DOMAIN file' : file'[i] = e
    <3>1. Len(file) + 1 \in DOMAIN file'  BY <2>2
    <3> QED  BY <2>2, <3>1
  <2>6. FileInv'
    <3>1. KnownIds(entries) \subseteq KnownIds(file)
      <4>1. \A i \in DOMAIN entries : InFile(entries[i])  BY <2>1 DEF SessionInv, FileInv
      <4> QED  BY <4>1 DEF KnownIds, InFile
    <3>2. Precede(file')
      BY <1>2, <2>1, <3>1, PrecedeAppend DEF Known
    <3>3. \A i \in DOMAIN entries : InFile(entries[i])'
      <4>1. \A i \in DOMAIN entries : InFile(entries[i])  BY <2>1 DEF SessionInv, FileInv
      <4> QED  BY <1>1, <2>4, <4>1 DEF InFile
    <3>4. \A d \in Landed' : InFile(EntryOf(ops[d]))'
      <4>1. \A d \in Landed : InFile(EntryOf(ops[d]))  BY <2>1 DEF SessionInv, FileInv
      <4>2. \A d \in Landed' : \E i \in DOMAIN file' : file'[i] = EntryOf(ops'[d])
        BY <1>3, <1>4, <1>5, <2>4, <2>5, <4>1
      <4> QED  BY <4>2 DEF InFile
    <3>5. AckedIsDurable'
      BY <1>1, <2>1, <2>4 DEF SessionInv, FileInv, AckedIsDurable, InFile
    <3>6. \A i \in DOMAIN file' : file'[i] # Garbage  BY <2>3 DEF Loadable
    <3> QED  BY <1>1, <1>7, <1>11, <2>1, <3>2, <3>3, <3>4, <3>5, <3>6 DEF FileInv
  <2>7. DownInv'  BY <1>1, <1>6 DEF DownInv
  <2>8. CountInv'
    <3>1. /\ IsFiniteSet(Landed) /\ Len(file) = Len(entries) + Cardinality(Landed)
          /\ \A i \in DOMAIN file : \/ \E j \in DOMAIN entries : entries[j] = file[i]
                                    \/ \E d \in Landed : EntryOf(ops[d]) = file[i]
      BY <1>6, <2>1 DEF SessionInv, CountInv
    <3>2. IsFiniteSet(Landed') /\ Cardinality(Landed') = Cardinality(Landed) + 1
          /\ Cardinality(Landed) \in Nat
      BY <1>5, <3>1, LandedFinite, FS_CardinalityType
    <3>3. Len(file') = Len(entries') + Cardinality(Landed')
      BY <1>0, <1>1, <2>2, <3>1, <3>2
    <3>4. ASSUME NEW i \in DOMAIN file'
          PROVE  \/ \E j \in DOMAIN entries : entries[j] = file'[i]
                 \/ \E d \in Landed' : EntryOf(ops'[d]) = file'[i]
      <4>1. CASE i \in DOMAIN file
        BY <1>5, <2>2, <3>1, <4>1
      <4>2. CASE i = Len(file) + 1
        BY <1>3, <1>4, <1>5, <2>2, <4>2
      <4> QED  BY <2>2, <4>1, <4>2
    <3> QED  BY <1>1, <3>2, <3>3, <3>4 DEF CountInv
  <2>9. AloneInv'
    <3>1. SUFFICES ASSUME overlaps = 0 PROVE AloneInv'
      BY <1>1 DEF AloneInv
    <3>2. /\ \A d, f \in Callers : ops[d].at # "idle" /\ ops[f].at # "idle" => d = f
          /\ currentLeafId = LeafOf(entries)
          /\ Landed = {} => file = entries
      BY <1>6, <2>1, <3>1 DEF SessionInv, AloneInv
    <3>3. \A d \in Landed : FALSE
      BY <1>1, <1>5, <3>2 DEF Landed
    <3>4. file' = Append(entries, e) /\ Landed' = {c}
      BY <1>5, <2>1, <3>2, <3>3
    <3>5. \A d, f \in Callers : ops'[d].at # "idle" /\ ops'[f].at # "idle" => d = f
      BY <1>1, <1>3, <1>4, <3>2
    <3> QED  BY <1>1, <1>3, <1>4, <3>2, <3>4, <3>5 DEF AloneInv
  <2> QED  BY <1>8, <1>9, <2>6, <2>7, <2>8, <2>9 DEF SessionInv
<1> QED  BY <1>10, <1>11

\* The promise of an append is handled: memory gets the entry that the file has.
LEMMA HandledKeeps ==
    ASSUME SessionInv, NEW c \in Callers, EntryLanded(c) \/ LeafLanded(c)
    PROVE  SessionInv'
<1> DEFINE e == EntryOf(ops[c])
<1>0. /\ ops \in [Callers -> OpRecord] /\ ops[c] \in OpRecord /\ file \in Seq(Lines)
      /\ entries \in Seq(Entry) /\ OpOK(ops[c]) /\ acked \subseteq Entry
  BY Types DEF SessionInv, TreeInv
<1>1. /\ ops[c].at = "landed" /\ entries' = Append(entries, e)
      /\ currentLeafId' = leafIdAfterEntry(e) /\ acked' = acked \union {e}
      /\ UNCHANGED <<fileVars, up, window, made, faultVars, overlaps>>
  BY DEF EntryLanded, LeafLanded, EntryOf, leafIdAfterEntry
<1>2. e \in Entry /\ e.parent \in Known /\ e.target \in Known
      /\ e.target = ops[c].target /\ e.target \in Ids \union {NoId}
  BY <1>0, <1>1 DEF OpOK, EntryOf, OpRecord
<1>3. PICK o \in OpRecord : /\ ops' = [ops EXCEPT ![c] = o] /\ o.at \in {"idle", "summary"}
                            /\ o.parent = NoId /\ o.target \in {NoId, e.target}
  <2>1. CASE EntryLanded(c)
    BY <2>1, IdleType DEF EntryLanded, SetOp
  <2>2. CASE LeafLanded(c)
    <3>1. AfterMove(ops[c]) \in OpRecord /\ AfterMove(ops[c]).at \in {"idle", "summary"}
          /\ AfterMove(ops[c]).parent = NoId
          /\ AfterMove(ops[c]).target \in {NoId, ops[c].target}
      BY <1>0, IdleType DEF AfterMove, OpRecord, Steps, Idle
    <3> QED  BY <1>2, <2>2, <3>1 DEF LeafLanded, SetOp
  <2> QED  BY <2>1, <2>2
<1> HIDE DEF e
<1>4. /\ ops' \in [Callers -> OpRecord]
      /\ \A d \in Callers : ops'[d] = IF d = c THEN o ELSE ops[d]
  BY <1>0, <1>3
<1>5. /\ Landed' = Landed \ {c} /\ c \in Landed
      /\ \A d \in Landed' : ops'[d] = ops[d] /\ d \in Landed
  BY <1>1, <1>3, <1>4 DEF Landed
<1>6. up  BY <1>1, IdleType DEF SessionInv, DownInv
<1>7. /\ entries' \in Seq(Entry) /\ KnownIds(entries') = KnownIds(entries) \union {e.id}
      /\ DOMAIN entries' = 1..(Len(entries) + 1) /\ DOMAIN entries = 1..Len(entries)
      /\ Len(entries') = Len(entries) + 1 /\ Len(entries) \in Nat
      /\ \A i \in DOMAIN entries : entries'[i] = entries[i]
      /\ entries'[Len(entries) + 1] = e
  BY <1>0, <1>1, <1>2, AppendFacts, KnownAppend
<1>8. TypeOK'
  <2>1. currentLeafId' \in Ids \union {NoId}
    BY <1>1, <1>2 DEF leafIdAfterEntry, Entry
  <2>2. acked' \subseteq Entry  BY <1>0, <1>1, <1>2
  <2> QED  BY <1>1, <1>4, <1>7, <2>1, <2>2 DEF SessionInv, TypeOK, OpRecord
<1>9. TreeInv'
  <2>1. Known' = Known \union {e.id}  BY <1>7 DEF Known
  <2>2. \A d \in Callers : OpOK(ops[d])  BY DEF SessionInv, TreeInv
  <2>3. \A d \in Callers : OpOK(ops[d])'
    <3>1. ASSUME NEW d \in Callers, d # c PROVE OpOK(ops[d])'
      BY <1>4, <2>1, <2>2, <3>1 DEF OpOK
    <3>2. OpOK(ops[c])'
      BY <1>2, <1>3, <1>4, <2>1 DEF OpOK, Known
    <3> QED  BY <3>1, <3>2
  <2>4. Precede(entries)  BY DEF SessionInv, TreeInv, ParentsPrecede, Precede
  <2>5. Precede(entries')  BY <1>0, <1>1, <1>2, <2>4, PrecedeAppend DEF Known
  <2>6. currentLeafId' \in KnownIds(entries') \union {NoId}
    BY <1>1, <1>2, <1>7 DEF leafIdAfterEntry, Known
  <2>7. ParentsPrecede'  BY <2>5, <2>6 DEF ParentsPrecede, Precede
  <2> QED  BY <2>3, <2>7 DEF TreeInv
<1>10. ~joined => InFile(e)  BY <1>5 DEF SessionInv, FileInv, e
<1>11. FileInv'
  <2>1. Loadable' <=> Loadable  BY <1>1 DEF Loadable
  <2>2. ASSUME NEW i \in DOMAIN entries', ~joined PROVE \E j \in DOMAIN file : file[j] = entries'[i]
    <3>1. CASE i \in DOMAIN entries
      BY <1>7, <2>2, <3>1 DEF SessionInv, FileInv, InFile
    <3>2. CASE i = Len(entries) + 1
      BY <1>7, <1>10, <2>2, <3>2 DEF InFile
    <3> QED  BY <1>7, <3>1, <3>2
  <2>3. ~joined => \A d \in Landed' : \E j \in DOMAIN file : file[j] = EntryOf(ops'[d])
    BY <1>5 DEF SessionInv, FileInv, InFile
  <2>4. AckedIsDurable'
    <3>1. ~joined => InFile(e) /\ \A x \in acked : InFile(x)
      BY <1>10 DEF SessionInv, FileInv, AckedIsDurable, InFile
    <3> QED  BY <1>1, <3>1 DEF AckedIsDurable, InFile
  <2> QED  BY <1>1, <2>1, <2>2, <2>3, <2>4 DEF SessionInv, FileInv, InFile
<1>12. DownInv'  BY <1>1, <1>6 DEF DownInv
<1>13. CountInv'
  <2>1. SUFFICES ASSUME Sound PROVE CountInv'  BY <1>1 DEF CountInv, Sound
  <2>2. /\ IsFiniteSet(Landed) /\ Len(file) = Len(entries) + Cardinality(Landed)
        /\ \A i \in DOMAIN file : \/ \E j \in DOMAIN entries : entries[j] = file[i]
                                  \/ \E d \in Landed : EntryOf(ops[d]) = file[i]
    BY <1>6, <2>1 DEF SessionInv, CountInv
  <2>3. IsFiniteSet(Landed') /\ Cardinality(Landed') = Cardinality(Landed) - 1
        /\ Cardinality(Landed) \in Nat
    BY <1>5, <2>2, FS_RemoveElement, FS_CardinalityType
  <2>4. Len(file) = Len(entries') + Cardinality(Landed')
    BY <1>7, <2>2, <2>3
  <2>5. ASSUME NEW i \in DOMAIN file
        PROVE  \/ \E j \in DOMAIN entries' : entries'[j] = file[i]
               \/ \E d \in Landed' : EntryOf(ops'[d]) = file[i]
    <3>1. CASE \E j \in DOMAIN entries : entries[j] = file[i]
      BY <1>7, <3>1
    <3>2. CASE \E d \in Landed : EntryOf(ops[d]) = file[i]
      <4>1. PICK d \in Landed : EntryOf(ops[d]) = file[i]  BY <3>2
      <4>2. CASE d = c
        <5>1. Len(entries) + 1 \in DOMAIN entries'  BY <1>7
        <5> QED  BY <1>7, <4>1, <4>2, <5>1 DEF e
      <4>3. CASE d # c
        BY <1>5, <4>1, <4>3
      <4> QED  BY <4>2, <4>3
    <3> QED  BY <2>2, <3>1, <3>2
  <2> QED  BY <1>1, <2>3, <2>4, <2>5 DEF CountInv
<1>14. AloneInv'
  <2>1. SUFFICES ASSUME overlaps = 0 PROVE AloneInv'
    BY <1>1 DEF AloneInv
  <2>2. \A d, f \in Callers : ops[d].at # "idle" /\ ops[f].at # "idle" => d = f
    BY <2>1 DEF SessionInv, AloneInv
  <2>3. Landed' = {}
    BY <1>1, <1>5, <2>2 DEF Landed
  <2>4. \A d, f \in Callers : ops'[d].at # "idle" /\ ops'[f].at # "idle" => d = f
    BY <1>1, <1>4, <2>2
  <2>5. Sound => file = entries'
    BY <1>1, <1>5, <1>6, <2>1 DEF SessionInv, AloneInv, e
  <2>6. currentLeafId' = LeafOf(entries')
    BY <1>0, <1>1, <1>2, LeafAppend
  <2> QED  BY <1>1, <2>3, <2>4, <2>5, <2>6 DEF AloneInv, Sound
<1> QED  BY <1>8, <1>9, <1>11, <1>12, <1>13, <1>14 DEF SessionInv

\* A line that is cut is garbage, or an entry that refers to entries of the file.
LEMMA CutLineFacts ==
    ASSUME SessionInv, NEW c \in Callers, CutLine(c)
    PROVE  /\ up /\ file' \in Seq(Lines) /\ cut' = TRUE /\ file' # <<>> /\ joined' \in BOOLEAN
           /\ joined' => ~Loadable'
           /\ ~joined' => /\ ~joined /\ Loadable /\ Sound
                          /\ \A x : InFile(x) => \E i \in DOMAIN file' : file'[i] = x
                          /\ \A i \in DOMAIN file' : file'[i] = Garbage => i = Len(file')
           /\ Loadable' => Precede(file') /\ WriteLine(EntryOf(ops[c]), TRUE)
<1>1. PICK line \in {Garbage, EntryOf(ops[c])} : WriteLine(line, TRUE)  BY DEF CutLine
<1>2. /\ ops[c].at = "write" /\ OpOK(ops[c]) /\ up
  BY IdleType DEF CutLine, SessionInv, TreeInv, DownInv
<1>3. /\ EntryOf(ops[c]) \in Entry /\ EntryOf(ops[c]).parent \in Known
      /\ EntryOf(ops[c]).target \in Known
  BY <1>2 DEF OpOK, EntryOf
<1>4. line \in Lines  BY <1>3 DEF Lines
<1>5. /\ file' \in Seq(Lines) /\ cut' = TRUE /\ file' # <<>> /\ joined' \in BOOLEAN
      /\ joined' => ~Loadable'
      /\ ~joined' => /\ ~joined /\ Loadable /\ Sound /\ file' = Append(file, line)
                     /\ \A x : InFile(x) => \E i \in DOMAIN file' : file'[i] = x
                     /\ \A i \in DOMAIN file' : file'[i] = Garbage => i = Len(file')
  BY <1>1, <1>4, WriteFacts
<1>6. ASSUME Loadable' PROVE Precede(file') /\ WriteLine(EntryOf(ops[c]), TRUE)
  <2>1. ~joined' /\ ~joined /\ Loadable /\ file' = Append(file, line)  BY <1>5, <1>6
  <2>2. line # Garbage
    <3>1. Len(file) + 1 \in DOMAIN file' /\ file'[Len(file) + 1] = line
      BY <1>4, <2>1, Types, AppendFacts
    <3> QED  BY <1>6, <3>1 DEF Loadable
  <2>3. line = EntryOf(ops[c])  BY <2>2
  <2>4. file \in Seq(Entry) /\ Precede(file)
    BY <2>1, LoadableEntries DEF SessionInv, FileInv
  <2>5. KnownIds(entries) \subseteq KnownIds(file)
    <3>1. \A i \in DOMAIN entries : InFile(entries[i])  BY <2>1 DEF SessionInv, FileInv
    <3> QED  BY <3>1 DEF KnownIds, InFile
  <2> QED  BY <1>1, <1>3, <2>1, <2>3, <2>4, <2>5, PrecedeAppend DEF Known
<1> QED  BY <1>2, <1>5, <1>6

LEMMA FailKeeps ==
    ASSUME SessionInv, NEW c \in Callers, AppendFails(c)
    PROVE  SessionInv'
<1>1. /\ ops[c].at = "write" /\ failures' = failures + 1 /\ ops' = [ops EXCEPT ![c] = Idle]
      /\ UNCHANGED <<fileVars, torn>> \/ (CutLine(c) /\ torn' = TRUE)
      /\ UNCHANGED <<up, storageVars, window, made, acked, crashes, overlaps>>
  BY DEF AppendFails, SetOp
<1>2. /\ ops' \in [Callers -> OpRecord]
      /\ \A d \in Callers : ops'[d] = IF d = c THEN Idle ELSE ops[d]
  BY <1>1, IdleType, Types
<1>3. Landed' = Landed /\ \A d \in Landed : ops'[d] = ops[d]
  BY <1>1, <1>2, IdleType DEF Landed
<1>4. up  BY <1>1, IdleType DEF SessionInv, DownInv
<1>5. TreeInv'
  <2>1. ParentsPrecede' /\ Known' = Known /\ NoId \in Known
    BY <1>1 DEF SessionInv, TreeInv, ParentsPrecede, Known
  <2>2. \A d \in Callers : OpOK(ops[d])  BY DEF SessionInv, TreeInv
  <2>3. \A d \in Callers : OpOK(ops[d])'
    BY <1>2, <2>1, <2>2, IdleType DEF OpOK
  <2> QED  BY <2>1, <2>3 DEF TreeInv
<1>6. DownInv'  BY <1>1, <1>4 DEF DownInv
<1>7. \A d, f \in Callers : overlaps = 0 /\ ops'[d].at # "idle" /\ ops'[f].at # "idle" => d = f
  BY <1>2, IdleType DEF SessionInv, AloneInv
<1>8. CASE UNCHANGED <<fileVars, torn>>
  <2>1. TypeOK'
    BY <1>1, <1>2, <1>8 DEF SessionInv, TypeOK, OpRecord
  <2>2. FileInv'
    <3>1. Loadable' <=> Loadable  BY <1>8 DEF Loadable
    <3>2. \A d \in Landed' : EntryOf(ops'[d]) = EntryOf(ops[d]) /\ d \in Landed  BY <1>3
    <3> QED  BY <1>1, <1>8, <3>1, <3>2 DEF SessionInv, FileInv, InFile, AckedIsDurable
  <2>3. CountInv'  BY <1>1, <1>3, <1>8 DEF SessionInv, CountInv, Sound
  <2>4. AloneInv'  BY <1>1, <1>3, <1>7, <1>8 DEF SessionInv, AloneInv, Sound
  <2> QED  BY <1>5, <1>6, <2>1, <2>2, <2>3, <2>4 DEF SessionInv
<1>9. CASE CutLine(c) /\ torn' = TRUE
  <2>1. /\ file' \in Seq(Lines) /\ cut' = TRUE /\ file' # <<>> /\ joined' \in BOOLEAN
        /\ joined' => ~Loadable'
        /\ ~joined' => /\ ~joined
                       /\ \A x : InFile(x) => \E i \in DOMAIN file' : file'[i] = x
                       /\ \A i \in DOMAIN file' : file'[i] = Garbage => i = Len(file')
        /\ Loadable' => Precede(file')
    BY <1>9, CutLineFacts
  <2>2. TypeOK'
    BY <1>1, <1>2, <1>9, <2>1 DEF SessionInv, TypeOK, OpRecord
  <2>3. FileInv'
    <3>1. ~joined' => \A i \in DOMAIN entries' : \E j \in DOMAIN file' : file'[j] = entries'[i]
      BY <1>1, <2>1 DEF SessionInv, FileInv, InFile
    <3>2. ~joined' => \A d \in Landed' : \E j \in DOMAIN file' : file'[j] = EntryOf(ops'[d])
      <4>1. ~joined => \A d \in Landed : InFile(EntryOf(ops[d]))  BY DEF SessionInv, FileInv
      <4>2. ~joined' => \A d \in Landed : \E j \in DOMAIN file' : file'[j] = EntryOf(ops[d])
        BY <2>1, <4>1
      <4> QED  BY <1>3, <4>2
    <3>3. AckedIsDurable'
      BY <1>1, <2>1 DEF SessionInv, FileInv, AckedIsDurable, InFile
    <3> QED  BY <1>9, <2>1, <3>1, <3>2, <3>3 DEF FileInv, InFile
  <2>4. CountInv'  BY <1>9 DEF CountInv, Sound
  <2>5. AloneInv'  BY <1>1, <1>7, <1>9 DEF AloneInv, Sound
  <2> QED  BY <1>5, <1>6, <2>2, <2>3, <2>4, <2>5 DEF SessionInv
<1> QED  BY <1>1, <1>8, <1>9

LEMMA CrashKeeps ==
    ASSUME SessionInv, Crash
    PROVE  SessionInv'
<1>1. /\ up' = FALSE /\ crashes' = crashes + 1
      /\ UNCHANGED fileVars \/ (\E c \in Callers : CutLine(c))
      /\ torn' = FALSE
      /\ ops' = [d \in Callers |-> Idle] /\ entries' = <<>> /\ currentLeafId' = NoId
      /\ UNCHANGED <<window, made, acked, failures, overlaps>>
  BY DEF Crash
<1>2. /\ ops' \in [Callers -> OpRecord] /\ \A d \in Callers : ops'[d] = Idle
  BY <1>1, IdleType
<1>3. Landed' = {} /\ DOMAIN entries' = {} /\ entries' \in Seq(Entry)
  BY <1>1, <1>2, IdleType DEF Landed
<1>4. TreeInv'
  BY <1>1, <1>2, <1>3, IdleType DEF TreeInv, ParentsPrecede, OpOK, Known
<1>5. DownInv' /\ CountInv'
  BY <1>1, <1>2 DEF DownInv, CountInv
<1>6. AloneInv'
  BY <1>1, <1>2, IdleType DEF AloneInv
<1>7. file' \in Seq(Lines) /\ cut' \in BOOLEAN /\ joined' \in BOOLEAN
  <2>1. CASE UNCHANGED fileVars  BY <2>1 DEF SessionInv, TypeOK
  <2>2. CASE \E c \in Callers : CutLine(c)  BY <2>2, CutLineFacts
  <2> QED  BY <1>1, <2>1, <2>2
<1>8. TypeOK'
  <2>1. crashes' \in Nat  BY <1>1, Types
  <2>2. up' \in BOOLEAN /\ torn' \in BOOLEAN
    BY <1>1, Zenon DEF SessionInv, TypeOK
  <2>3. /\ currentLeafId' \in Ids \union {NoId} /\ window' \in 1..MaxWindows
        /\ made' \in 0..MaxEntries /\ acked' \subseteq Entry
        /\ overlaps' \in 0..MaxOverlaps /\ failures' \in Nat
    BY <1>1, Types
  <2>4. ops' \in [Callers -> OpRecord]  BY <1>2
  <2> QED  BY <1>3, <1>7, <2>1, <2>2, <2>3, <2>4, Zenon DEF TypeOK, OpRecord
<1>9. FileInv'
  <2>1. CASE UNCHANGED fileVars
    <3>1. Loadable' <=> Loadable  BY <2>1 DEF Loadable
    <3> QED  BY <1>1, <1>3, <2>1, <3>1 DEF SessionInv, FileInv, InFile, AckedIsDurable
  <2>2. CASE \E c \in Callers : CutLine(c)
    <3>1. PICK c \in Callers : CutLine(c)  BY <2>2
    <3>2. /\ cut' = TRUE /\ file' # <<>> /\ (joined' => ~Loadable')
          /\ ~joined' => /\ ~joined
                         /\ \A x : InFile(x) => \E i \in DOMAIN file' : file'[i] = x
                         /\ \A i \in DOMAIN file' : file'[i] = Garbage => i = Len(file')
          /\ Loadable' => Precede(file')
      BY <3>1, CutLineFacts
    <3>3. AckedIsDurable'
      BY <1>1, <3>2 DEF SessionInv, FileInv, AckedIsDurable, InFile
    <3> QED  BY <1>1, <1>3, <3>2, <3>3 DEF FileInv
  <2> QED  BY <1>1, <2>1, <2>2
<1> QED  BY <1>4, <1>5, <1>6, <1>8, <1>9 DEF SessionInv

LEMMA OpenKeeps ==
    ASSUME SessionInv, Open
    PROVE  SessionInv'
<1>1. /\ ~up /\ Loadable /\ up' = TRUE /\ entries' = file /\ currentLeafId' = LeafOf(file)
      /\ UNCHANGED <<fileVars, ops, window, made, acked, faultVars, overlaps>>
  BY DEF Open
<1>2. file \in Seq(Entry) /\ Precede(file) /\ \A d \in Callers : ops[d] = Idle
  BY <1>1, LoadableEntries DEF SessionInv, FileInv, DownInv
<1>3. LeafOf(file) \in KnownIds(file) \union {NoId}  BY <1>2, LeafKnown
<1>4. KnownIds(file) \subseteq Ids
  <2>1. \A i \in DOMAIN file : file[i] \in Entry  BY <1>2
  <2> QED  BY <2>1 DEF KnownIds, Entry
<1>5. Landed' = {}  BY <1>1, <1>2, IdleType DEF Landed
<1>6. TypeOK'
  BY <1>1, <1>2, <1>3, <1>4 DEF SessionInv, TypeOK
<1>7. TreeInv'
  BY <1>1, <1>2, <1>3, IdleType DEF TreeInv, ParentsPrecede, Precede, OpOK, Known
<1>8. FileInv'
  <2>1. Loadable' /\ ~joined'  BY <1>1 DEF Loadable, SessionInv, FileInv
  <2>2. \A i \in DOMAIN file' : file'[i] # Garbage  BY <2>1 DEF Loadable
  <2> QED
    BY <1>1, <1>2, <1>5, <2>1, <2>2 DEF SessionInv, FileInv, InFile, AckedIsDurable
<1>9. DownInv'  BY <1>1 DEF DownInv
<1>10. CountInv'
  <2>1. IsFiniteSet(Landed') /\ Cardinality(Landed') = 0  BY <1>5, FS_EmptySet
  <2>2. Len(file) \in Nat  BY <1>2
  <2> QED  BY <1>1, <2>1, <2>2 DEF CountInv
<1>11. AloneInv'
  BY <1>1, <1>2, <1>5, IdleType DEF AloneInv
<1> QED  BY <1>6, <1>7, <1>8, <1>9, <1>10, <1>11 DEF SessionInv

LEMMA StillKeeps ==
    ASSUME SessionInv, NextWindow \/ UNCHANGED vars
    PROVE  SessionInv'
<1>1. /\ window' \in 1..MaxWindows
      /\ UNCHANGED <<fileVars, up, storageVars, ops, made, acked, faultVars, overlaps>>
  <2>1. window \in 1..MaxWindows /\ MaxWindows \in Nat  BY Types, SessionAssumption
  <2> QED  BY <2>1 DEF NextWindow
<1>2. TypeOK'  BY <1>1 DEF SessionInv, TypeOK
<1>3. TreeInv'  BY <1>1 DEF SessionInv, TreeInv, ParentsPrecede, OpOK, Known
<1>4. Landed' = Landed /\ (Loadable' <=> Loadable)  BY <1>1 DEF Landed, Loadable
<1>5. FileInv'  BY <1>1, <1>4 DEF SessionInv, FileInv, InFile, AckedIsDurable
<1>6. DownInv' /\ CountInv' /\ AloneInv'
  BY <1>1, <1>4 DEF SessionInv, DownInv, CountInv, AloneInv, Sound
<1> QED  BY <1>2, <1>3, <1>5, <1>6 DEF SessionInv

LEMMA SessionInductive == SessionInv /\ [Next]_vars => SessionInv'
<1> SUFFICES ASSUME SessionInv, [Next]_vars PROVE SessionInv'
  OBVIOUS
<1>1. ASSUME NEW c \in Callers, Call(c) PROVE SessionInv'
  BY <1>1, CallStep, CallKeeps
<1>2. ASSUME NEW c \in Callers, Write(c) PROVE SessionInv'
  BY <1>2, LandKeeps, HandledKeeps, FailKeeps DEF Write
<1>3. CASE Crash  BY <1>3, CrashKeeps
<1>4. CASE Open  BY <1>4, OpenKeeps
<1>5. CASE NextWindow \/ UNCHANGED vars  BY <1>5, StillKeeps
<1> QED  BY <1>1, <1>2, <1>3, <1>4, <1>5 DEF Next

-----------------------------------------------------------------------------
\* The paths of a tree

LEMMA NatSetInduction ==
    ASSUME NEW S, 0 \in S, \A n \in Nat : n \in S => n + 1 \in S
    PROVE  Nat \subseteq S
<1> SUFFICES ASSUME NEW m \in Nat, m \notin S PROVE FALSE  OBVIOUS
<1> DEFINE R == OpToRel(<, Nat)
           out == Nat \ S
<1>1. IsWellFoundedOn(R, Nat)  BY NatLessThanWellFounded
<1>2. PICK n \in out : \A k \in out : ~(<<k, n>> \in R)
  <2>1. out # {} /\ out \subseteq Nat  OBVIOUS
  <2> HIDE DEF R, out
  <2> QED  BY <1>1, <2>1, WFMin
<1>3. n # 0 /\ n \in Nat  OBVIOUS
<1>4. n - 1 \in Nat /\ n - 1 < n /\ n - 1 + 1 = n  BY <1>3
<1>5. n - 1 \in out  BY <1>4
<1>6. <<n - 1, n>> \in R  BY <1>3, <1>4 DEF OpToRel
<1> QED  BY <1>2, <1>5, <1>6

\* What the file is for one caller at a time: a tree whose entries have one id each.
OneId(s) == \A i, j \in DOMAIN s : s[i].id = s[j].id => i = j
Tree(s) == s \in Seq(Entry) /\ Precede(s) /\ OneId(s)

LEMMA PositionOf ==
    ASSUME NEW s, OneId(s), NEW i \in DOMAIN s
    PROVE  Position(s, s[i].id) = i
<1>1. \E j \in DOMAIN s : s[j].id = s[i].id  OBVIOUS
<1>2. Position(s, s[i].id) \in DOMAIN s /\ s[Position(s, s[i].id)].id = s[i].id
  BY <1>1 DEF Position
<1> QED  BY <1>2 DEF OneId

LEMMA ParentBefore ==
    ASSUME NEW s, Tree(s), NEW i \in DOMAIN s, s[i].parent # NoId
    PROVE  Position(s, s[i].parent) \in 1..(i - 1) /\ Position(s, s[i].parent) \in DOMAIN s
<1>1. PICK k \in 1..(i - 1) : s[i].parent = s[k].id  BY DEF Tree, Precede
<1>2. k \in DOMAIN s  BY <1>1 DEF Tree
<1> QED  BY <1>1, <1>2, PositionOf DEF Tree

\* The recursion of Paths, for the first m lines.
PathStep(s, f, i) ==
    IF s[i].parent = NoId THEN <<s[i].id>>
    ELSE Append(f[Position(s, s[i].parent)], s[i].id)
IsPaths(s, m, f) == f = [i \in 1..m |-> PathStep(s, f, i)]

LEMMA PathsExist ==
    ASSUME NEW s, Tree(s)
    PROVE  \E f : IsPaths(s, Len(s), f)
<1>0. Len(s) \in Nat /\ DOMAIN s = 1..Len(s)  BY DEF Tree
<1> DEFINE S == {m \in Nat : m <= Len(s) => \E f : IsPaths(s, m, f)}
<1>1. 0 \in S
  <2>1. IsPaths(s, 0, [i \in 1..0 |-> 0])  BY DEF IsPaths
  <2> QED  BY <2>1
<1>2. ASSUME NEW m \in Nat, m \in S PROVE m + 1 \in S
  <2> SUFFICES ASSUME m + 1 <= Len(s) PROVE \E f : IsPaths(s, m + 1, f)
    OBVIOUS
  <2>1. PICK f : IsPaths(s, m, f)  BY <1>0, <1>2
  <2> DEFINE g == [i \in 1..(m + 1) |-> PathStep(s, f, i)]
  <2>2. ASSUME NEW i \in 1..(m + 1) PROVE PathStep(s, f, i) = PathStep(s, g, i)
    <3>1. CASE s[i].parent = NoId  BY <3>1 DEF PathStep
    <3>2. CASE s[i].parent # NoId
      <4> DEFINE k == Position(s, s[i].parent)
      <4>1. i \in DOMAIN s  BY <1>0, <2>2
      <4>2. k \in 1..(i - 1)  BY <3>2, <4>1, ParentBefore
      <4>3. k \in 1..m /\ k \in 1..(m + 1)  BY <4>2, <2>2
      <4> HIDE DEF k
      <4>4. f[k] = PathStep(s, f, k)  BY <2>1, <4>3, Zenon DEF IsPaths
      <4>5. f[k] = g[k]  BY <4>3, <4>4
      <4> HIDE DEF g
      <4> QED  BY <3>2, <4>5 DEF PathStep, k
    <3> QED  BY <3>1, <3>2
  <2>3. g = [i \in 1..(m + 1) |-> PathStep(s, g, i)]
    <3> DEFINE h == [i \in 1..(m + 1) |-> PathStep(s, g, i)]
    <3>1. \A i \in 1..(m + 1) : g[i] = h[i]
      <4> SUFFICES ASSUME NEW i \in 1..(m + 1) PROVE g[i] = h[i]  OBVIOUS
      <4>1. g[i] = PathStep(s, f, i) /\ h[i] = PathStep(s, g, i)  BY Zenon
      <4> QED  BY <2>2, <4>1, Zenon
    <3>2. g = [i \in 1..(m + 1) |-> g[i]] /\ h = [i \in 1..(m + 1) |-> h[i]]  BY Zenon
    <3> HIDE DEF g, h
    <3>3. g = h  BY <3>1, <3>2
    <3> QED  BY <3>3 DEF h
  <2> HIDE DEF g
  <2> QED  BY <2>3 DEF IsPaths
<1>3. Len(s) \in S
  <2> HIDE DEF S
  <2>1. Nat \subseteq S  BY <1>1, <1>2, NatSetInduction
  <2> QED  BY <1>0, <2>1
<1> QED  BY <1>0, <1>3

LEMMA PathsAt ==
    ASSUME NEW s, Tree(s), NEW i \in DOMAIN s
    PROVE  Paths(s)[i] = PathStep(s, Paths(s), i)
<1>0. DOMAIN s = 1..Len(s)  BY DEF Tree
<1>1. PICK f : IsPaths(s, Len(s), f)  BY PathsExist
<1> DEFINE g == CHOOSE f0 : f0 = [j \in DOMAIN s |-> PathStep(s, f0, j)]
<1>2. f = [j \in DOMAIN s |-> PathStep(s, f, j)]  BY <1>0, <1>1, Zenon DEF IsPaths
<1>3. g = [j \in DOMAIN s |-> PathStep(s, g, j)]  BY <1>2, Zenon
<1>4. Paths(s) = g  BY Zenon DEF Paths, PathStep
<1> HIDE DEF g
<1>5. g[i] = PathStep(s, g, i)  BY <1>3, Zenon
<1> QED  BY <1>4, <1>5

\* A path has the ids of the tree.
LEMMA PathType ==
    ASSUME NEW s, Tree(s), NEW i \in DOMAIN s
    PROVE  Paths(s)[i] \in Seq(KnownIds(s))
<1>0. Len(s) \in Nat /\ DOMAIN s = 1..Len(s)  BY DEF Tree
<1> DEFINE S == {m \in Nat : \A j \in DOMAIN s : j <= m => Paths(s)[j] \in Seq(KnownIds(s))}
<1>1. 0 \in S  BY <1>0
<1>2. ASSUME NEW m \in Nat, m \in S PROVE m + 1 \in S
  <2> SUFFICES ASSUME NEW j \in DOMAIN s, j <= m + 1
               PROVE  Paths(s)[j] \in Seq(KnownIds(s))
    OBVIOUS
  <2>1. s[j].id \in KnownIds(s)  BY DEF KnownIds
  <2>2. Paths(s)[j] = PathStep(s, Paths(s), j)  BY PathsAt
  <2>3. CASE s[j].parent = NoId  BY <2>1, <2>2, <2>3 DEF PathStep
  <2>4. CASE s[j].parent # NoId
    <3> DEFINE k == Position(s, s[j].parent)
    <3>1. k \in 1..(j - 1) /\ k \in DOMAIN s  BY <2>4, ParentBefore
    <3>2. k <= m  BY <1>0, <3>1
    <3>3. Paths(s)[k] \in Seq(KnownIds(s))  BY <1>2, <3>1, <3>2
    <3> QED  BY <2>1, <2>2, <2>4, <3>3 DEF PathStep
  <2> QED  BY <2>3, <2>4
<1>3. Len(s) \in S
  <2> HIDE DEF S
  <2>1. Nat \subseteq S  BY <1>1, <1>2, NatSetInduction
  <2> QED  BY <1>0, <2>1
<1> QED  BY <1>0, <1>3

LEMMA PathToType ==
    ASSUME NEW s, Tree(s), NEW id \in KnownIds(s) \union {NoId}
    PROVE  /\ PathTo(s, id) \in Seq(KnownIds(s))
           /\ PathTo(s, id) \in {<<>>} \union {Paths(s)[i] : i \in DOMAIN s}
<1>1. CASE id = NoId  BY <1>1 DEF PathTo
<1>2. CASE id # NoId
  <2>1. PICK i \in DOMAIN s : s[i].id = id  BY <1>2 DEF KnownIds
  <2>2. PathTo(s, id) = Paths(s)[i]  BY <1>2, <2>1, PositionOf DEF PathTo, Tree
  <2> QED  BY <2>2, PathType
<1> QED  BY <1>1, <1>2

LEMMA PathToLine ==
    ASSUME NEW s, Tree(s), NEW i \in DOMAIN s, s[i].id # NoId
    PROVE  PathTo(s, s[i].id) = Paths(s)[i]
BY PositionOf DEF PathTo, Tree

\* A line that follows the others leaves their paths as they are.
LEMMA PathsAppend ==
    ASSUME NEW s \in Seq(Entry), NEW e \in Entry, Tree(s), Tree(Append(s, e))
    PROVE  /\ \A i \in DOMAIN s : Paths(Append(s, e))[i] = Paths(s)[i]
           /\ Paths(Append(s, e))[Len(s) + 1] = Append(PathTo(s, e.parent), e.id)
<1> DEFINE t == Append(s, e)
<1>0. /\ Len(s) \in Nat /\ DOMAIN s = 1..Len(s) /\ DOMAIN t = 1..(Len(s) + 1)
      /\ \A i \in DOMAIN s : t[i] = s[i]
      /\ t[Len(s) + 1] = e /\ Tree(t)
  BY AppendFacts
<1> HIDE DEF t
<1>1. ASSUME NEW id, NEW k \in DOMAIN s, s[k].id = id
      PROVE  Position(t, id) = k /\ Position(s, id) = k
  <2>1. k \in DOMAIN t /\ t[k].id = id  BY <1>0, <1>1
  <2> QED  BY <1>0, <1>1, <2>1, PositionOf DEF Tree
<1> DEFINE S == {m \in Nat : \A j \in DOMAIN s : j <= m => Paths(t)[j] = Paths(s)[j]}
<1>2. 0 \in S  BY <1>0
<1>3. ASSUME NEW m \in Nat, m \in S PROVE m + 1 \in S
  <2> SUFFICES ASSUME NEW j \in DOMAIN s, j <= m + 1 PROVE Paths(t)[j] = Paths(s)[j]
    OBVIOUS
  <2>1. j \in DOMAIN t /\ t[j] = s[j]  BY <1>0
  <2>2. /\ Paths(t)[j] = PathStep(t, Paths(t), j)
        /\ Paths(s)[j] = PathStep(s, Paths(s), j)
    BY <1>0, <2>1, PathsAt
  <2>3. CASE s[j].parent = NoId  BY <2>1, <2>2, <2>3 DEF PathStep
  <2>4. CASE s[j].parent # NoId
    <3>1. PICK k \in 1..(j - 1) : s[j].parent = s[k].id  BY <2>4 DEF Tree, Precede
    <3>2. k \in DOMAIN s /\ k <= m  BY <1>0, <3>1
    <3>3. Position(t, s[j].parent) = k /\ Position(s, s[j].parent) = k  BY <1>1, <3>1, <3>2
    <3>4. Paths(t)[k] = Paths(s)[k]  BY <1>3, <3>2
    <3> QED  BY <2>1, <2>2, <2>4, <3>3, <3>4 DEF PathStep
  <2> QED  BY <2>3, <2>4
<1>4. \A i \in DOMAIN s : Paths(t)[i] = Paths(s)[i]
  <2>1. Len(s) \in S
    <3> HIDE DEF S
    <3>1. Nat \subseteq S  BY <1>2, <1>3, NatSetInduction
    <3> QED  BY <1>0, <3>1
  <2> QED  BY <1>0, <2>1
<1>5. Paths(t)[Len(s) + 1] = Append(PathTo(s, e.parent), e.id)
  <2>0. Len(s) + 1 \in DOMAIN t  BY <1>0
  <2>1. Paths(t)[Len(s) + 1] = PathStep(t, Paths(t), Len(s) + 1)  BY <1>0, <2>0, PathsAt
  <2>2. CASE e.parent = NoId
    BY <1>0, <2>1, <2>2 DEF PathStep, PathTo
  <2>3. CASE e.parent # NoId
    <3>1. PICK k \in 1..(Len(s) + 1 - 1) : e.parent = t[k].id
      BY <1>0, <2>0, <2>3 DEF Tree, Precede
    <3>2. k \in DOMAIN s /\ s[k].id = e.parent  BY <1>0, <3>1
    <3>3. Position(t, e.parent) = k /\ Position(s, e.parent) = k  BY <1>1, <3>2
    <3>4. Paths(t)[k] = Paths(s)[k]  BY <1>4, <3>2
    <3> QED  BY <1>0, <2>1, <2>3, <3>3, <3>4 DEF PathStep, PathTo
  <2> QED  BY <2>2, <2>3
<1> QED  BY <1>4, <1>5 DEF t

-----------------------------------------------------------------------------
\* For one caller at a time the file is a tree and grows at its leaf.

\* A whole uuid that is in use was made before.
MadeBefore(id) == \A n \in Nat : id = WholeId(n) => n <= made

\* An operation has an id that the file does not have, and refers to the leaf
\* that is current when its line lands.
OpFresh(o) ==
    /\ o.at \in {"leaf", "write"} => o.id \notin KnownIds(file) /\ MadeBefore(o.id)
    /\ o.at = "write" => o.parent = currentLeafId
    /\ o.at = "summary" => o.target = currentLeafId

BranchInv ==
    Undisturbed /\ Loadable =>
        /\ OneId(file)
        /\ \A i \in DOMAIN file : MadeBefore(file[i].id)
        /\ Sound => \A c \in Callers : OpFresh(ops[c])

LEMMA InitBranch == Init => BranchInv
<1> SUFFICES ASSUME Init PROVE BranchInv  OBVIOUS
<1>1. DOMAIN file = {} /\ \A c \in Callers : ops[c].at = "idle"
  BY IdleType DEF Init
<1> QED  BY <1>1 DEF BranchInv, OneId, OpFresh

\* What holds while a call is under way that no other one overlaps.
LEMMA AloneFacts ==
    ASSUME SessionInv, Undisturbed, up, Sound
    PROVE  /\ Loadable /\ file \in Seq(Entry) /\ Precede(file)
           /\ currentLeafId = LeafOf(entries)
           /\ Landed = {} => file = entries
<1>1. ~torn /\ ~joined /\ overlaps = 0  BY DEF Undisturbed, Sound
<1>2. Loadable  BY <1>1 DEF SessionInv, FileInv, Loadable
<1>3. Precede(file)  BY <1>2 DEF SessionInv, FileInv
<1> QED  BY <1>1, <1>2, <1>3, LoadableEntries DEF SessionInv, AloneInv

LEMMA OneAtATime ==
    ASSUME SessionInv, Undisturbed, NEW c \in Callers, ops[c].at # "idle"
    PROVE  \A d \in Callers \ {c} : ops[d].at = "idle"
BY DEF SessionInv, AloneInv, Undisturbed

\* A new id is not in the file.
LEMMA NewIdFresh ==
    ASSUME SessionInv, BranchInv, Undisturbed, up, Sound, Landed = {}, made < MaxEntries
    PROVE  /\ generateEntryId \notin KnownIds(file)
           /\ \A n \in Nat : generateEntryId = WholeId(n) => n <= made + 1
<1>1. file = entries /\ Loadable  BY AloneFacts
<1>2. made \in Nat  BY Types
<1>3. CASE ShortId(window) \notin KnownIds(entries)
  BY <1>1, <1>3 DEF generateEntryId, ShortId, WholeId
<1>4. CASE ShortId(window) \in KnownIds(entries)
  <2>1. generateEntryId = WholeId(made + 1)  BY <1>4 DEF generateEntryId
  <2>2. ASSUME NEW i \in DOMAIN file, file[i].id = WholeId(made + 1) PROVE FALSE
    <3>1. made + 1 <= made  BY <1>1, <1>2, <2>2 DEF BranchInv, MadeBefore
    <3> QED  BY <1>2, <3>1
  <2>3. WholeId(made + 1) \notin KnownIds(file)  BY <2>2 DEF KnownIds
  <2>4. \A n \in Nat : WholeId(made + 1) = WholeId(n) => n <= made + 1
    BY <1>2 DEF WholeId
  <2> QED  BY <2>1, <2>3, <2>4
<1> QED  BY <1>3, <1>4

LEMMA MadeOn ==
    ASSUME NEW id, MadeBefore(id), made \in Nat, made' \in Nat, made <= made'
    PROVE  MadeBefore(id)'
BY DEF MadeBefore

\* The steps before the append keep the file and prepare one operation.
LEMMA CallBranch ==
    ASSUME SessionInv, BranchInv, NEW c \in Callers, Call(c)
    PROVE  BranchInv'
<1>1. PICK o \in OpRecord : CallChanges(c, o)  BY CallStep
<1>2. /\ up /\ ops[c].at # "landed" /\ ops' = [ops EXCEPT ![c] = o]
      /\ overlaps' = 0 => /\ overlaps = 0
                          /\ ops[c].at # "idle" \/ \A d \in Callers : ops[d].at = "idle"
      /\ UNCHANGED <<fileVars, up, storageVars, window, acked, faultVars>>
  BY <1>1 DEF CallChanges
<1>3. ops \in [Callers -> OpRecord] /\ made \in Nat  BY Types
<1>4. ops'[c] = o /\ \A d \in Callers \ {c} : ops'[d] = ops[d]  BY <1>2, <1>3
<1> SUFFICES ASSUME Undisturbed', Loadable' PROVE BranchInv'
  BY DEF BranchInv
<1>5. Undisturbed /\ Loadable /\ Sound' = Sound  BY <1>2 DEF Undisturbed, Loadable, Sound
<1>6. \A d \in Callers \ {c} : ops[d].at = "idle"
  BY <1>2, <1>5, OneAtATime DEF Undisturbed
<1>7. Landed = {}  BY <1>2, <1>6 DEF Landed
<1>8. /\ OneId(file) /\ \A i \in DOMAIN file : MadeBefore(file[i].id)
      /\ Sound => OpFresh(ops[c])
  BY <1>5 DEF BranchInv
<1>0. made' \in Nat /\ made <= made'
  <2>1. made' = made \/ made' = made + 1
    BY Zenon DEF Call, AppendCall, MoveCall, ReadLeaf, SetLeaf, Summarize
  <2> QED  BY <1>3, <2>1
<1>9. ASSUME Sound PROVE OpFresh(o)'
  <2>1. CASE AppendCall(c)
    <3>1. /\ made < MaxEntries /\ made' = made + 1
          /\ o = [Idle EXCEPT !.at = "leaf", !.id = generateEntryId, !.text = made + 1]
      BY <1>2, <1>3, <1>4, <2>1 DEF AppendCall, SetOp, Begin
    <3>2. o.at = "leaf" /\ o.id = generateEntryId  BY <3>1 DEF Idle
    <3>3. o.id \notin KnownIds(file) /\ \A n \in Nat : o.id = WholeId(n) => n <= made'
      BY <1>2, <1>5, <1>7, <1>9, <3>1, <3>2, NewIdFresh
    <3>4. file' = file  BY <1>2
    <3> QED  BY <1>3, <3>1, <3>2, <3>3, <3>4 DEF OpFresh, MadeBefore
  <2>2. CASE MoveCall(c)
    <3>1. made' = made /\ o.at = "move"
      <4>1. PICK target \in Known, summarize \in BOOLEAN :
              ops' = [ops EXCEPT ![c] = [Idle EXCEPT !.at = "move", !.kind = "leaf",
                                             !.target = target, !.summarize = summarize]]
        BY <2>2 DEF MoveCall, SetOp, Known
      <4>2. o.at = "move"  BY <1>3, <1>4, <4>1 DEF Idle
      <4> QED  BY <2>2, <4>2 DEF MoveCall
    <3> QED  BY <1>3, <3>1 DEF OpFresh
  <2>3. CASE ReadLeaf(c)
    <3>1. /\ ops[c].at = "leaf" /\ made' = made
          /\ o = [ops[c] EXCEPT !.at = "write", !.parent = currentLeafId]
      BY <1>2, <1>3, <1>4, <2>3 DEF ReadLeaf, SetOp
    <3>2. ops[c] \in OpRecord  BY <1>3
    <3>3. o.at = "write" /\ o.id = ops[c].id /\ o.parent = currentLeafId
      BY <3>1, <3>2 DEF OpRecord
    <3>4. o.id \notin KnownIds(file) /\ MadeBefore(o.id)  BY <1>8, <1>9, <3>1, <3>3 DEF OpFresh
    <3>5. file' = file /\ currentLeafId' = currentLeafId  BY <1>2
    <3> QED  BY <1>3, <3>1, <3>3, <3>4, <3>5 DEF OpFresh, MadeBefore
  <2>4. CASE SetLeaf(c)
    <3>1. /\ made < MaxEntries /\ made' = made + 1
          /\ o = [ops[c] EXCEPT !.at = "write", !.id = generateEntryId,
                                !.parent = currentLeafId, !.text = made + 1]
      BY <1>2, <1>3, <1>4, <2>4 DEF SetLeaf, SetOp
    <3>2. ops[c] \in OpRecord  BY <1>3
    <3>3. o.at = "write" /\ o.id = generateEntryId /\ o.parent = currentLeafId
      BY <3>1, <3>2 DEF OpRecord
    <3>4. o.id \notin KnownIds(file) /\ \A n \in Nat : o.id = WholeId(n) => n <= made'
      BY <1>2, <1>5, <1>7, <1>9, <3>1, <3>3, NewIdFresh
    <3>5. file' = file /\ currentLeafId' = currentLeafId  BY <1>2
    <3> QED  BY <1>3, <3>1, <3>3, <3>4, <3>5 DEF OpFresh, MadeBefore
  <2>5. CASE Summarize(c)
    <3>1. /\ made < MaxEntries /\ made' = made + 1 /\ ops[c].at = "summary"
          /\ o = [Idle EXCEPT !.at = "write", !.id = generateEntryId,
                              !.parent = ops[c].target, !.text = made + 1]
      BY <1>2, <1>3, <1>4, <2>5 DEF Summarize, SetOp
    <3>2. o.at = "write" /\ o.id = generateEntryId /\ o.parent = ops[c].target
      BY <3>1 DEF Idle
    <3>3. o.id \notin KnownIds(file) /\ \A n \in Nat : o.id = WholeId(n) => n <= made'
      BY <1>2, <1>5, <1>7, <1>9, <3>1, <3>2, NewIdFresh
    <3>4. o.parent = currentLeafId  BY <1>8, <1>9, <3>1, <3>2 DEF OpFresh
    <3>5. file' = file /\ currentLeafId' = currentLeafId  BY <1>2
    <3> QED  BY <1>3, <3>1, <3>2, <3>3, <3>4, <3>5 DEF OpFresh, MadeBefore
  <2> QED  BY <2>1, <2>2, <2>3, <2>4, <2>5 DEF Call
<1>10. Sound' => \A d \in Callers : OpFresh(ops[d])'
  <2>1. \A d \in Callers \ {c} : ops'[d].at = "idle"  BY <1>4, <1>6
  <2> QED  BY <1>4, <1>5, <1>9, <2>1 DEF OpFresh
<1>11. file' = file  BY <1>2
<1>12. \A i \in DOMAIN file' : MadeBefore(file[i].id)'
  BY <1>0, <1>3, <1>8, <1>11 DEF MadeBefore
<1> QED  BY <1>8, <1>10, <1>11, <1>12 DEF BranchInv

\* A line that is written, with its end or without, has a new id and hangs on the
\* leaf of the file.
LEMMA WrittenFacts ==
    ASSUME SessionInv, BranchInv, NEW c \in Callers, ops[c].at = "write",
           NEW open \in BOOLEAN, WriteLine(EntryOf(ops[c]), open),
           overlaps' = overlaps, Undisturbed'
    PROVE  /\ Undisturbed /\ Loadable /\ Loadable' /\ up /\ EntryOf(ops[c]) \in Entry
           /\ file' = Append(file, EntryOf(ops[c])) /\ file \in Seq(Entry)
           /\ OneId(file) /\ EntryOf(ops[c]).id \notin KnownIds(file)
           /\ EntryOf(ops[c]).parent = LeafOf(file)
           /\ MadeBefore(EntryOf(ops[c]).id)
           /\ \A i \in DOMAIN file : MadeBefore(file[i].id)
           /\ \A d \in Callers \ {c} : ops[d].at = "idle"
<1>1. up /\ EntryOf(ops[c]) \in Entry
  BY IdleType DEF SessionInv, DownInv, TreeInv, OpOK
<1>2. EntryOf(ops[c]) \in Lines /\ EntryOf(ops[c]) # Garbage
  BY <1>1 DEF Lines, Entry, Garbage
<1>3. ~joined' /\ overlaps = 0  BY DEF Undisturbed
<1>4. /\ ~joined /\ Sound /\ Loadable /\ file' = Append(file, EntryOf(ops[c]))
      /\ \A i \in DOMAIN file' : file'[i] # Garbage
  BY <1>2, <1>3, WriteFacts
<1>5. Undisturbed /\ Loadable'  BY <1>3, <1>4 DEF Undisturbed, Loadable
<1>6. /\ file \in Seq(Entry) /\ currentLeafId = LeafOf(entries)
      /\ Landed = {} => file = entries
  BY <1>1, <1>4, <1>5, AloneFacts
<1>7. \A d \in Callers \ {c} : ops[d].at = "idle"  BY <1>5, OneAtATime
<1>8. Landed = {}  BY <1>7 DEF Landed
<1>9. OneId(file) /\ OpFresh(ops[c]) /\ \A i \in DOMAIN file : MadeBefore(file[i].id)
  BY <1>4, <1>5 DEF BranchInv
<1>10. EntryOf(ops[c]).id = ops[c].id /\ EntryOf(ops[c]).parent = ops[c].parent
  BY DEF EntryOf
<1> QED  BY <1>1, <1>4, <1>5, <1>6, <1>7, <1>8, <1>9, <1>10 DEF OpFresh

LEMMA WrittenBranch ==
    ASSUME SessionInv, BranchInv, NEW c \in Callers, ops[c].at = "write",
           NEW open \in BOOLEAN, WriteLine(EntryOf(ops[c]), open),
           overlaps' = overlaps, made' = made,
           Sound' => \A d \in Callers :
                        ops'[d].at \in {"landed", "idle"} \/ (d # c /\ ops'[d].at = ops[d].at)
    PROVE  BranchInv'
<1> SUFFICES ASSUME Undisturbed', Loadable' PROVE BranchInv'
  BY DEF BranchInv
<1> DEFINE e == EntryOf(ops[c])
<1>1. /\ e \in Entry /\ file' = Append(file, e) /\ file \in Seq(Entry)
      /\ OneId(file) /\ e.id \notin KnownIds(file) /\ MadeBefore(e.id)
      /\ \A d \in Callers \ {c} : ops[d].at = "idle"
      /\ \A i \in DOMAIN file : MadeBefore(file[i].id)
  BY WrittenFacts
<1> HIDE DEF e
<1>3. /\ DOMAIN file' = 1..(Len(file) + 1) /\ DOMAIN file = 1..Len(file) /\ Len(file) \in Nat
      /\ \A i \in DOMAIN file : file'[i] = file[i]
      /\ file'[Len(file) + 1] = e
  BY <1>1, AppendFacts
<1>4. OneId(file')
  <2>1. \A i \in DOMAIN file : file[i].id # e.id  BY <1>1 DEF KnownIds
  <2> QED  BY <1>1, <1>3, <2>1 DEF OneId
<1>5. \A i \in DOMAIN file' : MadeBefore(file'[i].id)
  BY <1>1, <1>3
<1>6. \A i \in DOMAIN file' : MadeBefore(file[i].id)'
  BY <1>5 DEF MadeBefore
<1>7. Sound' => \A d \in Callers : OpFresh(ops[d])'
  BY <1>1 DEF OpFresh
<1> QED  BY <1>4, <1>6, <1>7 DEF BranchInv

LEMMA LandBranch ==
    ASSUME SessionInv, BranchInv, NEW c \in Callers, Land(c)
    PROVE  BranchInv'
<1>1. /\ ops[c].at = "write" /\ WriteLine(EntryOf(ops[c]), FALSE) /\ overlaps' = overlaps
      /\ made' = made /\ ops' = [ops EXCEPT ![c] = [ops[c] EXCEPT !.at = "landed"]]
  BY DEF Land, SetOp
<1>2. ops \in [Callers -> OpRecord]  BY Types
<1>3. ops'[c].at = "landed" /\ \A d \in Callers \ {c} : ops'[d].at = ops[d].at
  BY <1>1, <1>2 DEF OpRecord
<1>4. ASSUME NEW d \in Callers
      PROVE  ops'[d].at \in {"landed", "idle"} \/ (d # c /\ ops'[d].at = ops[d].at)
  <2>1. CASE d = c  BY <1>3, <2>1
  <2>2. CASE d # c  BY <1>3, <2>2
  <2> QED  BY <2>1, <2>2
<1>5. FALSE \in BOOLEAN  OBVIOUS
<1> QED  BY <1>1, <1>4, <1>5, WrittenBranch, Zenon

\* A line that is cut is no line of the tree, or one that is written.
LEMMA CutBranch ==
    ASSUME SessionInv, BranchInv, NEW c \in Callers, CutLine(c),
           overlaps' = overlaps, made' = made,
           Sound' => \A d \in Callers : ops'[d] = Idle
    PROVE  BranchInv'
<1>1. CASE ~Loadable'  BY <1>1 DEF BranchInv
<1>2. CASE Loadable'
  <2>1. ops[c].at = "write" /\ WriteLine(EntryOf(ops[c]), TRUE)
    BY <1>2, CutLineFacts DEF CutLine
  <2>2. ASSUME Sound', NEW d \in Callers PROVE ops'[d].at = "idle"  BY <2>2, IdleType
  <2> QED  BY <2>1, <2>2, WrittenBranch
<1> QED  BY <1>1, <1>2

\* A promise that is handled leaves the file as it is.
LEMMA HandledBranch ==
    ASSUME SessionInv, BranchInv, NEW c \in Callers,
           EntryLanded(c) \/ LeafLanded(c) \/ (AppendFails(c) /\ UNCHANGED <<fileVars, torn>>)
    PROVE  BranchInv'
<1>1. /\ ops[c].at \in {"write", "landed"} /\ made' = made /\ up' = up
      /\ overlaps' = overlaps /\ torn' = torn /\ UNCHANGED fileVars
  BY DEF EntryLanded, LeafLanded, AppendFails
<1> SUFFICES ASSUME Undisturbed', Loadable' PROVE BranchInv'
  BY DEF BranchInv
<1>2. Undisturbed /\ Loadable /\ Sound' = Sound  BY <1>1 DEF Undisturbed, Loadable, Sound
<1>3. up /\ ops \in [Callers -> OpRecord]
  BY <1>1, Types, IdleType DEF SessionInv, DownInv
<1>4. \A d \in Callers \ {c} : ops[d].at = "idle"  BY <1>1, <1>2, OneAtATime
<1>5. ops'[c].at = "idle" \/ (ops'[c].at = "summary" /\ ops'[c].target = currentLeafId')
  <2>1. CASE EntryLanded(c) \/ AppendFails(c)
    BY <1>3, <2>1, IdleType DEF EntryLanded, AppendFails, SetOp
  <2>2. CASE LeafLanded(c)
    <3>1. ops'[c] = AfterMove(ops[c]) /\ currentLeafId' = ops[c].target
      BY <1>3, <2>2 DEF LeafLanded, SetOp
    <3>2. \/ AfterMove(ops[c]) = Idle
          \/ AfterMove(ops[c]).at = "summary" /\ AfterMove(ops[c]).target = ops[c].target
      BY DEF AfterMove, Idle
    <3> QED  BY <3>1, <3>2, IdleType
  <2> QED  BY <2>1, <2>2
<1>6. \A d \in Callers \ {c} : ops'[d].at = "idle"
  BY <1>3, <1>4 DEF EntryLanded, LeafLanded, AppendFails, SetOp
<1>7. \A d \in Callers : OpFresh(ops[d])'  BY <1>5, <1>6 DEF OpFresh
<1>8. OneId(file) /\ \A i \in DOMAIN file : MadeBefore(file[i].id)
  BY <1>2 DEF BranchInv
<1>9. OneId(file') /\ \A i \in DOMAIN file' : MadeBefore(file[i].id)'
  BY <1>1, <1>8 DEF MadeBefore
<1> QED  BY <1>7, <1>9 DEF BranchInv

LEMMA FailBranch ==
    ASSUME SessionInv, BranchInv, NEW c \in Callers, AppendFails(c)
    PROVE  BranchInv'
<1>1. CASE UNCHANGED <<fileVars, torn>>  BY <1>1, HandledBranch
<1>2. CASE CutLine(c) /\ torn' = TRUE
  <2>1. overlaps' = overlaps /\ made' = made /\ ~Sound'  BY <1>2 DEF AppendFails, Sound
  <2> QED  BY <1>2, <2>1, CutBranch
<1> QED  BY <1>1, <1>2 DEF AppendFails

\* When the program ends or starts no operation is under way.
LEMMA IdleBranch ==
    ASSUME BranchInv, \A c \in Callers : ops'[c] = Idle, made' = made,
           Undisturbed' => Undisturbed, file' = file
    PROVE  BranchInv'
<1> SUFFICES ASSUME Undisturbed', Loadable' PROVE BranchInv'
  BY DEF BranchInv
<1>1. OneId(file) /\ \A i \in DOMAIN file : MadeBefore(file[i].id)
  BY DEF BranchInv, Loadable
<1>2. OneId(file') /\ \A i \in DOMAIN file' : MadeBefore(file[i].id)'
  BY <1>1 DEF MadeBefore
<1>3. \A c \in Callers : OpFresh(ops[c])'  BY IdleType DEF OpFresh
<1> QED  BY <1>2, <1>3 DEF BranchInv

LEMMA BranchInductive == SessionInv /\ BranchInv /\ [Next]_vars => BranchInv'
<1> SUFFICES ASSUME SessionInv, BranchInv, [Next]_vars PROVE BranchInv'
  OBVIOUS
<1>1. ASSUME NEW c \in Callers, Call(c) PROVE BranchInv'  BY <1>1, CallBranch
<1>2. ASSUME NEW c \in Callers, Write(c) PROVE BranchInv'
  BY <1>2, LandBranch, HandledBranch, FailBranch DEF Write
<1>3. CASE Crash
  <2>1. /\ \A c \in Callers : ops'[c] = Idle
        /\ made' = made /\ overlaps' = overlaps
        /\ UNCHANGED fileVars \/ \E c \in Callers : CutLine(c)
    BY <1>3 DEF Crash
  <2>2. CASE UNCHANGED fileVars
    <3>1. Undisturbed' => Undisturbed  BY <2>1, <2>2 DEF Undisturbed
    <3> QED  BY <2>1, <2>2, <3>1, IdleBranch
  <2>3. CASE \E c \in Callers : CutLine(c)  BY <2>1, <2>3, CutBranch
  <2> QED  BY <2>1, <2>2, <2>3
<1>4. CASE Open
  <2>1. /\ \A c \in Callers : ops'[c] = Idle
        /\ made' = made /\ joined' = joined /\ overlaps' = overlaps /\ file' = file
    BY <1>4 DEF Open, SessionInv, DownInv
  <2>2. Undisturbed' => Undisturbed  BY <2>1 DEF Undisturbed
  <2> QED  BY <2>1, <2>2, IdleBranch
<1>5. CASE NextWindow \/ UNCHANGED vars
  <2>1. UNCHANGED <<file, ops, made, torn, joined, overlaps, currentLeafId>>  BY <1>5 DEF NextWindow
  <2> QED  BY <2>1 DEF BranchInv, Undisturbed, Sound, Loadable, OneId, OpFresh, MadeBefore
<1> QED  BY <1>1, <1>2, <1>3, <1>4, <1>5 DEF Next

-----------------------------------------------------------------------------
\* The steps of the session are steps of the tree.

Nodes(s) == {<<>>} \union {Paths(s)[i] : i \in DOMAIN s}

LEMMA TreeOfFile == SessionInv /\ BranchInv /\ Undisturbed /\ Loadable => Tree(file)
BY LoadableEntries DEF Tree, BranchInv, SessionInv, FileInv

LEMMA IntactLoadable == file \in Seq(Lines) /\ Loadable => Intact = file
BY DEF Intact, Loadable

\* A line that is written is a step of the tree.
LEMMA WrittenIsStep ==
    ASSUME SessionInv, BranchInv, SessionInv', BranchInv', Undisturbed',
           NEW c \in Callers, ops[c].at = "write",
           NEW open \in BOOLEAN, WriteLine(EntryOf(ops[c]), open), overlaps' = overlaps
    PROVE  Branches!Next
<1> DEFINE e == EntryOf(ops[c])
           s == file
           t == file'
<1>1. /\ e \in Entry /\ t = Append(s, e) /\ s \in Seq(Entry) /\ e.id \notin KnownIds(s)
      /\ e.parent = LeafOf(s) /\ Undisturbed /\ Loadable /\ Loadable' /\ OneId(s)
  BY WrittenFacts
<1>2. Tree(s)  BY <1>1, TreeOfFile
<1>3. Tree(t)
  <2>1. (SessionInv /\ BranchInv /\ Undisturbed /\ Loadable => Tree(file))'
    BY TreeOfFile, PTL
  <2> QED  BY <1>1, <2>1
<1>4. Intact = s /\ Intact' = t
  <2>1. (file \in Seq(Lines) /\ Loadable => Intact = file)'  BY IntactLoadable, PTL
  <2>2. file \in Seq(Lines) /\ file' \in Seq(Lines)  BY DEF SessionInv, TypeOK
  <2> QED  BY <1>1, <2>1, <2>2, IntactLoadable
<1> HIDE DEF e, s, t
<1>5. /\ Len(s) \in Nat /\ DOMAIN s = 1..Len(s) /\ DOMAIN t = 1..(Len(s) + 1)
      /\ t[Len(s) + 1] = e
  BY <1>1, AppendFacts
<1>6. /\ \A i \in DOMAIN s : Paths(t)[i] = Paths(s)[i]
      /\ Paths(t)[Len(s) + 1] = Append(PathTo(s, LeafOf(s)), e.id)
  BY <1>1, <1>2, <1>3, PathsAppend
<1>7. Nodes(t) = Nodes(s) \union {Append(PathTo(s, LeafOf(s)), e.id)}
  <2>1. \A i \in DOMAIN s : i \in DOMAIN t /\ Paths(t)[i] = Paths(s)[i]  BY <1>5, <1>6
  <2>2. Len(s) + 1 \in DOMAIN t /\ \A i \in DOMAIN t : i \in DOMAIN s \/ i = Len(s) + 1
    BY <1>5
  <2>3. {Paths(t)[i] : i \in DOMAIN t}
          = {Paths(s)[i] : i \in DOMAIN s} \union {Append(PathTo(s, LeafOf(s)), e.id)}
    BY <1>6, <2>1, <2>2
  <2> QED  BY <2>3 DEF Nodes
<1>8. \A n \in Nodes(s) : \A i \in DOMAIN n : n[i] # e.id
  <2>1. ASSUME NEW n \in Nodes(s) PROVE n \in Seq(KnownIds(s))
    <3>1. CASE n = <<>>  BY <3>1
    <3>2. CASE \E i \in DOMAIN s : n = Paths(s)[i]  BY <1>2, <3>2, PathType
    <3> QED  BY <3>1, <3>2 DEF Nodes
  <2>2. ASSUME NEW n \in Nodes(s), NEW i \in DOMAIN n PROVE n[i] # e.id
    <3>1. n \in Seq(KnownIds(s))  BY <2>1
    <3>2. n[i] \in KnownIds(s)  BY <3>1
    <3> QED  BY <1>1, <3>2
  <2> QED  BY <2>2
<1>9. e.id \in Ids /\ e.id # NoId
  <2>1. e.id \in Ids  BY <1>1 DEF Entry
  <2>2. NoId \notin Ids  BY DEF NoId, Ids, ShortId, WholeId
  <2> QED  BY <2>1, <2>2
<1> PICK id \in Ids : id = e.id  BY <1>9
<1>10. LeafOf(t) = leafIdAfterEntry(e)  BY <1>1, LeafAppend
<1>11. CASE e.kind = "leaf"
  <2>1. LeafOf(t) \in KnownIds(t) \union {NoId}  BY <1>3, LeafKnown DEF Tree
  <2>2. LeafOf(t) \in KnownIds(s) \union {NoId}
    <3>1. LeafOf(t) = e.target  BY <1>10, <1>11 DEF leafIdAfterEntry
    <3>2. e.target \in {t[j].id : j \in 1..(Len(s) + 1 - 1)} \union {NoId}
      BY <1>3, <1>5 DEF Tree, Precede
    <3>3. \A j \in 1..Len(s) : t[j] = s[j]  BY <1>1, AppendFacts
    <3> QED  BY <1>5, <3>1, <3>2, <3>3 DEF KnownIds
  <2>3. PathTo(t, LeafOf(t)) \in Nodes(s)
    <3>1. CASE LeafOf(t) = NoId  BY <3>1 DEF PathTo, Nodes
    <3>2. CASE LeafOf(t) # NoId
      <4>1. PICK k \in DOMAIN s : s[k].id = LeafOf(t)  BY <2>2, <3>2 DEF KnownIds
      <4>2. k \in DOMAIN t /\ t[k] = s[k]  BY <1>1, <1>5, <4>1, AppendFacts
      <4>3. PathTo(t, LeafOf(t)) = Paths(t)[k]  BY <1>3, <3>2, <4>1, <4>2, PathToLine
      <4> QED  BY <1>6, <4>1, <4>3 DEF Nodes
    <3> QED  BY <3>1, <3>2
  <2>4. Branches!MoveLeaf(id)
    <3>1. Branches!Fresh(id)  BY <1>4, <1>8 DEF Branches!Fresh, Nodes
    <3>2. Nodes(Intact)' = Nodes(Intact) \union {Append(PathTo(Intact, LeafOf(Intact)), id)}
      BY <1>4, <1>7
    <3>3. PathTo(Intact, LeafOf(Intact))' \in Nodes(Intact)
      BY <1>4, <2>3
    <3> QED  BY <3>1, <3>2, <3>3 DEF Branches!MoveLeaf, Nodes
  <2> QED  BY <2>4 DEF Branches!Next
<1>12. CASE e.kind = "entry"
  <2>1. LeafOf(t) = e.id  BY <1>10, <1>12 DEF leafIdAfterEntry
  <2>2. Len(s) + 1 \in DOMAIN t  BY <1>5
  <2>3. PathTo(t, LeafOf(t)) = Append(PathTo(s, LeafOf(s)), e.id)
    BY <1>3, <1>5, <1>6, <1>9, <2>1, <2>2, PathToLine
  <2>4. Branches!AppendEntry(id)
    <3>1. Branches!Fresh(id)  BY <1>4, <1>8 DEF Branches!Fresh, Nodes
    <3>2. PathTo(Intact, LeafOf(Intact))' = Append(PathTo(Intact, LeafOf(Intact)), id)
      BY <1>4, <2>3
    <3>3. Nodes(Intact)' = Nodes(Intact) \union {PathTo(Intact, LeafOf(Intact))'}
      BY <1>4, <1>7, <2>3
    <3> QED  BY <3>1, <3>2, <3>3 DEF Branches!AppendEntry, Nodes
  <2> QED  BY <2>4 DEF Branches!Next
<1> QED  BY <1>1, <1>11, <1>12 DEF Entry

LEMMA IntactStays ==
    ASSUME Intact' = Intact
    PROVE  UNCHANGED Branches!vars
BY DEF Branches!vars

\* A line that is cut to garbage leaves the lines before it.
LEMMA CutIsStep ==
    ASSUME SessionInv, BranchInv, SessionInv', BranchInv', Undisturbed',
           NEW c \in Callers, CutLine(c), overlaps' = overlaps
    PROVE  Branches!Next \/ UNCHANGED Branches!vars
<1>1. PICK line \in {Garbage, EntryOf(ops[c])} : WriteLine(line, TRUE)  BY DEF CutLine
<1>2. CASE line = EntryOf(ops[c])
  <2>1. ops[c].at = "write"  BY DEF CutLine
  <2> QED  BY <1>1, <1>2, <2>1, WrittenIsStep
<1>3. CASE line = Garbage
  <2>1. Garbage \in Lines /\ file \in Seq(Lines) /\ ~joined'
    BY Types DEF Lines, Undisturbed
  <2>2. Loadable /\ file' = Append(file, Garbage)
    BY <1>1, <1>3, <2>1, WriteFacts
  <2>3. Intact = file  BY <2>1, <2>2, IntactLoadable
  <2>4. /\ file' # <<>> /\ file'[Len(file')] = Garbage
        /\ SubSeq(file', 1, Len(file') - 1) = file
    BY <2>1, <2>2
  <2>5. Intact' = file  BY <2>4 DEF Intact
  <2> QED  BY <2>3, <2>5, IntactStays
<1> QED  BY <1>1, <1>2, <1>3

LEMMA StepRefines ==
    SessionInv /\ SessionInv' /\ BranchInv /\ BranchInv' /\ [Next]_vars /\ Undisturbed'
        => [Branches!Next]_(Branches!vars)
<1> SUFFICES ASSUME SessionInv, SessionInv', BranchInv, BranchInv', [Next]_vars, Undisturbed'
             PROVE  Branches!Next \/ UNCHANGED Branches!vars
  OBVIOUS
<1>1. ASSUME NEW c \in Callers, Call(c) PROVE Intact' = Intact
  BY <1>1, CallStep DEF CallChanges, Intact
<1>2. ASSUME NEW c \in Callers, EntryLanded(c) \/ LeafLanded(c) PROVE Intact' = Intact
  BY <1>2 DEF EntryLanded, LeafLanded, Intact
<1>3. ASSUME NEW c \in Callers, AppendFails(c) PROVE Branches!Next \/ UNCHANGED Branches!vars
  <2>1. CASE UNCHANGED fileVars
    <3>1. Intact' = Intact  BY <2>1 DEF Intact
    <3> QED  BY <3>1, IntactStays
  <2>2. CASE CutLine(c)
    <3>1. overlaps' = overlaps  BY <1>3 DEF AppendFails
    <3> QED  BY <2>2, <3>1, CutIsStep
  <2> QED  BY <1>3, <2>1, <2>2 DEF AppendFails
<1>4. CASE Crash
  <2>1. overlaps' = overlaps /\ (UNCHANGED fileVars \/ \E c \in Callers : CutLine(c))
    BY <1>4 DEF Crash
  <2>2. CASE UNCHANGED fileVars
    <3>1. Intact' = Intact  BY <2>2 DEF Intact
    <3> QED  BY <3>1, IntactStays
  <2>3. CASE \E c \in Callers : CutLine(c)  BY <2>1, <2>3, CutIsStep
  <2> QED  BY <2>1, <2>2, <2>3
<1>5. CASE Open \/ NextWindow \/ UNCHANGED vars
  <2>1. Intact' = Intact  BY <1>5 DEF Open, NextWindow, Intact
  <2> QED  BY <2>1, IntactStays
<1>6. ASSUME NEW c \in Callers, Land(c) PROVE Branches!Next
  <2>1. ops[c].at = "write" /\ WriteLine(EntryOf(ops[c]), FALSE) /\ overlaps' = overlaps
    BY <1>6 DEF Land
  <2> QED  BY <2>1, WrittenIsStep
<1> QED  BY <1>1, <1>2, <1>3, <1>4, <1>5, <1>6, IntactStays DEF Next, Write

-----------------------------------------------------------------------------
\* The theorems

\* getLeafId and getPathToRoot never meet an id that is not there, also after failed
\* appends, reopens and calls that overlap.
THEOREM ParentsKnown == Spec => []ParentsPrecede
<1>1. SessionInv => ParentsPrecede  BY DEF SessionInv, TreeInv
<1> QED  BY <1>1, InitInv, SessionInductive, PTL DEF Spec

\* What was acknowledged is in the file, memory has nothing else, and a reopen finds
\* the same leaf (jsonl-storage.ts:252), after any crashes and failed appends, until
\* something is appended to a line that they left without an end.
THEOREM FileHoldsSession == Spec => []FileIsSession
<1>1. SessionInv => FileIsSession
  <2> SUFFICES ASSUME SessionInv PROVE FileIsSession  OBVIOUS
  <2>1. Quiet => Landed = {}  BY DEF Quiet, Landed
  <2>2. MemoryMatchesFile
    <3> SUFFICES ASSUME Quiet, Sound
                 PROVE  /\ Len(entries) = Len(file)
                        /\ \A i \in DOMAIN file : \E j \in DOMAIN entries : entries[j] = file[i]
      BY DEF MemoryMatchesFile
    <3>1. Cardinality(Landed) = 0  BY <2>1, FS_EmptySet
    <3>2. Len(entries) \in Nat  BY Types
    <3> QED  BY <2>1, <3>1, <3>2 DEF SessionInv, CountInv, Quiet
  <2>3. ReopenRestoresLeaf
    BY <2>1 DEF SessionInv, AloneInv, ReopenRestoresLeaf, Quiet
  <2> QED  BY <2>2, <2>3 DEF SessionInv, FileInv, FileIsSession
<1> QED  BY <1>1, InitInv, SessionInductive, PTL DEF Spec

\* For one caller at a time the file implements the tree of SessionBranches: it only
\* grows, and each entry is a child of the leaf.  A failed append or a crash is no step
\* of the tree, or the step of an entry that was written but for its end; this holds
\* until something is appended to a line without an end.
THEOREM FileIsATree == Spec => ImplementsBranches
<1>1. Init => Branches!Init
  BY DEF Init, Intact, Branches!Init, Branches!Root, LeafOf, PathTo
<1>2. SessionInv /\ SessionInv' /\ BranchInv /\ BranchInv' /\ [Next]_vars
        => [Undisturbed' => [Branches!Next]_(Branches!vars)]_vars
  BY StepRefines
<1> QED
  BY <1>1, <1>2, InitInv, SessionInductive, InitBranch, BranchInductive, PTL
     DEF Spec, ImplementsBranches
=============================================================================
