------------------------ MODULE FileCheckpointProofs ------------------------
(***************************************************************************)
(* Proofs about FileMutation and FileCheckpoint: the calls for a file take *)
(* effect one after the other, and the checkpoint suffices to restore the  *)
(* code of every session point, for any number of files, calls, turns,     *)
(* aborts, restores, navigations, crashes and file operations that fail.   *)
(*                                                                         *)
(* A chain is deleted while calls still wait in it, so that the last call  *)
(* of the map is not the last one to wait: ChainInv says which calls each  *)
(* promise stands for.  It makes at most one call of a file work on it     *)
(* (Exclusive), which is what keeps the content a call has read and the    *)
(* content of the file together (ContentInv), step by step.                *)
(*                                                                         *)
(* The checkpoint has, between two turns, a good copy of each opened file  *)
(* for each point (CopiesInv), and the files are at the code of the point  *)
(* of the branch (NowInv), but for the files that a crash has cut a turn   *)
(* or a list of (Out).  Within a turn both leave out the files it          *)
(* changes; the end of the turn brings them back, because a file has no    *)
(* copy of an end that has not come (TurnEndInv) and a call that is not    *)
(* stray belongs to a file the turn has recorded (CallRecords).            *)
(***************************************************************************)
EXTENDS FileCheckpoint, WellFoundedInduction, TLAPS

USE DEF vars, toolVars, queueVars, fileVars, turnVars, trackVars, savedVars,
        lossVars, restoreVars, countVars, pastVars

-----------------------------------------------------------------------------
\* The inductive invariant

\* A content for each file.
ContentType == [Files -> Contents]

\* The types of what the tools and the queue use.
Types ==
    /\ calls \in Seq(CallType)
    /\ Len(calls) <= MaxCalls
    /\ tail \in [Keys -> 0..Len(calls)]
    /\ batch \subseteq Calls
    /\ disk \in ContentType
    /\ expected \in ContentType
    /\ originals \in ContentType
    /\ turnEnds \in [Turns -> ContentType]

\* A call that joined and is not released yet, waiting or at work.
Active(c) == calls[c].at \notin {"started", "over"} /\ ~calls[c].released

\* Where a call is says what it has done.
CallIsSane(c) ==
    /\ calls[c].at = "over" => calls[c].released
    /\ calls[c].at \in {"started", "queued"} => ~calls[c].released
    /\ calls[c].at = "mkdir" => calls[c].kind = "write"
    /\ calls[c].at \in {"access", "read"} => calls[c].kind = "edit"
    /\ calls[c].kind = "write" => calls[c].read = {}
    /\ Entered(c) /\ calls[c].released => calls[c].file \in stray

CallInv == \A c \in Calls : CallIsSane(c)

\* The calls of a run end before the turn does.
TurnInv == \A c \in Calls : ~calls[c].released => c \in batch /\ phase = "turn"

\* The calls ahead of a call are other calls for its file.
AheadInv ==
    \A c \in Calls : \A d \in calls[c].ahead :
        /\ d \in Calls
        /\ d # c
        /\ calls[d].file = calls[c].file
        /\ calls[d].released \/ Active(d)

\* All that c waits for when it waits for the promise of d.
StandsFor(d, c) ==
    \A e \in calls[c].ahead :
        calls[e].released \/ (~calls[d].released /\ (e = d \/ e \in calls[d].ahead))

\* What the promise that c waits for tells of the calls ahead of it.
WaitsFor(c, d) ==
    IF d = 0
    THEN \A e \in calls[c].ahead : calls[e].released
    ELSE d \in calls[c].ahead /\ StandsFor(d, c)

\* The last call of a chain has all others ahead of it.
EndsWith(f, t) ==
    IF t = 0
    THEN \A c \in Calls : calls[c].file = f => ~Active(c)
    ELSE /\ t \in Calls /\ calls[t].file = f /\ Active(t)
         /\ \A c \in Calls : calls[c].file = f /\ Active(c) => c = t \/ c \in calls[t].ahead

\* Every promise of a chain stands for all calls it has to.
ChainInv ==
    /\ \A c \in Calls : calls[c].at = "queued" /\ calls[c].file \notin Linked =>
        WaitsFor(c, calls[c].after)
    /\ \A f \in Files \ Linked : EndsWith(f, tail[<<f, "real">>])

\* Of two calls for a file one is ahead of the other.
OrderInv ==
    \A c, d \in Calls :
        /\ calls[c].file = calls[d].file
        /\ Active(c) /\ Active(d)
        => c = d \/ c \in calls[d].ahead \/ d \in calls[c].ahead

QueueInv == AheadInv /\ ChainInv /\ OrderInv /\ QueueIsFifo

\* What the call at work knows of its file, and what holds when there is none.
ContentInv ==
    /\ NoUpdateLost
    /\ \A c \in Calls : Holds(c) /\ calls[c].file \notin stray \union Linked =>
        /\ calls[c].at # "write" => disk[calls[c].file] = expected[calls[c].file]
        /\ calls[c].kind = "edit" /\ calls[c].at \in {"open", "write"} =>
                calls[c].read = expected[calls[c].file]

FileInv == Types /\ CallInv /\ TurnInv /\ QueueInv /\ ContentInv

-----------------------------------------------------------------------------
\* Lemmas about the operators

\* A set of turns has a latest one.
LEMMA LatestExists ==
    ASSUME NEW S, S \subseteq Turns, S # {}
    PROVE  \E k \in S : \A j \in S : j <= k
<1> DEFINE R == OpToRel(<, Nat)
           Left == {n \in Nat : \E k \in S : n = MaxReplies - k}
<1>1. MaxReplies \in Nat \ {0}
  BY CheckpointAssumption
<1>2. \A k \in S : k \in Nat /\ MaxReplies - k \in Left
  BY <1>1 DEF Turns
<1>3. Left # {} /\ Left \subseteq Nat
  BY <1>2
<1>4. IsWellFoundedOn(R, Nat)
  BY NatLessThanWellFounded
<1>5. PICK n \in Left : \A m \in Left : ~(<<m, n>> \in R)
  <2> HIDE DEF R, Left
  <2> QED  BY <1>3, <1>4, WFMin
<1>6. \A m \in Left : ~(m < n)
  BY <1>3, <1>5 DEF OpToRel
<1>7. PICK k \in S : n = MaxReplies - k
  OBVIOUS
<1>8. \A j \in S : j <= k
  <2> HIDE DEF Left
  <2> SUFFICES ASSUME NEW j \in S PROVE j <= k
    OBVIOUS
  <2>1. MaxReplies - j \in Left /\ j \in Nat /\ k \in Nat
    BY <1>2
  <2>2. ~(MaxReplies - j < MaxReplies - k)
    BY <1>6, <1>7, <2>1
  <2> QED  BY <1>1, <2>1, <2>2
<1> QED  BY <1>8

\* The latest change before a point is a turn before it that changed the file.
LEMMA LatestIsChange ==
    ASSUME NEW f, NEW p
    PROVE  \/ /\ LatestChange(f, p) = -1
              /\ \A k \in Turns : k < p => f \notin turnChanges[k]
           \/ /\ LatestChange(f, p) \in Turns /\ LatestChange(f, p) # -1
              /\ LatestChange(f, p) < p /\ f \in turnChanges[LatestChange(f, p)]
              /\ \A k \in Turns : k < p /\ f \in turnChanges[k] => k <= LatestChange(f, p)
<1> DEFINE before == {k \in Turns : k < p /\ f \in turnChanges[k]}
<1>1. CASE before = {}
  BY <1>1 DEF LatestChange
<1>2. CASE before # {}
  <2> DEFINE latest == CHOOSE k \in before : \A j \in before : j <= k
  <2>1. \E k \in before : \A j \in before : j <= k
    <3>1. before \subseteq Turns
      OBVIOUS
    <3> HIDE DEF before
    <3> QED  BY <1>2, <3>1, LatestExists
  <2>2. latest \in before /\ \A j \in before : j <= latest
    <3> HIDE DEF before
    <3> QED  BY <2>1
  <2>3. LatestChange(f, p) = latest
    BY <1>2 DEF LatestChange
  <2> HIDE DEF latest
  <2>4. latest \in Turns /\ latest < p /\ f \in turnChanges[latest]
    BY <2>2
  <2>5. latest # -1
    BY <2>4, CheckpointAssumption DEF Turns
  <2> QED  BY <2>2, <2>3, <2>4, <2>5
<1> QED  BY <1>1, <1>2

\* What restoreToTurn looks up is a turn, if there is one.
LEMMA LatestChangeIsTurn ==
    ASSUME NEW f, NEW point
    PROVE  LatestChange(f, point) = -1 \/ LatestChange(f, point) \in Turns
BY LatestIsChange

\* The contents there are.
LEMMA ContentsAre ==
    /\ Missing \in Contents /\ Torn \in Contents /\ Original \in Contents /\ None \in Contents
    /\ \A content \in Contents : \A c \in 1..MaxCalls : content \union {c} \in Contents
    /\ \A c \in 1..MaxCalls : {c} \in Contents
BY FileAssumption DEF Contents, Missing, Torn, Original, None

\* A restore leaves a content in every file.
LEMMA RestoredIsContent ==
    ASSUME Types, NEW f \in Files, NEW point
    PROVE  RestoredContent(f, point) \in Contents
<1> DEFINE latest == LatestChange(f, point)
<1>1. latest = -1 \/ latest \in Turns
  BY LatestChangeIsTurn
<1>2. disk[f] \in Contents /\ originals[f] \in Contents /\ Missing \in Contents
  BY ContentsAre DEF Types, ContentType
<1>3. latest \in Turns => turnEnds[latest][f] \in Contents
  BY DEF Types, ContentType
<1> HIDE DEF latest
<1>4. RestoredContent(f, point) =
          IF latest # -1
          THEN IF turnEnds[latest][f] # None THEN turnEnds[latest][f] ELSE disk[f]
          ELSE IF f \in created THEN Missing
               ELSE IF f \in snapshotted THEN originals[f] ELSE disk[f]
  BY DEF RestoredContent, latest
<1> QED  BY <1>1, <1>2, <1>3, <1>4

\* What Types says of one call.
LEMMA CallFields ==
    ASSUME Types, NEW c \in Calls
    PROVE  /\ c \in 1..MaxCalls /\ c \in 1..Len(calls) /\ c # 0
           /\ calls[c] \in CallType
           /\ calls[c].file \in Files /\ calls[c].kind \in Kinds /\ calls[c].at \in Steps
           /\ calls[c].after \in 0..MaxCalls /\ calls[c].released \in BOOLEAN
           /\ calls[c].aborted \in BOOLEAN /\ calls[c].read \in Contents
           /\ calls[c].ahead \subseteq 1..MaxCalls
<1>1. c \in 1..Len(calls) /\ Len(calls) \in Nat /\ Len(calls) <= MaxCalls
  BY DEF Types, Calls
<1>2. calls[c] \in CallType
  BY <1>1 DEF Types
<1>3. c \in 1..MaxCalls /\ c # 0
  BY <1>1, FileAssumption
<1> QED  BY <1>1, <1>2, <1>3 DEF CallType

\* A sequence of calls of the same length has a call changed.
LEMMA ChangedCalls ==
    ASSUME Types, NEW c \in Calls, NEW call \in CallType,
           calls' = [calls EXCEPT ![c] = call]
    PROVE  /\ calls' \in Seq(CallType) /\ Len(calls') = Len(calls)
           /\ Calls' = Calls
           /\ calls'[c] = call
           /\ \A d \in Calls : d # c => calls'[d] = calls[d]
<1>1. calls \in Seq(CallType) /\ c \in 1..Len(calls)
  BY DEF Types, Calls
<1>2. calls' \in Seq(CallType) /\ Len(calls') = Len(calls)
  BY <1>1
<1>3. Calls' = Calls
  BY <1>1, <1>2 DEF Calls
<1> QED  BY <1>1, <1>2, <1>3 DEF Calls

\* So has a sequence of calls that is built anew.
LEMMA RebuiltCalls ==
    ASSUME Types, calls' \in [Calls -> CallType]
    PROVE  calls' \in Seq(CallType) /\ Len(calls') = Len(calls) /\ Calls' = Calls
<1>1. Calls = 1..Len(calls) /\ Len(calls) \in Nat
  BY DEF Types, Calls
<1>2. calls' \in Seq(CallType) /\ Len(calls') = Len(calls)
  BY <1>1
<1> QED  BY <1>1, <1>2 DEF Calls

\* A file without a link has one key.
LEMMA KeyOfFile ==
    ASSUME NEW f \in Files \ Linked
    PROVE  Key(f) = <<f, "real">> /\ <<f, "real">> \in Keys
BY DEF Key, Keys

\* Every file has a key.
LEMMA KeyIsKey ==
    ASSUME NEW f \in Files
    PROVE  Key(f) \in Keys
BY DEF Key, Keys

\* A call that is over is released and has forgotten what it read.
LEMMA OverIsCall ==
    ASSUME NEW call \in CallType
    PROVE  /\ Over(call) \in CallType
           /\ Over(call).file = call.file /\ Over(call).kind = call.kind
           /\ Over(call).at = "over" /\ Over(call).ahead = {}
           /\ Over(call).released /\ Over(call).read = {}
<1>1. {} \in Contents /\ 0 \in 0..MaxCalls /\ "over" \in Steps
  BY FileAssumption DEF Contents, Steps
<1> QED  BY <1>1 DEF Over, CallType

\* A call that did not change is as sane as before.
LEMMA SaneStays ==
    ASSUME CallInv, NEW c \in Calls, calls'[c] = calls[c], stray \subseteq stray'
    PROVE  CallIsSane(c)'
<1>1. CallIsSane(c)
  BY DEF CallInv
<1> QED  BY <1>1 DEF CallIsSane, Entered

-----------------------------------------------------------------------------
\* The queue

\* What a call has joined, and whether it was released, stays as it is.
Kept(c) ==
    /\ calls'[c].ahead = calls[c].ahead
    /\ calls'[c].after = calls[c].after
    /\ calls'[c].released = calls[c].released

\* A call is at work when it is let through, or may be.
AtWork(c) == Active(c) /\ \A e \in calls[c].ahead : calls[e].released

\* One call at most works on a file.
LEMMA Exclusive ==
    ASSUME QueueInv, NEW c \in Calls, NEW d \in Calls,
           calls[c].file = calls[d].file, AtWork(c), AtWork(d)
    PROVE  c = d
<1>1. c = d \/ c \in calls[d].ahead \/ d \in calls[c].ahead
  BY DEF QueueInv, OrderInv, AtWork
<1>2. ~calls[c].released /\ ~calls[d].released
  BY DEF AtWork, Active
<1> QED  BY <1>1, <1>2 DEF AtWork

\* A call that is let through and not released is at work.
LEMMA HolderIsAtWork ==
    ASSUME QueueInv, NEW c \in Calls, Holds(c), calls[c].file \notin Linked
    PROVE  AtWork(c)
BY DEF QueueInv, QueueIsFifo, Holds, Entered, AtWork, Active

\* Nobody waits for a call that is let through: the promise it waited for
\* stood for all calls ahead of it.
LEMMA TurnHasCome ==
    ASSUME Types, CallInv, QueueInv, NEW c \in Calls, calls[c].file \notin Linked,
           calls[c].at = "queued",
           calls[c].after # 0 => calls[calls[c].after].released
    PROVE  AtWork(c)
<1>1. ~calls[c].released
  BY DEF CallInv, CallIsSane
<1>2. \A e \in calls[c].ahead : calls[e].released
  BY DEF QueueInv, ChainInv, WaitsFor, StandsFor
<1> QED  BY <1>1, <1>2 DEF AtWork, Active

\* A call goes on, or is let through in its turn.
LEMMA GoingOnKeepsQueue ==
    ASSUME Types, CallInv, QueueInv, Calls' = Calls, tail' = tail,
           \A c \in Calls : Kept(c) /\ calls'[c].file = calls[c].file,
           \A c \in Calls :
               \/ calls'[c].at = calls[c].at
               \/ /\ calls[c].at \notin {"started", "over"} /\ Entered(c)'
                  /\ calls[c].file \notin Linked =>
                         \A e \in calls[c].ahead : calls[e].released
    PROVE  QueueInv'
<1>1. \A c \in Calls : Active(c)' <=> Active(c)
  BY DEF Active, Kept, Entered
<1>2. AheadInv'
  <2>1. \A c \in Calls : \A d \in calls[c].ahead :
            d \in Calls /\ d # c /\ calls[d].file = calls[c].file
            /\ (calls[d].released \/ Active(d))
    BY DEF QueueInv, AheadInv
  <2> QED  BY <1>1, <2>1 DEF AheadInv, Kept
<1>3. ChainInv'
  <2>1. ASSUME NEW c \in Calls, calls'[c].at = "queued", calls'[c].file \notin Linked,
               NEW d, d = calls'[c].after
        PROVE  WaitsFor(c, d)'
    <3>1. calls[c].at = "queued" /\ calls[c].file \notin Linked
      BY <2>1 DEF Entered
    <3>2. Kept(c) /\ \A e \in calls[c].ahead : Kept(e)
      BY DEF QueueInv, AheadInv
    <3>3. d = calls[c].after /\ WaitsFor(c, d)
      BY <2>1, <3>1, <3>2 DEF QueueInv, ChainInv, Kept
    <3>4. d # 0 => Kept(d)
      BY <3>2, <3>3 DEF WaitsFor
    <3> QED  BY <3>2, <3>3, <3>4 DEF Kept, WaitsFor, StandsFor
  <2>2. ASSUME NEW f \in Files \ Linked, NEW t, t = tail'[<<f, "real">>]
        PROVE  EndsWith(f, t)'
    <3>1. EndsWith(f, t)
      BY <2>2 DEF QueueInv, ChainInv
    <3> QED  BY <1>1, <3>1 DEF EndsWith, Kept
  <2> QED  BY <2>1, <2>2 DEF ChainInv, WaitsFor, StandsFor, EndsWith
<1>4. OrderInv'
  <2>1. \A c, d \in Calls : calls[c].file = calls[d].file /\ Active(c) /\ Active(d)
            => c = d \/ c \in calls[d].ahead \/ d \in calls[c].ahead
    BY DEF QueueInv, OrderInv
  <2> QED  BY <1>1, <2>1 DEF OrderInv, Kept
<1>5. QueueIsFifo'
  <2> SUFFICES ASSUME NEW c \in Calls, Entered(c)', calls'[c].file \notin Linked,
                      NEW d \in calls'[c].ahead
               PROVE  calls'[d].released
    BY DEF QueueIsFifo
  <2>1. calls[c].file \notin Linked /\ d \in calls[c].ahead /\ d \in Calls
    BY DEF Kept, QueueInv, AheadInv
  <2>2. calls[d].released
    BY <2>1 DEF Entered, AtWork, QueueInv, QueueIsFifo
  <2> QED  BY <2>1, <2>2 DEF Kept
<1> QED  BY <1>2, <1>3, <1>4, <1>5 DEF QueueInv

\* Calls that nobody is ahead of are released, and those of them that were the
\* last of their chain end it.
LEMMA ReleaseKeepsQueue ==
    ASSUME Types, CallInv, QueueInv, Calls' = Calls, NEW H, H \subseteq Calls,
           \A c \in Calls : calls'[c].file = calls[c].file,
           \A c \in Calls \ H : Kept(c) /\ calls'[c].at = calls[c].at,
           \A c \in H :
               /\ calls'[c].released
               /\ \/ calls'[c].at = "over" /\ calls'[c].ahead = {}
                  \/ calls'[c].at = calls[c].at /\ calls'[c].ahead = calls[c].ahead /\ Entered(c)
               /\ calls[c].file \notin Linked => \A e \in calls[c].ahead : calls[e].released,
           \A f \in Files \ Linked :
               tail'[<<f, "real">>] = IF tail[<<f, "real">>] \in H THEN 0 ELSE tail[<<f, "real">>]
    PROVE  QueueInv'
<1>1. \A c \in Calls : Active(c)' <=> Active(c) /\ c \notin H
  BY DEF Active, Kept
<1>2. \A c \in Calls : calls[c].released => calls'[c].released
  BY DEF Kept
<1>3. \A c \in Calls : calls'[c].ahead \subseteq calls[c].ahead
  BY DEF Kept
<1>4. \A c \in Calls : \A d \in calls[c].ahead :
          d \in Calls /\ d # c /\ calls[d].file = calls[c].file
          /\ (calls[d].released \/ Active(d))
  BY DEF QueueInv, AheadInv
<1>5. AheadInv'
  BY <1>1, <1>2, <1>3, <1>4 DEF AheadInv
<1>6. ChainInv'
  <2>1. ASSUME NEW c \in Calls, calls'[c].at = "queued", calls'[c].file \notin Linked,
               NEW d, d = calls'[c].after
        PROVE  WaitsFor(c, d)'
    <3>1. c \notin H /\ Kept(c) /\ calls[c].at = "queued" /\ calls[c].file \notin Linked
      BY <2>1 DEF Entered
    <3>2. d = calls[c].after /\ WaitsFor(c, d) /\ calls'[c].ahead = calls[c].ahead
      BY <2>1, <3>1 DEF QueueInv, ChainInv, Kept
    <3>3. CASE d = 0
      BY <1>2, <1>4, <3>2, <3>3 DEF WaitsFor
    <3>4. CASE d # 0
      <4>1. d \in Calls /\ d \in calls[c].ahead /\ StandsFor(d, c)
        BY <1>4, <3>2, <3>4 DEF WaitsFor
      <4>2. calls[d].file \notin Linked
        BY <1>4, <3>1, <4>1
      <4>3. ASSUME NEW e \in calls[c].ahead
            PROVE  calls'[e].released
                   \/ (~calls'[d].released /\ (e = d \/ e \in calls'[d].ahead))
        <5>1. e \in Calls
          BY <1>4
        <5>2. calls[e].released \/ (~calls[d].released /\ (e = d \/ e \in calls[d].ahead))
          BY <4>1 DEF StandsFor
        <5>3. CASE calls[e].released
          BY <1>2, <5>1, <5>3
        <5>4. CASE ~calls[d].released /\ (e = d \/ e \in calls[d].ahead)
          <6>1. CASE d \in H
            BY <1>2, <4>2, <5>1, <5>4, <6>1
          <6>2. CASE d \notin H
            BY <4>1, <5>4, <6>2 DEF Kept
          <6> QED  BY <6>1, <6>2
        <5> QED  BY <5>2, <5>3, <5>4
      <4> QED  BY <3>2, <3>4, <4>1, <4>3 DEF WaitsFor, StandsFor
    <3> QED  BY <3>3, <3>4
  <2>2. ASSUME NEW f \in Files \ Linked, NEW t, t = tail'[<<f, "real">>]
        PROVE  EndsWith(f, t)'
    <3> DEFINE last == tail[<<f, "real">>]
    <3>1. EndsWith(f, last)
      BY DEF QueueInv, ChainInv
    <3>2. t = IF last \in H THEN 0 ELSE last
      BY <2>2
    <3>3. 0 \notin Calls
      BY CallFields
    <3>4. PICK u : u = last
      OBVIOUS
    <3>5. EndsWith(f, u) /\ t = IF u \in H THEN 0 ELSE u
      BY <3>1, <3>2, <3>4
    <3> HIDE DEF last
    <3>6. CASE u = 0
      BY <1>1, <3>3, <3>5, <3>6 DEF EndsWith
    <3>7. CASE u # 0 /\ u \in H
      <4>1. calls[u].file = f /\ \A e \in calls[u].ahead : calls[e].released
        BY <3>5, <3>7 DEF EndsWith
      <4>2. \A c \in Calls : calls[c].file = f => ~(Active(c) /\ c \notin H)
        BY <3>5, <3>7, <4>1 DEF Active, EndsWith
      <4>3. t = 0
        BY <3>5, <3>7
      <4> QED  BY <1>1, <4>2, <4>3 DEF EndsWith
    <3>8. CASE u # 0 /\ u \notin H
      <4>1. u \in Calls /\ Kept(u) /\ t = u
        BY <3>5, <3>8 DEF EndsWith
      <4> QED  BY <1>1, <3>5, <3>8, <4>1 DEF EndsWith, Kept
    <3> QED  BY <3>6, <3>7, <3>8
  <2> QED  BY <2>1, <2>2 DEF ChainInv, WaitsFor, StandsFor, EndsWith
<1>7. OrderInv'
  <2>1. \A c, d \in Calls : calls[c].file = calls[d].file /\ Active(c) /\ Active(d)
            => c = d \/ c \in calls[d].ahead \/ d \in calls[c].ahead
    BY DEF QueueInv, OrderInv
  <2> QED  BY <1>1, <2>1 DEF OrderInv, Kept
<1>8. QueueIsFifo'
  <2> SUFFICES ASSUME NEW c \in Calls, Entered(c)', calls'[c].file \notin Linked,
                      NEW d \in calls'[c].ahead
               PROVE  calls'[d].released
    BY DEF QueueIsFifo
  <2>1. Entered(c) /\ calls[c].file \notin Linked /\ d \in calls[c].ahead /\ d \in Calls
    BY <1>3, <1>4 DEF Entered
  <2>2. calls[d].released
    BY <2>1 DEF QueueInv, QueueIsFifo
  <2> QED  BY <1>2, <2>1, <2>2
<1> QED  BY <1>5, <1>6, <1>7, <1>8 DEF QueueInv

-----------------------------------------------------------------------------
\* The actions: calls that start, join and are let through

\* A call that starts waits for nobody and nobody waits for it.
LEMMA StartCallKeeps ==
    ASSUME FileInv, NEW f \in Files, NEW k \in Kinds, StartCall(f, k)
    PROVE  FileInv'
<1> DEFINE new == Call(f, k)
<1>0. PICK n : n = Len(calls) + 1
  OBVIOUS
<1>1. /\ calls' = Append(calls, new) /\ Len(calls) < MaxCalls
      /\ batch' = batch \union {Len(calls')}
      /\ phase = "turn" /\ phase' = "turn"
      /\ UNCHANGED <<tail, disk, expected, stray, originals, turnEnds>>
  BY DEF StartCall, MayStart
<1>2. Types /\ calls \in Seq(CallType) /\ Len(calls) \in Nat /\ MaxCalls \in Nat
  BY FileAssumption DEF FileInv, Types
<1>3. new \in CallType
  BY <1>2 DEF Call, CallType, Kinds, Steps, Contents
<1>4. /\ new.file = f /\ new.at = "started" /\ new.ahead = {} /\ new.after = 0
      /\ new.released = FALSE /\ new.read = {}
  BY DEF Call
<1> HIDE DEF new
<1>5. calls' \in Seq(CallType) /\ Len(calls') = n /\ Calls = 1..Len(calls)
  BY <1>0, <1>1, <1>2, <1>3 DEF Calls
<1>6. Calls' = Calls \union {n} /\ n \notin Calls /\ n # 0
  BY <1>0, <1>2, <1>5 DEF Calls
<1>7. calls'[n] = new /\ \A c \in Calls : calls'[c] = calls[c]
  BY <1>0, <1>1, <1>2, <1>5
<1>8. Types'
  <2>1. Len(calls') <= MaxCalls /\ 0..Len(calls) \subseteq 0..Len(calls')
    BY <1>0, <1>1, <1>2, <1>5
  <2>2. tail' \in [Keys -> 0..Len(calls')]
    BY <1>1, <1>2, <2>1 DEF Types
  <2>3. batch' \subseteq Calls'
    BY <1>1, <1>2, <1>5, <1>6 DEF Types
  <2> QED  BY <1>1, <1>2, <1>5, <2>1, <2>2, <2>3 DEF Types, ContentType, Contents
<1>9. CallInv'
  <2>1. CallIsSane(n)'
    BY <1>4, <1>7 DEF CallIsSane, Entered
  <2>2. \A c \in Calls : CallIsSane(c)'
    BY <1>1, <1>7, SaneStays DEF FileInv
  <2> QED  BY <1>6, <2>1, <2>2 DEF CallInv
<1>10. TurnInv'
  BY <1>1, <1>5, <1>6, <1>7 DEF FileInv, TurnInv
<1>11. \A c \in Calls : \A d \in calls[c].ahead : d \in Calls
  BY DEF FileInv, QueueInv, AheadInv
<1>12. \A c \in Calls : Active(c)' <=> Active(c)
  BY <1>7 DEF Active
<1>13. ~Active(n)' /\ ~Entered(n)'
  BY <1>4, <1>7 DEF Active, Entered
<1>14. QueueInv'
  <2>1. AheadInv'
    BY <1>4, <1>6, <1>7, <1>11, <1>12 DEF FileInv, QueueInv, AheadInv
  <2>2. ASSUME NEW c \in Calls', calls'[c].at = "queued", calls'[c].file \notin Linked,
               NEW d, d = calls'[c].after
        PROVE  WaitsFor(c, d)'
    <3>1. c \in Calls /\ calls'[c] = calls[c]
      BY <1>4, <1>6, <1>7, <2>2
    <3>2. WaitsFor(c, d)
      BY <2>2, <3>1 DEF FileInv, QueueInv, ChainInv
    <3> QED  BY <1>7, <1>11, <3>1, <3>2 DEF WaitsFor, StandsFor
  <2>3. ASSUME NEW g \in Files \ Linked, NEW t, t = tail'[<<g, "real">>]
        PROVE  EndsWith(g, t)'
    <3>1. EndsWith(g, t)
      BY <1>1, <2>3 DEF FileInv, QueueInv, ChainInv
    <3> QED  BY <1>6, <1>7, <1>12, <1>13, <3>1 DEF EndsWith
  <2>4. ChainInv'
    BY <2>2, <2>3 DEF ChainInv, WaitsFor, StandsFor, EndsWith
  <2>5. OrderInv'
    BY <1>6, <1>7, <1>12, <1>13 DEF FileInv, QueueInv, OrderInv
  <2>6. QueueIsFifo'
    BY <1>6, <1>7, <1>11, <1>13 DEF FileInv, QueueInv, QueueIsFifo, Entered
  <2> QED  BY <2>1, <2>4, <2>5, <2>6 DEF QueueInv
<1>15. ContentInv'
  <2>1. NoUpdateLost'
    BY <1>1, <1>6, <1>7 DEF FileInv, ContentInv, NoUpdateLost, Entered
  <2>2. \A c \in Calls' : Holds(c)' => c \in Calls /\ Holds(c)
    BY <1>6, <1>7, <1>13 DEF Holds, Entered
  <2> QED  BY <1>1, <1>7, <2>1, <2>2, ZenonT(60) DEF FileInv, ContentInv
<1> QED  BY <1>8, <1>9, <1>10, <1>14, <1>15 DEF FileInv

\* A call that joins becomes the end of its chain.
LEMMA RunCallKeeps ==
    ASSUME FileInv, NEW c \in Calls, RunCall(c)
    PROVE  FileInv'
<1> DEFINE file == calls[c].file
           key == Key(file)
           new == [calls[c] EXCEPT !.at = "queued", !.after = tail[key], !.ahead = Joined(file)]
<1>1. /\ calls[c].at = "started"
      /\ calls' = [calls EXCEPT ![c].at = "queued", ![c].after = tail[key],
                                ![c].ahead = Joined(file)]
      /\ tail' = [tail EXCEPT ![key] = c]
      /\ UNCHANGED <<disk, expected, stray, originals, turnEnds, batch, phase>>
  BY DEF RunCall, Join
<1>2. Types /\ CallInv /\ QueueInv
  BY DEF FileInv
<1>3. file \in Files /\ key \in Keys
  BY <1>2, CallFields, KeyIsKey
<1>4. Joined(file) \subseteq 1..MaxCalls /\ c \notin Joined(file)
  BY <1>1, <1>2, CallFields DEF Joined
<1>5. tail[key] \in 0..Len(calls) /\ tail[key] \in 0..MaxCalls
  BY <1>2, <1>3, FileAssumption DEF Types
<1>6. calls' = [calls EXCEPT ![c] = new]
  BY <1>1, <1>2 DEF Types
<1>7. new \in CallType
  BY <1>2, <1>4, <1>5, CallFields DEF CallType, Steps
<1>8. /\ calls' \in Seq(CallType) /\ Len(calls') = Len(calls) /\ Calls' = Calls
      /\ calls'[c] = new /\ \A d \in Calls : d # c => calls'[d] = calls[d]
  <2> HIDE DEF new
  <2> QED  BY <1>2, <1>6, <1>7, ChangedCalls
<1>9. /\ calls'[c].file = file /\ calls'[c].at = "queued" /\ calls'[c].after = tail[key]
      /\ calls'[c].ahead = Joined(file) /\ calls'[c].released = calls[c].released
      /\ calls'[c].kind = calls[c].kind /\ calls'[c].read = calls[c].read
  BY <1>2, <1>8, CallFields DEF CallType
<1> HIDE DEF new
<1>10. ~calls[c].released
  BY <1>1, <1>2 DEF CallInv, CallIsSane
<1>11. \A d \in Calls : calls'[d].file = calls[d].file /\ calls'[d].released = calls[d].released
  BY <1>8, <1>9
<1>12. \A d \in Calls : Active(d)' <=> Active(d) \/ d = c
  BY <1>1, <1>8, <1>9, <1>10 DEF Active
<1>13. \A d \in Calls : Entered(d)' <=> Entered(d)
  BY <1>1, <1>8, <1>9 DEF Entered
<1>14. Types'
  <2>1. tail' \in [Keys -> 0..Len(calls')]
    BY <1>1, <1>2, <1>3, <1>8, CallFields DEF Types
  <2> QED  BY <1>1, <1>2, <1>8, <2>1 DEF Types, ContentType, Contents
<1>15. CallInv'
  <2>1. ~Entered(c)'
    BY <1>9 DEF Entered
  <2>2. calls[c].kind = "write" => calls[c].read = {}
    BY <1>2 DEF CallInv, CallIsSane
  <2>3. \A d \in Calls : d # c => CallIsSane(d)'
    BY <1>1, <1>2, <1>8, SaneStays
  <2>4. CallIsSane(c)'
    BY <1>9, <1>10, <2>1, <2>2 DEF CallIsSane
  <2> QED  BY <1>8, <2>3, <2>4 DEF CallInv
<1>16. TurnInv'
  BY <1>1, <1>8, <1>11 DEF FileInv, TurnInv
<1>17. \A d \in Joined(file) : /\ d \in Calls /\ d # c /\ calls[d].file = file
                               /\ calls[d].released \/ Active(d)
  BY <1>4 DEF Joined, Active
<1>18. \A d \in Calls : calls[d].file = file /\ Active(d) => d \in Joined(file)
  BY DEF Joined, Active
<1>19. \A a \in Calls : \A d \in calls[a].ahead :
           d \in Calls /\ d # a /\ d # c /\ calls[d].file = calls[a].file
           /\ (calls[d].released \/ Active(d))
  BY <1>1, <1>2, <1>10 DEF QueueInv, AheadInv, Active
<1> HIDE DEF file, key
<1>20. QueueInv'
  <2>1. AheadInv'
    BY <1>8, <1>9, <1>11, <1>12, <1>17, <1>19 DEF AheadInv
  <2>2. ASSUME NEW a \in Calls, calls'[a].at = "queued", calls'[a].file \notin Linked,
               NEW d, d = calls'[a].after
        PROVE  WaitsFor(a, d)'
    <3>1. CASE a # c
      <4>1. calls'[a] = calls[a]
        BY <1>8, <3>1
      <4>2. WaitsFor(a, d)
        BY <1>2, <2>2, <4>1 DEF QueueInv, ChainInv
      <4>3. d # 0 => d \in Calls /\ d # c /\ calls'[d] = calls[d]
        BY <1>8, <1>19, <4>2 DEF WaitsFor
      <4> QED  BY <1>8, <1>19, <4>1, <4>2, <4>3 DEF WaitsFor, StandsFor
    <3>2. CASE a = c
      <4>1. file \in Files \ Linked /\ key = <<file, "real">> /\ d = tail[<<file, "real">>]
        BY <1>3, <1>9, <2>2, <3>2, KeyOfFile DEF key, file
      <4>2. EndsWith(file, d)
        BY <1>2, <4>1 DEF QueueInv, ChainInv
      <4>3. CASE d = 0
        BY <1>9, <1>11, <1>17, <3>2, <4>2, <4>3 DEF EndsWith, WaitsFor
      <4>4. CASE d # 0
        <5>1. d \in Joined(file) /\ d # c /\ calls'[d] = calls[d] /\ ~calls[d].released
          BY <1>8, <1>17, <1>18, <4>2, <4>4 DEF EndsWith, Active
        <5>2. \A e \in Joined(file) : calls[e].released \/ e = d \/ e \in calls[d].ahead
          BY <1>17, <4>2, <4>4 DEF EndsWith
        <5> QED  BY <1>9, <1>11, <1>17, <3>2, <4>4, <5>1, <5>2 DEF WaitsFor, StandsFor
      <4> QED  BY <4>3, <4>4
    <3> QED  BY <3>1, <3>2
  <2>3. ASSUME NEW g \in Files \ Linked, NEW t, t = tail'[<<g, "real">>]
        PROVE  EndsWith(g, t)'
    <3>1. CASE g = file
      <4>1. t = c
        BY <1>1, <1>2, <1>3, <2>3, <3>1, KeyOfFile DEF key, Types
      <4>2. c # 0
        BY <1>2, CallFields
      <4> QED  BY <1>8, <1>9, <1>11, <1>12, <1>18, <3>1, <4>1, <4>2 DEF EndsWith, file
    <3>2. CASE g # file
      <4>1. <<g, "real">> # key
        BY <3>2 DEF key, Key
      <4>2. t = tail[<<g, "real">>]
        BY <1>1, <1>2, <2>3, <4>1, KeyOfFile DEF Types
      <4>3. EndsWith(g, t)
        BY <1>2, <4>2 DEF QueueInv, ChainInv
      <4>4. calls[c].file # g
        BY <3>2 DEF file
      <4>5. t # 0 => t # c
        BY <4>3, <4>4 DEF EndsWith
      <4> QED  BY <1>8, <1>9, <1>11, <1>12, <4>3, <4>4, <4>5 DEF EndsWith
    <3> QED  BY <3>1, <3>2
  <2>4. ChainInv'
    BY <1>8, <2>2, <2>3 DEF ChainInv, WaitsFor, StandsFor, EndsWith
  <2>5. OrderInv'
    <3> SUFFICES ASSUME NEW a \in Calls, NEW d \in Calls, calls'[a].file = calls'[d].file,
                        Active(a)', Active(d)', a # d
                 PROVE  a \in calls'[d].ahead \/ d \in calls'[a].ahead
      BY <1>8 DEF OrderInv
    <3>1. CASE a # c /\ d # c
      BY <1>2, <1>8, <1>12, <3>1 DEF QueueInv, OrderInv
    <3>2. CASE a = c
      BY <1>9, <1>11, <1>12, <1>18, <3>2
    <3>3. CASE d = c
      BY <1>9, <1>11, <1>12, <1>18, <3>3
    <3> QED  BY <3>1, <3>2, <3>3
  <2>6. QueueIsFifo'
    <3>1. ~Entered(c)'
      BY <1>9 DEF Entered
    <3> QED  BY <1>2, <1>8, <1>11, <1>13, <1>19, <3>1 DEF QueueInv, QueueIsFifo
  <2> QED  BY <2>1, <2>4, <2>5, <2>6 DEF QueueInv
<1>21. ContentInv'
  <2>1. NoUpdateLost'
    BY <1>1, <1>8, <1>11, <1>13 DEF FileInv, ContentInv, NoUpdateLost
  <2>2. \A d \in Calls : Holds(d)' => d # c /\ Holds(d)
    BY <1>9, <1>11, <1>13 DEF Holds, Entered
  <2> QED  BY <1>1, <1>8, <2>1, <2>2, ZenonT(60) DEF FileInv, ContentInv
<1> QED  BY <1>14, <1>15, <1>16, <1>20, <1>21 DEF FileInv

-----------------------------------------------------------------------------
\* The actions: file operations

\* A call that may be let through, or was.
MayWork(c) ==
    /\ calls[c].at \notin {"started", "over"}
    /\ calls[c].file \notin Linked => \A e \in calls[c].ahead : calls[e].released

\* What a step of one call keeps, the content of the files apart.
CallsKept ==
    /\ calls' \in Seq(CallType) /\ Len(calls') = Len(calls) /\ Calls' = Calls
    /\ tail' \in [Keys -> 0..Len(calls')]
    /\ CallInv' /\ TurnInv' /\ QueueInv'

\* A call that was let through has nobody left ahead of it.
LEMMA EnteredMayWork ==
    ASSUME QueueInv, NEW c \in Calls, Entered(c)
    PROVE  MayWork(c)
BY DEF QueueInv, QueueIsFifo, MayWork, Entered

\* A call that leaves releases the ones that wait for it.
LEMMA LeaveKeepsCalls ==
    ASSUME FileInv, NEW c \in Calls, Leave(c), MayWork(c),
           UNCHANGED <<batch, phase>>, stray \subseteq stray'
    PROVE  /\ CallsKept
           /\ calls'[c] = Over(calls[c])
           /\ \A d \in Calls : d # c => calls'[d] = calls[d]
<1> DEFINE new == Over(calls[c])
<1>1. Types /\ CallInv /\ TurnInv /\ QueueInv
  BY DEF FileInv
<1>2. calls' = [calls EXCEPT ![c] = new] /\ tail' = TailWithout(c)
  BY <1>1 DEF Leave, Types
<1>3. new \in CallType
  BY <1>1, CallFields, OverIsCall
<1>4. /\ calls' \in Seq(CallType) /\ Len(calls') = Len(calls) /\ Calls' = Calls
      /\ calls'[c] = new /\ \A d \in Calls : d # c => calls'[d] = calls[d]
  <2> HIDE DEF new
  <2> QED  BY <1>1, <1>2, <1>3, ChangedCalls
<1>5. /\ calls'[c].file = calls[c].file /\ calls'[c].at = "over" /\ calls'[c].ahead = {}
      /\ calls'[c].released /\ calls'[c].kind = calls[c].kind /\ calls'[c].read = {}
  BY <1>1, <1>4, CallFields, OverIsCall
<1> HIDE DEF new
<1>6. tail' \in [Keys -> 0..Len(calls')]
  BY <1>1, <1>2, <1>4, CallFields DEF TailWithout, Types
<1>7. CallInv'
  <2>1. CallIsSane(c)'
    BY <1>5 DEF CallIsSane, Entered
  <2>2. \A d \in Calls : d # c => CallIsSane(d)'
    BY <1>1, <1>4, SaneStays
  <2> QED  BY <1>4, <2>1, <2>2 DEF CallInv
<1>8. TurnInv'
  BY <1>1, <1>4, <1>5 DEF TurnInv
<1>9. QueueInv'
  <2> DEFINE H == {c}
  <2>1. \A d \in Calls : calls'[d].file = calls[d].file
    BY <1>4, <1>5
  <2>2. \A d \in Calls \ H : Kept(d) /\ calls'[d].at = calls[d].at
    BY <1>4 DEF Kept
  <2>3. \A d \in H :
            /\ calls'[d].released
            /\ \/ calls'[d].at = "over" /\ calls'[d].ahead = {}
               \/ calls'[d].at = calls[d].at /\ calls'[d].ahead = calls[d].ahead /\ Entered(d)
            /\ calls[d].file \notin Linked => \A e \in calls[d].ahead : calls[e].released
    BY <1>5 DEF MayWork
  <2>4. \A f \in Files \ Linked :
            tail'[<<f, "real">>] = IF tail[<<f, "real">>] \in H THEN 0 ELSE tail[<<f, "real">>]
    BY <1>2, KeyOfFile DEF TailWithout
  <2>5. H \subseteq Calls
    OBVIOUS
  <2> HIDE DEF H
  <2> QED  BY <1>1, <1>4, <2>1, <2>2, <2>3, <2>4, <2>5, ReleaseKeepsQueue
<1> QED  BY <1>4, <1>6, <1>7, <1>8, <1>9 DEF CallsKept, new

\* A call that goes on to its next file operation keeps its place.
LEMMA ProceedKeepsCalls ==
    ASSUME FileInv, NEW c \in Calls, NEW new \in CallType,
           calls' = [calls EXCEPT ![c] = new], tail' = tail, MayWork(c),
           new.at \in {"mkdir", "access", "read", "open", "write"},
           new.file = calls[c].file, new.kind = calls[c].kind, new.ahead = calls[c].ahead,
           new.after = calls[c].after, new.released = calls[c].released,
           new.at = "mkdir" => new.kind = "write",
           new.at \in {"access", "read"} => new.kind = "edit",
           new.kind = "write" => new.read = {},
           UNCHANGED <<batch, phase>>, stray \subseteq stray'
    PROVE  /\ CallsKept
           /\ calls'[c] = new
           /\ \A d \in Calls : d # c => calls'[d] = calls[d]
<1>1. Types /\ CallInv /\ TurnInv /\ QueueInv
  BY DEF FileInv
<1>2. /\ calls' \in Seq(CallType) /\ Len(calls') = Len(calls) /\ Calls' = Calls
      /\ calls'[c] = new /\ \A d \in Calls : d # c => calls'[d] = calls[d]
  BY <1>1, ChangedCalls
<1>3. tail' \in [Keys -> 0..Len(calls')]
  BY <1>1, <1>2 DEF Types
<1>4. CallInv'
  <2>1. CallIsSane(c)
    BY <1>1 DEF CallInv
  <2>2. Entered(c)' /\ calls'[c].released => calls'[c].file \in stray'
    <3>1. calls[c].at \in Steps \ {"started", "over"}
      BY <1>1, CallFields DEF MayWork
    <3>2. calls[c].released => Entered(c)
      BY <2>1, <3>1 DEF CallIsSane, Entered, Steps
    <3> QED  BY <1>2, <2>1, <3>2 DEF CallIsSane
  <2>3. CallIsSane(c)'
    BY <1>2, <2>2 DEF CallIsSane
  <2>4. \A d \in Calls : d # c => CallIsSane(d)'
    BY <1>1, <1>2, SaneStays
  <2> QED  BY <1>2, <2>3, <2>4 DEF CallInv
<1>5. TurnInv'
  BY <1>1, <1>2 DEF TurnInv
<1>6. QueueInv'
  <2>1. \A d \in Calls : Kept(d) /\ calls'[d].file = calls[d].file
    BY <1>2 DEF Kept
  <2>2. Entered(c)'
    BY <1>2 DEF Entered
  <2>3. \A d \in Calls :
            \/ calls'[d].at = calls[d].at
            \/ /\ calls[d].at \notin {"started", "over"} /\ Entered(d)'
               /\ calls[d].file \notin Linked => \A e \in calls[d].ahead : calls[e].released
    BY <1>2, <2>2 DEF MayWork
  <2> QED  BY <1>1, <1>2, <2>1, <2>3, GoingOnKeepsQueue
<1> QED  BY <1>2, <1>3, <1>4, <1>5, <1>6 DEF CallsKept

\* What holds of the file of the call when the step is done.
LocalContent(c, f) ==
    /\ Entered(c) \/ disk[f] = expected[f]
    /\ Holds(c) =>
        /\ calls[c].at # "write" => disk[f] = expected[f]
        /\ calls[c].kind = "edit" /\ calls[c].at \in {"open", "write"} =>
                calls[c].read = expected[f]

\* A call that works on a file is alone there.
LEMMA AloneAtFile ==
    ASSUME FileInv, NEW c \in Calls, MayWork(c), calls[c].file \notin stray \union Linked,
           NEW d \in Calls, d # c, calls[d].file = calls[c].file
    PROVE  ~Entered(d)
<1>1. Types /\ CallInv /\ QueueInv /\ CallIsSane(c) /\ CallIsSane(d)
  BY DEF FileInv, CallInv
<1>2. calls[c].at \in Steps \ {"started", "over"}
  BY <1>1, CallFields DEF MayWork
<1>3. ~calls[c].released
  BY <1>1, <1>2 DEF CallIsSane, Entered, Steps
<1>4. AtWork(c)
  BY <1>3 DEF AtWork, Active, MayWork
<1>5. Entered(d) => Holds(d)
  BY <1>1 DEF CallIsSane, Holds
<1>6. Entered(d) => AtWork(d)
  BY <1>1, <1>5, HolderIsAtWork
<1> QED  BY <1>1, <1>4, <1>6, Exclusive

\* Content is kept when it is kept at the file of the call.
LEMMA ContentKeptAt ==
    ASSUME FileInv, NEW c \in Calls, MayWork(c), CallsKept, stray \subseteq stray',
           \A d \in Calls : d # c => calls'[d] = calls[d],
           calls'[c].file = calls[c].file,
           \A g \in Files : g # calls[c].file => disk'[g] = disk[g] /\ expected'[g] = expected[g],
           \A f : f = calls[c].file /\ f \notin stray' \union Linked => LocalContent(c, f)'
    PROVE  ContentInv'
<1>1. ContentInv /\ Calls' = Calls
  BY DEF FileInv, CallsKept
<1>2. \A d \in Calls : calls'[d].file = calls[d].file /\ calls[d].file \in Files
  BY CallFields DEF FileInv
<1>3. \A d \in Calls : d # c => (Entered(d)' <=> Entered(d)) /\ (Holds(d)' <=> Holds(d))
  BY DEF Entered, Holds
<1>4. ASSUME NEW d \in Calls, d # c, calls[d].file = calls[c].file,
             calls[c].file \notin stray' \union Linked
      PROVE  ~Entered(d)' /\ ~Holds(d)'
  BY <1>3, <1>4, AloneAtFile DEF Holds
<1>5. ASSUME NEW f \in Files \ (stray' \union Linked),
             \A d \in Calls : calls'[d].file = f => ~Entered(d)'
      PROVE  disk'[f] = expected'[f]
  <2>1. CASE f = calls[c].file
    <3>1. ~Entered(c)' /\ LocalContent(c, f)'
      BY <1>2, <1>5, <2>1
    <3> QED  BY <3>1 DEF LocalContent
  <2>2. CASE f # calls[c].file
    <3>1. \A d \in Calls : calls[d].file = f => ~Entered(d)
      BY <1>2, <1>3, <1>5, <2>2
    <3> QED  BY <1>1, <1>5, <2>2, <3>1 DEF ContentInv, NoUpdateLost
  <2> QED  BY <2>1, <2>2
<1>6. ASSUME NEW d \in Calls, Holds(d)', calls'[d].file \notin stray' \union Linked
      PROVE  /\ calls'[d].at # "write" => disk'[calls'[d].file] = expected'[calls'[d].file]
             /\ calls'[d].kind = "edit" /\ calls'[d].at \in {"open", "write"} =>
                    calls'[d].read = expected'[calls'[d].file]
  <2>1. CASE d = c
    <3>1. PICK f : f = calls[c].file
      OBVIOUS
    <3>2. LocalContent(c, f)'
      BY <1>6, <2>1, <3>1
    <3> QED  BY <1>6, <2>1, <3>1, <3>2 DEF LocalContent
  <2>2. CASE d # c
    <3>1. calls[d].file # calls[c].file
      BY <1>2, <1>4, <1>6, <2>2
    <3>2. Holds(d) /\ calls[d].file \notin stray \union Linked /\ calls'[d] = calls[d]
      BY <1>3, <1>6, <2>2
    <3> QED  BY <1>1, <1>2, <3>1, <3>2 DEF ContentInv
  <2> QED  BY <2>1, <2>2
<1> QED  BY <1>1, <1>5, <1>6 DEF ContentInv, NoUpdateLost

\* What a call at work knows before its step.
LEMMA KnownContent ==
    ASSUME FileInv, NEW c \in Calls, Entered(c), calls[c].file \notin stray \union Linked
    PROVE  /\ Holds(c)
           /\ calls[c].at # "write" => disk[calls[c].file] = expected[calls[c].file]
           /\ calls[c].kind = "edit" /\ calls[c].at \in {"open", "write"} =>
                calls[c].read = expected[calls[c].file]
BY DEF FileInv, CallInv, CallIsSane, ContentInv, Holds

\* The file of a call that is let through is in order.
LEMMA CleanOnEntry ==
    ASSUME FileInv, NEW c \in Calls, calls[c].at = "queued", MayWork(c),
           calls[c].file \notin stray \union Linked
    PROVE  disk[calls[c].file] = expected[calls[c].file]
<1>1. calls[c].file \in Files
  BY CallFields DEF FileInv
<1>2. \A d \in Calls : calls[d].file = calls[c].file => ~Entered(d)
  BY AloneAtFile DEF Entered
<1> QED  BY <1>1, <1>2 DEF FileInv, ContentInv, NoUpdateLost

\* With the content kept, the step keeps the invariant.
LEMMA ToolStepKept ==
    ASSUME FileInv, CallsKept, disk' \in ContentType, expected' \in ContentType,
           ContentInv', UNCHANGED <<batch, originals, turnEnds>>
    PROVE  FileInv'
<1>1. Types'
  <2>1. Types
    BY DEF FileInv
  <2> QED  BY <2>1 DEF CallsKept, Types, ContentType, Contents
<1> QED  BY <1>1 DEF FileInv, CallsKept

\* A call that ends without writing leaves its file as it was.
LEMMA LeaveKeeps ==
    ASSUME FileInv, NEW c \in Calls, Leave(c), MayWork(c), calls[c].at # "write",
           UNCHANGED <<batch, phase, originals, turnEnds, disk, expected, stray>>
    PROVE  FileInv'
<1>1. /\ CallsKept /\ calls'[c] = Over(calls[c])
      /\ \A d \in Calls : d # c => calls'[d] = calls[d]
  BY LeaveKeepsCalls
<1>2. calls[c] \in CallType /\ calls[c].at \in Steps
  BY CallFields DEF FileInv
<1>3. calls'[c].file = calls[c].file /\ calls'[c].at = "over" /\ calls'[c].released
  BY <1>1, <1>2, OverIsCall
<1>4. calls[c].file \notin stray \union Linked => disk[calls[c].file] = expected[calls[c].file]
  BY <1>2, KnownContent, CleanOnEntry DEF MayWork, Entered, Steps
<1>5. \A f : f = calls[c].file /\ f \notin stray' \union Linked => LocalContent(c, f)'
  BY <1>3, <1>4 DEF LocalContent, Holds
<1>6. ContentInv'
  BY <1>1, <1>3, <1>5, ContentKeptAt
<1> QED  BY <1>1, <1>6, ToolStepKept DEF FileInv, Types

\* A call that goes on to its next file operation and has written nothing.
LEMMA ProceedKeeps ==
    ASSUME FileInv, NEW c \in Calls, MayWork(c),
           NEW step \in {"mkdir", "access", "read", "open"}, Proceed(c, step),
           calls[c].at # "write",
           step = "mkdir" => calls[c].kind = "write",
           step \in {"access", "read"} => calls[c].kind = "edit",
           step = "open" => calls[c].kind = "write",
           UNCHANGED <<batch, phase, originals, turnEnds, disk, expected, stray>>
    PROVE  FileInv'
<1> DEFINE new == [calls[c] EXCEPT !.at = step]
<1>1. Types /\ CallIsSane(c)
  BY DEF FileInv, CallInv
<1>2. calls' = [calls EXCEPT ![c] = new] /\ tail' = tail
  BY <1>1 DEF Proceed, Types
<1>3. calls[c] \in CallType /\ calls[c].at \in Steps
  BY <1>1, CallFields
<1>4. /\ new \in CallType /\ new.at = step /\ new.file = calls[c].file
      /\ new.kind = calls[c].kind /\ new.ahead = calls[c].ahead /\ new.after = calls[c].after
      /\ new.released = calls[c].released /\ new.read = calls[c].read
  BY <1>3 DEF CallType, Steps
<1>5. new.kind = "write" => new.read = {}
  BY <1>1, <1>4 DEF CallIsSane
<1> HIDE DEF new
<1>6. /\ CallsKept /\ calls'[c] = new
      /\ \A d \in Calls : d # c => calls'[d] = calls[d]
  BY <1>2, <1>4, <1>5, ProceedKeepsCalls
<1>7. calls[c].file \notin stray \union Linked => disk[calls[c].file] = expected[calls[c].file]
  BY <1>3, KnownContent, CleanOnEntry DEF MayWork, Entered, Steps
<1>8. \A f : f = calls[c].file /\ f \notin stray' \union Linked => LocalContent(c, f)'
  BY <1>4, <1>6, <1>7 DEF LocalContent, Entered
<1>9. ContentInv'
  BY <1>4, <1>6, <1>8, ContentKeptAt
<1> QED  BY <1>1, <1>6, <1>9, ToolStepKept DEF Types

\* The call whose turn has come is let through, or leaves as aborted.
LEMMA EnterKeeps ==
    ASSUME FileInv, NEW c \in Calls, Enter(c),
           UNCHANGED <<batch, phase, originals, turnEnds>>
    PROVE  FileInv'
<1>1. Types /\ CallInv /\ QueueInv
  BY DEF FileInv
<1>2. calls[c].at = "queued" /\ UNCHANGED <<disk, expected, stray>>
  BY DEF Enter
<1>3. MayWork(c)
  BY <1>1, <1>2, TurnHasCome DEF Enter, MayWork, AtWork
<1>4. CASE calls[c].aborted
  <2>1. Leave(c)
    BY <1>4 DEF Enter
  <2> QED  BY <1>2, <1>3, <2>1, LeaveKeeps
<1>5. CASE ~calls[c].aborted
  <2>1. calls[c].kind \in Kinds
    BY <1>1, CallFields
  <2>2. CASE calls[c].kind = "write"
    <3>1. Proceed(c, "mkdir")
      BY <1>5, <2>2 DEF Enter
    <3> QED  BY <1>2, <1>3, <2>2, <3>1, ProceedKeeps
  <2>3. CASE calls[c].kind = "edit"
    <3>1. Proceed(c, "access")
      BY <1>5, <2>3 DEF Enter
    <3> QED  BY <1>2, <1>3, <2>3, <3>1, ProceedKeeps
  <2> QED  BY <2>1, <2>2, <2>3 DEF Kinds
<1> QED  BY <1>4, <1>5

\* A write that has its directory goes on to open the file.
LEMMA MkdirDoneKeeps ==
    ASSUME FileInv, NEW c \in Calls, MkdirDone(c),
           UNCHANGED <<batch, phase, originals, turnEnds>>
    PROVE  FileInv'
<1>1. calls[c].at = "mkdir" /\ Proceed(c, "open") /\ UNCHANGED <<disk, expected, stray>>
  BY DEF MkdirDone
<1>2. calls[c].kind = "write"
  BY <1>1 DEF FileInv, CallInv, CallIsSane
<1>3. MayWork(c)
  BY <1>1, EnteredMayWork DEF FileInv, Entered
<1> QED  BY <1>1, <1>2, <1>3, ProceedKeeps

\* An edit goes on to read a file that is there.
LEMMA AccessDoneKeeps ==
    ASSUME FileInv, NEW c \in Calls, AccessDone(c),
           UNCHANGED <<batch, phase, originals, turnEnds>>
    PROVE  FileInv'
<1>1. calls[c].at = "access" /\ UNCHANGED <<disk, expected, stray>>
  BY DEF AccessDone
<1>2. calls[c].kind = "edit"
  BY <1>1 DEF FileInv, CallInv, CallIsSane
<1>3. MayWork(c)
  BY <1>1, EnteredMayWork DEF FileInv, Entered
<1>4. Proceed(c, "read")
  BY DEF AccessDone
<1> QED  BY <1>1, <1>2, <1>3, <1>4, ProceedKeeps

\* An edit keeps what it has read, which is what the calls before it left.
LEMMA ReadDoneKeeps ==
    ASSUME FileInv, NEW c \in Calls, ReadDone(c),
           UNCHANGED <<batch, phase, originals, turnEnds>>
    PROVE  FileInv'
<1> DEFINE content == disk[calls[c].file]
           new == [calls[c] EXCEPT !.at = "open", !.read = content]
<1>1. calls[c].at = "read" /\ UNCHANGED <<disk, expected, stray>>
  BY DEF ReadDone
<1>2. MayWork(c) /\ Entered(c)
  BY <1>1, EnteredMayWork DEF FileInv, Entered
<1>3. calls' = [calls EXCEPT ![c].at = "open", ![c].read = content] /\ tail' = tail
  BY DEF ReadDone
<1>4. Types /\ CallIsSane(c)
  BY DEF FileInv, CallInv
<1>5. calls[c] \in CallType /\ calls[c].file \in Files
  BY <1>4, CallFields
<1>6. calls[c].kind = "edit"
  BY <1>1, <1>4 DEF CallIsSane
<1>7. content \in Contents
  BY <1>4, <1>5 DEF Types, ContentType
<1>8. calls' = [calls EXCEPT ![c] = new]
  BY <1>3, <1>4 DEF Types
<1> HIDE DEF content
<1>9. /\ new \in CallType /\ new.at = "open" /\ new.file = calls[c].file
      /\ new.kind = calls[c].kind /\ new.ahead = calls[c].ahead
      /\ new.after = calls[c].after /\ new.released = calls[c].released
      /\ new.read = content
  BY <1>5, <1>7 DEF CallType, Steps
<1> HIDE DEF new
<1>10. /\ CallsKept /\ calls'[c] = new
       /\ \A d \in Calls : d # c => calls'[d] = calls[d]
  BY <1>1, <1>2, <1>3, <1>6, <1>8, <1>9, ProceedKeepsCalls
<1>11. calls[c].file \notin stray \union Linked =>
           disk[calls[c].file] = expected[calls[c].file]
  BY <1>1, <1>2, KnownContent
<1>12. \A f : f = calls[c].file /\ f \notin stray' \union Linked => LocalContent(c, f)'
  BY <1>1, <1>9, <1>10, <1>11 DEF LocalContent, Entered, content
<1>13. ContentInv'
  BY <1>1, <1>2, <1>9, <1>10, <1>12, ContentKeptAt
<1> QED  BY <1>1, <1>4, <1>10, <1>13, ToolStepKept DEF Types

\* A call whose file operation fails before the file is open leaves.
LEMMA StepFailsKeeps ==
    ASSUME FileInv, NEW c \in Calls, StepFails(c),
           UNCHANGED <<batch, phase, originals, turnEnds>>
    PROVE  FileInv'
<1>1. /\ calls[c].at \in {"mkdir", "access", "read", "open"} /\ Leave(c)
      /\ UNCHANGED <<disk, expected, stray>>
  BY DEF StepFails
<1>2. MayWork(c)
  BY <1>1, EnteredMayWork DEF FileInv, Entered
<1> QED  BY <1>1, <1>2, LeaveKeeps

\* The open tears the file of a call that holds it.
LEMMA OpenDoneKeeps ==
    ASSUME FileInv, NEW c \in Calls, OpenDone(c),
           UNCHANGED <<batch, phase, originals, turnEnds>>
    PROVE  FileInv'
<1> DEFINE new == [calls[c] EXCEPT !.at = "write"]
<1>1. /\ calls[c].at = "open" /\ calls' = [calls EXCEPT ![c].at = "write"]
      /\ disk' = [disk EXCEPT ![calls[c].file] = Torn]
      /\ UNCHANGED <<tail, expected, stray>>
  BY DEF OpenDone
<1>2. Types /\ CallIsSane(c)
  BY DEF FileInv, CallInv
<1>3. MayWork(c) /\ Entered(c)
  BY <1>1, EnteredMayWork DEF FileInv, Entered
<1>4. calls[c] \in CallType /\ calls[c].file \in Files
  BY <1>2, CallFields
<1>5. calls' = [calls EXCEPT ![c] = new]
  BY <1>1, <1>2 DEF Types
<1>6. /\ new \in CallType /\ new.at = "write" /\ new.file = calls[c].file
      /\ new.kind = calls[c].kind /\ new.ahead = calls[c].ahead
      /\ new.after = calls[c].after /\ new.released = calls[c].released
      /\ new.read = calls[c].read
  BY <1>4 DEF CallType, Steps
<1>7. new.kind = "write" => new.read = {}
  BY <1>2, <1>6 DEF CallIsSane
<1> HIDE DEF new
<1>8. /\ CallsKept /\ calls'[c] = new
      /\ \A d \in Calls : d # c => calls'[d] = calls[d]
  BY <1>1, <1>3, <1>5, <1>6, <1>7, ProceedKeepsCalls
<1>9. disk' \in ContentType /\ \A g \in Files : g # calls[c].file => disk'[g] = disk[g]
  <2>1. Torn \in Contents
    BY ContentsAre
  <2> QED  BY <1>1, <1>2, <2>1 DEF Types, ContentType
<1>10. \A f : f = calls[c].file /\ f \notin stray' \union Linked => LocalContent(c, f)'
  <2>1. calls[c].file \notin stray \union Linked /\ calls[c].kind = "edit" =>
            calls[c].read = expected[calls[c].file]
    BY <1>1, <1>3, KnownContent
  <2> QED  BY <1>1, <1>6, <1>8, <2>1 DEF LocalContent, Entered
<1>11. ContentInv'
  BY <1>1, <1>3, <1>6, <1>8, <1>9, <1>10, ContentKeptAt
<1> QED  BY <1>1, <1>2, <1>8, <1>9, <1>11, ToolStepKept DEF Types

\* The end of a write leaves the file as the calls before it and the call make
\* it.
LEMMA WriteEndsKeeps ==
    ASSUME FileInv, NEW c \in Calls, NEW content \in Contents, NEW result \in Contents,
           WriteEnds(c, content, result),
           calls[c].file \notin stray \union Linked => content = result,
           UNCHANGED <<batch, phase, originals, turnEnds>>
    PROVE  FileInv'
<1> DEFINE file == calls[c].file
<1>1. /\ calls[c].at = "write" /\ Leave(c)
      /\ disk' = [disk EXCEPT ![file] = content]
      /\ UNCHANGED stray
  BY DEF WriteEnds
<1>2. Types /\ CallIsSane(c)
  BY DEF FileInv, CallInv
<1>3. MayWork(c) /\ Entered(c)
  BY <1>1, EnteredMayWork DEF FileInv, Entered
<1>4. calls[c] \in CallType /\ file \in Files /\ calls[c].released \in BOOLEAN
  BY <1>2, CallFields
<1>5. disk' \in ContentType /\ disk'[file] = content
      /\ \A g \in Files : g # file => disk'[g] = disk[g]
  BY <1>1, <1>2, <1>4 DEF Types, ContentType
<1>6. \/ calls[c].released /\ expected' = expected
      \/ ~calls[c].released /\ expected' = [expected EXCEPT ![file] = result]
  BY DEF WriteEnds
<1>7. /\ CallsKept /\ calls'[c] = Over(calls[c])
      /\ \A d \in Calls : d # c => calls'[d] = calls[d]
  BY <1>1, <1>3, LeaveKeepsCalls
<1>8. calls'[c].file = file /\ calls'[c].at = "over" /\ calls'[c].released
  BY <1>4, <1>7, OverIsCall
<1>9. expected' \in ContentType /\ \A g \in Files : g # file => expected'[g] = expected[g]
  BY <1>2, <1>4, <1>6 DEF Types, ContentType
<1>10. file \notin stray \union Linked => expected'[file] = content
  <2> SUFFICES ASSUME file \notin stray \union Linked
               PROVE  expected'[file] = content
    OBVIOUS
  <2>1. ~calls[c].released
    BY <1>1, <1>3, KnownContent DEF Holds
  <2> QED  BY <1>2, <1>4, <1>6, <2>1 DEF Types, ContentType
<1>11. \A f : f = calls[c].file /\ f \notin stray' \union Linked => LocalContent(c, f)'
  BY <1>1, <1>5, <1>8, <1>10 DEF LocalContent, Holds
<1>12. ContentInv'
  BY <1>1, <1>3, <1>5, <1>7, <1>8, <1>9, <1>11, ContentKeptAt
<1> QED  BY <1>5, <1>7, <1>9, <1>12, ToolStepKept

\* What is written is the effect of the call on what the calls before it left.
LEMMA WriteDoneKeeps ==
    ASSUME FileInv, NEW c \in Calls, WriteDone(c),
           UNCHANGED <<batch, phase, originals, turnEnds>>
    PROVE  FileInv'
<1>1. WriteEnds(c, Written(c), Expected(c)) /\ calls[c].at = "write"
  BY DEF WriteDone, WriteEnds
<1>2. Types /\ CallIsSane(c) /\ Entered(c)
  BY <1>1 DEF FileInv, CallInv, Entered
<1>3. /\ calls[c].file \in Files /\ calls[c].read \in Contents
      /\ c \in 1..MaxCalls /\ calls[c].kind \in Kinds
  BY <1>2, CallFields
<1>4. expected[calls[c].file] \in Contents
  BY <1>2, <1>3 DEF Types, ContentType
<1>5. Written(c) \in Contents
  BY <1>3, ContentsAre DEF Written
<1>6. Expected(c) \in Contents
  BY <1>3, <1>4, ContentsAre DEF Expected
<1>7. calls[c].file \notin stray \union Linked => Written(c) = Expected(c)
  <2>1. calls[c].file \notin stray \union Linked /\ calls[c].kind = "edit" =>
            calls[c].read = expected[calls[c].file]
    BY <1>1, <1>2, KnownContent
  <2>2. calls[c].kind = "write" => calls[c].read = {}
    BY <1>2 DEF CallIsSane
  <2> QED  BY <1>3, <2>1, <2>2 DEF Written, Expected, Kinds
<1> QED  BY <1>1, <1>5, <1>6, <1>7, WriteEndsKeeps

\* A write that fails half-way leaves a part of it.
LEMMA WriteFailsKeeps ==
    ASSUME FileInv, NEW c \in Calls, WriteFails(c),
           UNCHANGED <<batch, phase, originals, turnEnds>>
    PROVE  FileInv'
<1>1. WriteEnds(c, Torn, Torn)
  BY DEF WriteFails
<1> QED  BY <1>1, ContentsAre, WriteEndsKeeps

\* So every step of a tool keeps the invariant.
LEMMA ToolStepKeeps ==
    ASSUME FileInv, NEW c \in Calls, ToolStep(c)
    PROVE  FileInv'
<1>1. UNCHANGED <<batch, phase, originals, turnEnds>>
  BY DEF ToolStep
<1> QED  BY <1>1, EnterKeeps, MkdirDoneKeeps, AccessDoneKeeps, ReadDoneKeeps, OpenDoneKeeps,
            WriteDoneKeeps, StepFailsKeeps, WriteFailsKeeps DEF ToolStep, FileStep

-----------------------------------------------------------------------------
\* The actions: refusals, aborts, crashes and restores

\* A call that is refused has not joined.
LEMMA RefuseCallKeeps ==
    ASSUME FileInv, NEW c \in Calls, RefuseCall(c)
    PROVE  FileInv'
<1> DEFINE new == Over(calls[c])
<1>1. /\ calls[c].at = "started" /\ calls' = [calls EXCEPT ![c] = Over(@)]
      /\ batch' = batch \ {c}
      /\ UNCHANGED <<tail, disk, expected, stray, phase, originals, turnEnds>>
  BY DEF RefuseCall
<1>2. Types /\ CallInv /\ TurnInv /\ QueueInv /\ ContentInv
  BY DEF FileInv
<1>3. new \in CallType
  BY <1>2, CallFields, OverIsCall
<1>4. calls' = [calls EXCEPT ![c] = new]
  BY <1>1, <1>2 DEF Types
<1>5. /\ calls' \in Seq(CallType) /\ Len(calls') = Len(calls) /\ Calls' = Calls
      /\ calls'[c] = new /\ \A d \in Calls : d # c => calls'[d] = calls[d]
  <2> HIDE DEF new
  <2> QED  BY <1>2, <1>3, <1>4, ChangedCalls
<1>6. /\ calls'[c].file = calls[c].file /\ calls'[c].at = "over" /\ calls'[c].ahead = {}
      /\ calls'[c].released /\ calls'[c].read = {}
  BY <1>2, <1>5, CallFields, OverIsCall
<1> HIDE DEF new
<1>7. Types'
  BY <1>1, <1>2, <1>5 DEF Types, ContentType, Contents
<1>8. CallInv'
  <2>1. CallIsSane(c)'
    BY <1>6 DEF CallIsSane, Entered
  <2>2. \A d \in Calls : d # c => CallIsSane(d)'
    BY <1>1, <1>2, <1>5, SaneStays
  <2> QED  BY <1>5, <2>1, <2>2 DEF CallInv
<1>9. TurnInv'
  BY <1>1, <1>2, <1>5, <1>6 DEF TurnInv
<1>10. ~calls[c].released /\ ~Active(c)
  BY <1>1, <1>2 DEF CallInv, CallIsSane, Active
<1>11. \A d \in Calls : c \notin calls[d].ahead
  BY <1>2, <1>10 DEF QueueInv, AheadInv
<1>12. QueueInv'
  <2>1. AheadInv'
    BY <1>2, <1>5, <1>6, <1>11 DEF QueueInv, AheadInv, Active
  <2>2. \A d \in Calls : Active(d)' <=> Active(d)
    BY <1>5, <1>6, <1>10 DEF Active
  <2>3. ASSUME NEW a \in Calls, calls'[a].at = "queued", calls'[a].file \notin Linked,
               NEW d, d = calls'[a].after
        PROVE  WaitsFor(a, d)'
    <3>1. calls'[a] = calls[a]
      BY <1>5, <1>6, <2>3
    <3>2. WaitsFor(a, d)
      BY <1>2, <2>3, <3>1 DEF QueueInv, ChainInv
    <3>3. \A e \in calls[a].ahead : e \in Calls /\ calls'[e] = calls[e]
      BY <1>2, <1>5, <1>11 DEF QueueInv, AheadInv
    <3> QED  BY <3>1, <3>2, <3>3 DEF WaitsFor, StandsFor
  <2>4. ASSUME NEW g \in Files \ Linked, NEW t, t = tail'[<<g, "real">>]
        PROVE  EndsWith(g, t)'
    <3>1. EndsWith(g, t)
      BY <1>1, <1>2, <2>4 DEF QueueInv, ChainInv
    <3> QED  BY <1>5, <1>6, <1>10, <2>2, <3>1 DEF EndsWith
  <2>5. ChainInv'
    BY <1>5, <2>3, <2>4 DEF ChainInv, WaitsFor, StandsFor, EndsWith
  <2>6. OrderInv'
    BY <1>2, <1>5, <1>10, <2>2 DEF QueueInv, OrderInv
  <2>7. QueueIsFifo'
    <3>1. \A d \in Calls : Entered(d)' => d # c /\ Entered(d) /\ calls'[d] = calls[d]
      BY <1>5, <1>6 DEF Entered
    <3>2. \A d \in Calls : \A e \in calls[d].ahead : e \in Calls /\ calls'[e] = calls[e]
      BY <1>2, <1>5, <1>11 DEF QueueInv, AheadInv
    <3> QED  BY <1>2, <1>5, <3>1, <3>2 DEF QueueInv, QueueIsFifo
  <2> QED  BY <2>1, <2>5, <2>6, <2>7 DEF QueueInv
<1>13. ContentInv'
  <2>1. \A d \in Calls : (Entered(d)' <=> Entered(d)) /\ (Holds(d)' <=> Holds(d))
    BY <1>1, <1>5, <1>6 DEF Entered, Holds
  <2>2. \A d \in Calls : calls'[d].file = calls[d].file
    BY <1>5, <1>6
  <2>3. NoUpdateLost'
    BY <1>1, <1>2, <1>5, <2>1, <2>2 DEF ContentInv, NoUpdateLost
  <2>4. \A d \in Calls : Holds(d)' => d # c
    BY <1>6 DEF Holds, Entered
  <2> QED  BY <1>1, <1>2, <1>5, <2>1, <2>3, <2>4 DEF ContentInv
<1> QED  BY <1>7, <1>8, <1>9, <1>12, <1>13 DEF FileInv

\* An abort releases all calls at work, and their files with what they have
\* begun to write.
LEMMA AbortKeeps ==
    ASSUME FileInv, Abort
    PROVE  FileInv'
<1> DEFINE Hit == {c \in batch : Holds(c)}
           Writing == {c \in Hit : calls[c].at \in {"open", "write"}}
           Rest(c) == [calls[c] EXCEPT !.aborted = @ \/ (c \in batch /\ calls[c].at # "over"),
                                       !.released = @ \/ c \in Writing]
<1>1. /\ calls' = [c \in Calls |-> IF c \in Hit \ Writing THEN Over(calls[c]) ELSE Rest(c)]
      /\ tail' = [k \in Keys |-> IF tail[k] \in Hit THEN 0 ELSE tail[k]]
      /\ stray' = stray \union {calls[c].file : c \in Writing}
      /\ UNCHANGED <<disk, expected, phase, batch, originals, turnEnds>>
  BY DEF Abort, AbortCalls
<1>2. Types /\ CallInv /\ TurnInv /\ QueueInv /\ ContentInv /\ batch \subseteq Calls
  BY DEF FileInv, Types
<1>3. Hit \subseteq Calls /\ Writing \subseteq Hit /\ \A c \in Hit : Entered(c) /\ Holds(c)
  BY <1>2 DEF Holds
<1>4. \A c \in Writing : calls[c].at \in {"open", "write"}
  OBVIOUS
<1>5. \A c \in Hit \ Writing : calls[c].at \in {"mkdir", "access", "read"}
  BY DEF Holds, Entered
<1>6. ASSUME NEW c \in Calls
      PROVE  /\ Over(calls[c]) \in CallType /\ Over(calls[c]).file = calls[c].file
             /\ Over(calls[c]).at = "over" /\ Over(calls[c]).ahead = {}
             /\ Over(calls[c]).released /\ Over(calls[c]).read = {}
             /\ Over(calls[c]).kind = calls[c].kind
  BY <1>2, CallFields, OverIsCall
<1>7. ASSUME NEW c \in Calls
      PROVE  /\ Rest(c) \in CallType
             /\ Rest(c).file = calls[c].file /\ Rest(c).kind = calls[c].kind
             /\ Rest(c).at = calls[c].at /\ Rest(c).after = calls[c].after
             /\ Rest(c).ahead = calls[c].ahead /\ Rest(c).read = calls[c].read
  <2>1. calls[c] \in CallType
    BY <1>2, CallFields
  <2>2. \A a, b \in BOOLEAN : [calls[c] EXCEPT !.aborted = a, !.released = b] \in CallType
    BY <2>1 DEF CallType
  <2>3. (calls[c].aborted \/ (c \in batch /\ calls[c].at # "over")) \in BOOLEAN
        /\ (calls[c].released \/ c \in Writing) \in BOOLEAN
    OBVIOUS
  <2> HIDE DEF Writing
  <2>4. Rest(c) = [calls[c] EXCEPT
                       !.aborted = (calls[c].aborted \/ (c \in batch /\ calls[c].at # "over")),
                       !.released = (calls[c].released \/ c \in Writing)]
    BY <2>1 DEF CallType
  <2> QED  BY <2>1, <2>2, <2>3, <2>4 DEF CallType
<1>8. ASSUME NEW c \in Calls
      PROVE  /\ c \in Writing => Rest(c).released
             /\ c \notin Writing => Rest(c).released = calls[c].released
  <2>1. calls[c] \in CallType /\ calls[c].released \in BOOLEAN
    BY <1>2, CallFields
  <2> HIDE DEF Writing
  <2>2. Rest(c).released = (calls[c].released \/ c \in Writing)
    BY <2>1 DEF CallType
  <2> QED  BY <2>1, <2>2
<1> HIDE DEF Hit, Writing, Rest
<1>9. calls' \in [Calls -> CallType]
  BY <1>1, <1>6, <1>7
<1>10. /\ calls' \in Seq(CallType) /\ Len(calls') = Len(calls) /\ Calls' = Calls
       /\ \A c \in Calls : calls'[c] = IF c \in Hit \ Writing THEN Over(calls[c]) ELSE Rest(c)
  BY <1>1, <1>2, <1>9, RebuiltCalls
<1>11. \A c \in Hit \ Writing : calls'[c].at = "over" /\ calls'[c].ahead = {}
                                /\ calls'[c].released /\ calls'[c].read = {}
  BY <1>3, <1>6, <1>10
<1>12. \A c \in Calls : calls'[c].file = calls[c].file /\ calls'[c].kind = calls[c].kind
  BY <1>6, <1>7, <1>10
<1>13. \A c \in Writing : /\ calls'[c].at = calls[c].at /\ calls'[c].ahead = calls[c].ahead
                          /\ calls'[c].read = calls[c].read /\ calls'[c].released
  BY <1>3, <1>7, <1>8, <1>10
<1>14. \A c \in Calls \ Hit : Kept(c) /\ calls'[c].at = calls[c].at
                              /\ calls'[c].read = calls[c].read
  BY <1>3, <1>7, <1>8, <1>10 DEF Kept
<1>15. \A c \in Writing : calls[c].file \in stray'
  BY <1>1
<1>16. Types'
  <2>1. tail' \in [Keys -> 0..Len(calls')]
    <3>1. Len(calls) \in Nat /\ tail \in [Keys -> 0..Len(calls)]
      BY <1>2 DEF Types
    <3>2. \A k \in Keys : (IF tail[k] \in Hit THEN 0 ELSE tail[k]) \in 0..Len(calls)
      BY <3>1
    <3> QED  BY <1>1, <1>10, <3>2
  <2> QED  BY <1>1, <1>2, <1>10, <2>1 DEF Types, ContentType, Contents
<1>17. CallInv'
  <2> SUFFICES ASSUME NEW c \in Calls PROVE CallIsSane(c)'
    BY <1>10 DEF CallInv
  <2>1. CallIsSane(c)
    BY <1>2 DEF CallInv
  <2>2. CASE c \in Hit \ Writing
    BY <1>11, <2>2 DEF CallIsSane, Entered
  <2>3. CASE c \in Writing
    BY <1>4, <1>12, <1>13, <1>15, <2>1, <2>3 DEF CallIsSane, Entered
  <2>4. CASE c \notin Hit
    <3>1. stray \subseteq stray'
      BY <1>1
    <3> QED  BY <1>12, <1>14, <2>1, <2>4, <3>1 DEF CallIsSane, Entered, Kept
  <2> QED  BY <1>3, <2>2, <2>3, <2>4
<1>18. \A c \in Hit : calls'[c].released
  BY <1>11, <1>13
<1>19. TurnInv'
  BY <1>1, <1>2, <1>10, <1>14, <1>18 DEF TurnInv, Kept
<1>20. QueueInv'
  <2>1. \A c \in Hit :
            /\ calls'[c].released
            /\ \/ calls'[c].at = "over" /\ calls'[c].ahead = {}
               \/ calls'[c].at = calls[c].at /\ calls'[c].ahead = calls[c].ahead /\ Entered(c)
            /\ calls[c].file \notin Linked => \A e \in calls[c].ahead : calls[e].released
    BY <1>2, <1>3, <1>11, <1>13, <1>18 DEF QueueInv, QueueIsFifo
  <2>2. \A f \in Files \ Linked :
            tail'[<<f, "real">>] = IF tail[<<f, "real">>] \in Hit THEN 0 ELSE tail[<<f, "real">>]
    BY <1>1, KeyOfFile
  <2> QED  BY <1>2, <1>3, <1>10, <1>12, <1>14, <2>1, <2>2, ReleaseKeepsQueue, ZenonT(60)
<1>21. ContentInv'
  <2>1. \A c \in Calls : Holds(c)' => Holds(c) /\ c \notin Hit
    BY <1>14, <1>18 DEF Holds, Entered, Kept
  <2>2. stray \subseteq stray'
    BY <1>1
  <2>3. ASSUME NEW f \in Files \ (stray' \union Linked),
               \A c \in Calls : calls'[c].file = f => ~Entered(c)'
        PROVE  disk'[f] = expected'[f]
    <3>1. CASE \E c \in Calls : calls[c].file = f /\ Entered(c)
      <4>1. PICK c \in Calls : calls[c].file = f /\ Entered(c)
        BY <3>1
      <4>2. c \in Hit /\ c \notin Writing
        BY <1>12, <1>14, <1>15, <2>3, <4>1 DEF Entered
      <4>3. calls[c].at # "write"
        BY <1>5, <4>2
      <4> QED  BY <1>1, <2>2, <2>3, <4>1, <4>3, KnownContent
    <3>2. CASE \A c \in Calls : calls[c].file = f => ~Entered(c)
      BY <1>1, <1>2, <2>2, <2>3, <3>2 DEF ContentInv, NoUpdateLost
    <3> QED  BY <3>1, <3>2
  <2>4. NoUpdateLost'
    BY <1>10, <2>3 DEF NoUpdateLost
  <2>5. ASSUME NEW c \in Calls, Holds(c)', calls'[c].file \notin stray' \union Linked
        PROVE  /\ calls'[c].at # "write" => disk'[calls'[c].file] = expected'[calls'[c].file]
               /\ calls'[c].kind = "edit" /\ calls'[c].at \in {"open", "write"} =>
                      calls'[c].read = expected'[calls'[c].file]
    <3>1. Holds(c) /\ calls[c].file \notin stray \union Linked
      BY <1>12, <2>1, <2>2, <2>5
    <3>2. calls'[c].at = calls[c].at /\ calls'[c].read = calls[c].read
      BY <1>14, <2>1, <2>5
    <3> QED  BY <1>1, <1>2, <1>12, <3>1, <3>2 DEF ContentInv
  <2> QED  BY <1>10, <2>4, <2>5 DEF ContentInv
<1> QED  BY <1>16, <1>17, <1>19, <1>20, <1>21 DEF FileInv

\* A crash leaves a content in each copy.
LEMMA CutCopiesTypes ==
    ASSUME Types, OriginalsCut, TurnEndsCut
    PROVE  originals' \in ContentType /\ turnEnds' \in [Turns -> ContentType]
<1>1. Torn \in Contents /\ None \in Contents
  BY ContentsAre
<1>2. originals' \in ContentType
  BY <1>1 DEF OriginalsCut, Types, ContentType
<1>3. turnEnds' \in [Turns -> ContentType]
  <2>1. turnEnds \in [Turns -> ContentType]
    BY DEF Types
  <2>2. ASSUME NEW f, NEW left \in {None, Torn},
               turnEnds' = [turnEnds EXCEPT ![turnIndex][f] = left]
        PROVE  turnEnds' \in [Turns -> ContentType]
    BY <1>1, <2>1, <2>2 DEF ContentType
  <2> QED  BY <2>1, <2>2 DEF TurnEndsCut
<1> QED  BY <1>2, <1>3

\* The process dies: nobody waits any more, and a file is what it was unless
\* a write was under way.
LEMMA CrashKeeps ==
    ASSUME FileInv, Crash
    PROVE  FileInv'
<1>1. /\ calls' = [c \in Calls |-> Over(calls[c])]
      /\ tail' = [k \in Keys |-> 0]
      /\ batch' = {}
      /\ stray' = stray \union {calls[c].file : c \in {d \in Calls : calls[d].at = "write"}}
      /\ UNCHANGED <<disk, expected>>
  BY DEF Crash
<1>2. Types /\ ContentInv
  BY DEF FileInv
<1>3. ASSUME NEW c \in Calls
      PROVE  /\ Over(calls[c]) \in CallType /\ Over(calls[c]).file = calls[c].file
             /\ Over(calls[c]).at = "over" /\ Over(calls[c]).ahead = {}
             /\ Over(calls[c]).released /\ Over(calls[c]).read = {}
  BY <1>2, CallFields, OverIsCall
<1>4. calls' \in [Calls -> CallType]
  BY <1>1, <1>3
<1>5. calls' \in Seq(CallType) /\ Len(calls') = Len(calls) /\ Calls' = Calls
  BY <1>2, <1>4, RebuiltCalls
<1>6. \A c \in Calls : /\ calls'[c].file = calls[c].file /\ calls'[c].at = "over"
                       /\ calls'[c].ahead = {} /\ calls'[c].released /\ calls'[c].read = {}
  BY <1>1, <1>3
<1>7. \A c \in Calls : ~Active(c)' /\ ~Entered(c)' /\ ~Holds(c)'
  BY <1>6 DEF Active, Entered, Holds
<1>8. Types'
  <2>1. Len(calls') \in Nat
    BY <1>5
  <2>2. tail' \in [Keys -> 0..Len(calls')]
    BY <1>1, <2>1
  <2>3. originals' \in ContentType /\ turnEnds' \in [Turns -> ContentType]
    BY <1>2, CutCopiesTypes DEF Crash
  <2> QED  BY <1>1, <1>2, <1>5, <2>2, <2>3 DEF Types, ContentType, Contents
<1>9. CallInv'
  BY <1>5, <1>6, <1>7 DEF CallInv, CallIsSane
<1>10. TurnInv'
  BY <1>5, <1>6 DEF TurnInv
<1>11. QueueInv'
  <2>1. AheadInv' /\ OrderInv' /\ QueueIsFifo'
    BY <1>5, <1>6, <1>7 DEF AheadInv, OrderInv, QueueIsFifo
  <2>2. \A f \in Files \ Linked : tail'[<<f, "real">>] = 0
    BY <1>1, KeyOfFile
  <2>3. ChainInv'
    BY <1>5, <1>6, <1>7, <2>2 DEF ChainInv, EndsWith
  <2> QED  BY <2>1, <2>3 DEF QueueInv
<1>12. ContentInv'
  <2>1. ASSUME NEW f \in Files \ (stray' \union Linked)
        PROVE  disk'[f] = expected'[f]
    <3>1. f \notin stray \union Linked
      BY <1>1
    <3>2. CASE \E c \in Calls : calls[c].file = f /\ Entered(c)
      <4>1. PICK c \in Calls : calls[c].file = f /\ Entered(c)
        BY <3>2
      <4>2. calls[c].at # "write"
        BY <1>1, <2>1, <4>1
      <4> QED  BY <1>1, <3>1, <4>1, <4>2, KnownContent
    <3>3. CASE \A c \in Calls : calls[c].file = f => ~Entered(c)
      BY <1>1, <1>2, <3>1, <3>3 DEF ContentInv, NoUpdateLost
    <3> QED  BY <3>2, <3>3
  <2> QED  BY <1>5, <1>7, <2>1 DEF ContentInv, NoUpdateLost
<1> QED  BY <1>8, <1>9, <1>10, <1>11, <1>12 DEF FileInv

\* A restore writes the files while no call is at work.
LEMMA RestoreKeeps ==
    ASSUME FileInv, NEW point \in Points, Restore(point)
    PROVE  FileInv'
<1>1. /\ disk' \in [Files -> {Torn} \union {disk[f] : f \in Files}
                             \union {RestoredContent(f, point) : f \in Files}]
      /\ expected' = disk' /\ phase = "idle" /\ phase' = phase
      /\ UNCHANGED <<calls, tail, batch, stray, originals, turnEnds>>
  BY DEF Restore
<1>2. Types /\ Calls' = Calls
  BY <1>1 DEF FileInv, Calls
<1>3. disk' \in ContentType
  <2>1. \A f \in Files : disk[f] \in Contents
    BY <1>2 DEF Types, ContentType
  <2>2. \A f \in Files : RestoredContent(f, point) \in Contents
    BY <1>2, RestoredIsContent
  <2> QED  BY <1>1, <2>1, <2>2, ContentsAre DEF ContentType
<1>4. Types'
  <2>1. ContentType' = ContentType
    BY DEF ContentType, Contents
  <2> QED  BY <1>1, <1>2, <1>3, <2>1 DEF Types
<1>5. \A c \in Calls : calls[c].released
  BY <1>1 DEF FileInv, TurnInv
<1>6. CallInv'
  BY <1>1, <1>2 DEF FileInv, CallInv, CallIsSane, Entered
<1>7. TurnInv'
  BY <1>1, <1>2, <1>5 DEF TurnInv
<1>8. QueueInv'
  BY <1>1, <1>2 DEF FileInv, QueueInv, AheadInv, ChainInv, OrderInv, QueueIsFifo, EndsWith,
                    WaitsFor, StandsFor, Active, Entered
<1>9. ContentInv'
  BY <1>1, <1>2, <1>5 DEF ContentInv, NoUpdateLost, Holds
<1> QED  BY <1>4, <1>6, <1>7, <1>8, <1>9 DEF FileInv

\* The checkpoint, beside a turn or between turns.
LEMMA AsideKeeps ==
    ASSUME FileInv, UNCHANGED <<toolVars, batch, phase>>,
           originals' \in ContentType, turnEnds' \in [Turns -> ContentType]
    PROVE  FileInv'
<1>1. Calls' = Calls /\ ContentType' = ContentType
  BY DEF Calls, ContentType, Contents
<1>2. Types'
  BY <1>1 DEF FileInv, Types
<1>3. CallInv' /\ TurnInv'
  BY <1>1 DEF FileInv, CallInv, CallIsSane, TurnInv, Entered
<1>4. QueueInv'
  BY <1>1 DEF FileInv, QueueInv, AheadInv, ChainInv, OrderInv, QueueIsFifo, EndsWith,
              WaitsFor, StandsFor, Active, Entered
<1>5. ContentInv'
  BY <1>1 DEF FileInv, ContentInv, NoUpdateLost, Holds, Entered
<1> QED  BY <1>2, <1>3, <1>4, <1>5 DEF FileInv

\* The run goes from one phase to the next, with all calls of a turn released
\* when it ends.
LEMMA PhaseKeeps ==
    ASSUME FileInv, UNCHANGED <<toolVars, originals>>, batch' \subseteq Calls,
           turnEnds' \in [Turns -> ContentType], \A c \in Calls : calls[c].released
    PROVE  FileInv'
<1>1. Calls' = Calls /\ ContentType' = ContentType
  BY DEF Calls, ContentType, Contents
<1>2. Types'
  BY <1>1 DEF FileInv, Types
<1>3. CallInv' /\ TurnInv'
  BY <1>1 DEF FileInv, CallInv, CallIsSane, TurnInv, Entered
<1>4. QueueInv'
  BY <1>1 DEF FileInv, QueueInv, AheadInv, ChainInv, OrderInv, QueueIsFifo, EndsWith,
              WaitsFor, StandsFor, Active, Entered
<1>5. ContentInv'
  BY <1>1 DEF FileInv, ContentInv, NoUpdateLost, Holds, Entered
<1> QED  BY <1>2, <1>3, <1>4, <1>5 DEF FileInv

-----------------------------------------------------------------------------
\* The theorem

\* The invariant of the files holds in the beginning ...
LEMMA FileInvInit ==
    ASSUME CheckpointInit
    PROVE  FileInv
<1>1. /\ calls = <<>> /\ tail = [k \in Keys |-> 0] /\ batch = {} /\ expected = disk
      /\ disk \in [Files -> {Missing, Original}]
      /\ originals = [f \in Files |-> None]
      /\ turnEnds = [k \in Turns |-> [f \in Files |-> None]]
  BY DEF CheckpointInit, ToolInit
<1>2. Calls = {} /\ Len(calls) = 0 /\ calls \in Seq(CallType)
  BY <1>1 DEF Calls
<1>3. Missing \in Contents /\ Original \in Contents /\ None \in Contents
  BY ContentsAre
<1>4. disk \in ContentType /\ originals \in ContentType /\ turnEnds \in [Turns -> ContentType]
  BY <1>1, <1>3 DEF ContentType
<1>5. Types
  BY <1>1, <1>2, <1>4, FileAssumption DEF Types
<1>6. CallInv /\ TurnInv /\ AheadInv /\ OrderInv /\ QueueIsFifo
  BY <1>2 DEF CallInv, TurnInv, AheadInv, OrderInv, QueueIsFifo
<1>7. ChainInv
  BY <1>1, <1>2, KeyOfFile DEF ChainInv, EndsWith
<1>8. ContentInv
  BY <1>1, <1>2 DEF ContentInv, NoUpdateLost
<1> QED  BY <1>5, <1>6, <1>7, <1>8 DEF FileInv, QueueInv

\* ... and every step keeps it.
LEMMA FileInvNext ==
    ASSUME FileInv, [Next]_vars
    PROVE  FileInv'
<1>1. Types /\ TurnInv
  BY DEF FileInv
<1>2. originals \in ContentType /\ turnEnds \in [Turns -> ContentType] /\ batch \subseteq Calls
  BY <1>1 DEF Types
<1>3. phase # "turn" => \A c \in Calls : calls[c].released
  BY <1>1 DEF TurnInv
<1>4. CASE StartRun
  BY <1>2, <1>3, <1>4, PhaseKeeps DEF StartRun
<1>5. CASE Reply
  BY <1>2, <1>3, <1>5, PhaseKeeps DEF Reply
<1>6. CASE EndTurn
  <2>1. \A c \in Calls : calls[c].released
    BY <1>1, <1>6 DEF EndTurn, TurnInv
  <2> QED  BY <1>2, <1>6, <2>1, PhaseKeeps DEF EndTurn
<1>7. CASE Captured
  BY <1>2, <1>3, <1>7, PhaseKeeps DEF Captured, Capturing
<1>8. CASE EndRun
  BY <1>2, <1>3, <1>8, PhaseKeeps DEF EndRun
<1>9. CASE Abort
  BY <1>9, AbortKeeps
<1>10. CASE Crash
  BY <1>10, CrashKeeps
<1>11. ASSUME NEW f \in Files, Capture(f)
       PROVE  FileInv'
  <2>1. disk[f] \in Contents
    BY <1>1 DEF Types, ContentType
  <2>2. turnEnds' \in [Turns -> ContentType]
    <3>1. CASE turnEnds' = turnEnds
      BY <1>2, <3>1
    <3>2. CASE turnEnds' = [turnEnds EXCEPT ![turnIndex][f] = disk[f]]
      BY <1>2, <2>1, <3>2 DEF ContentType
    <3> QED  BY <1>11, <3>1, <3>2 DEF Capture
  <2> QED  BY <1>2, <1>11, <2>2, AsideKeeps DEF Capture
<1>12. ASSUME NEW f \in Files, NEW k \in Kinds, StartCall(f, k)
       PROVE  FileInv'
  BY <1>12, StartCallKeeps
<1>13. ASSUME NEW c \in Calls, CallStep(c)
       PROVE  FileInv'
  BY <1>13, RunCallKeeps, RefuseCallKeeps, ToolStepKeeps DEF CallStep
<1>14. ASSUME NEW c \in Calls, CopyStep(c)
       PROVE  FileInv'
  <2>1. disk[calls[c].file] \in Contents
    BY <1>1, CallFields DEF Types, ContentType
  <2>2. originals' \in ContentType
    <3>1. CASE originals' = originals
      BY <1>2, <3>1
    <3>2. CASE originals' = [originals EXCEPT ![calls[c].file] = disk[calls[c].file]]
      BY <1>2, <2>1, <3>2 DEF ContentType
    <3> QED  BY <1>14, <3>1, <3>2 DEF CopyStep, CopyTurnFile, CopyOriginal
  <2>3. UNCHANGED <<toolVars, batch, phase, turnEnds>>
    BY <1>14 DEF CopyStep, CopyTurnFile, CopyOriginal
  <2> QED  BY <1>2, <2>2, <2>3, AsideKeeps
<1>15. ASSUME NEW p \in Points, Restore(p)
       PROVE  FileInv'
  BY <1>15, RestoreKeeps
<1>18. ASSUME NEW f \in Files, RunFails(f) \/ RunFailsAgain(f)
       PROVE  FileInv'
  <2>1. turnEnds' \in [Turns -> ContentType]
    <3>1. PICK left \in {None, turnEnds[turnIndex][f]} :
              turnEnds' = [turnEnds EXCEPT ![turnIndex][f] = left]
      BY <1>18 DEF RunFails, RunFailsAgain, CaptureFails
    <3>2. turnIndex \in Turns => left \in Contents
      BY <1>2, ContentsAre DEF ContentType
    <3> QED  BY <1>2, <3>1, <3>2 DEF ContentType
  <2>2. UNCHANGED <<toolVars, originals>> /\ batch' \subseteq Calls /\ phase # "turn"
    BY <1>2, <1>18 DEF RunFails, RunFailsAgain, CaptureFails
  <2> QED  BY <1>2, <1>3, <2>1, <2>2, PhaseKeeps
<1>16. ASSUME NEW p \in Points, Navigate(p)
       PROVE  FileInv'
  BY <1>2, <1>16, AsideKeeps DEF Navigate
<1>17. CASE UNCHANGED vars
  BY <1>2, <1>17, AsideKeeps
<1> QED  BY <1>4, <1>5, <1>6, <1>7, <1>8, <1>9, <1>10, <1>11, <1>12, <1>13, <1>14, <1>15,
            <1>16, <1>17, <1>18 DEF Next

\* The calls for a file take effect one after the other, in the order they
\* came, and no call loses what another one has written, whatever fails, is
\* refused, aborted, restored or cut off by a crash (file-mutation-queue.ts:16).
THEOREM CallsSerialized == Spec => []MutationsSerialized
<1>1. FileInv => MutationsSerialized
  BY DEF FileInv, QueueInv, ContentInv, MutationsSerialized
<1> QED  BY <1>1, FileInvInit, FileInvNext, PTL DEF Spec

-----------------------------------------------------------------------------
\* The invariant of the checkpoint

\* The files that calls were for.
FilesOfCalls == {calls[c].file : c \in Calls}

\* The tools run, or the end of their turn is copied.
InTurn == phase \in {"turn", "capture", "failed"}

\* Where the run is, and the points the session has.
PhaseInv ==
    /\ phase \in {"idle", "turn", "capture", "failed", "between"}
    /\ depth \in Nat /\ replies \in Nat /\ depth <= replies /\ replies <= MaxReplies
    /\ turnIndex \in Points
    /\ phase \in {"turn", "capture"} => depth = turnIndex + 1
    /\ phase = "failed" => depth = turnIndex + 2
    /\ phase = "between" => turnIndex = depth
    /\ restoredTo = NotRestored \/ restoredTo \in 0..depth
    /\ restoredTo # NotRestored => phase = "idle"
    /\ restoredTo = NotRestored => errors = {}
    /\ aborted \in BOOLEAN
    /\ toCapture \subseteq IF Capturing THEN turnChanges[turnIndex] ELSE {}

\* A copy under way, and the changes of all turns.
CopyType == [at : {"turn", "original", "done"}, turn : Turns]
ChangesType == [Turns -> SUBSET Files]

\* The types of the checkpoint and of the history.
RecordTypes ==
    /\ touched \subseteq Files /\ stray \subseteq Files
    /\ snapshotted \subseteq Files /\ created \subseteq Files
    /\ turnChanges \in ChangesType /\ turnSnapshots \in ChangesType
    /\ turnEndFiles \in ChangesType /\ savedChanges \in ChangesType
    /\ copying \in Seq(CopyType) /\ Len(copying) = Len(calls)
    /\ toCapture \subseteq Files
    /\ codeAt \in [Points -> ContentType]
    /\ late \subseteq Files /\ cut \subseteq Files /\ reused \subseteq Turns
    /\ lost \subseteq Files /\ errors \subseteq Files

\* The files of all calls are tracked, but for those a crash has lost, and a
\* call for a new file has listed it.
CallRecords ==
    /\ touched \union Tracked \subseteq FilesOfCalls \union lost
    /\ \A c \in Calls :
        /\ \/ calls[c].file \in cut \union lost
           \/ \E k \in Turns : calls[c].file \in turnChanges[k]
        /\ codeAt[0][calls[c].file] = Missing => calls[c].file \in created \union lost
        /\ calls[c].at = "write" => calls[c].file \in touched
    /\ phase = "turn" => \A c \in batch : calls[c].file \in turnChanges[turnIndex]

\* What is on disk of what is in memory.
SavedInv ==
    /\ savedCreated = created
    /\ \A f \in Files : f \in snapshotted <=> originals[f] # None
    /\ \A f \in Files : disk[f] # None
    /\ \A k \in Turns : savedChanges[k] \subseteq turnChanges[k]
    /\ \A k \in Turns : turnChanges[k] \ savedChanges[k] \subseteq {calls[c].file : c \in Unsaved}
    /\ touched \subseteq snapshotted \union created \union late \union lost

\* The turns that have not begun.
NotBegun(k) == k >= IF InTurn THEN turnIndex + 1 ELSE depth

\* A turn that has not ended has no copy of its end, unless the number was
\* used before.
TurnEndInv ==
    \A k \in Turns \ reused :
        /\ NotBegun(k) => turnChanges[k] = {}
        /\ NotBegun(k) \/ (phase = "turn" /\ k = turnIndex) => \A f \in Files : turnEnds[k][f] = None
        /\ Capturing /\ k = turnIndex =>
               \A f \in Files \ stray : turnEnds[k][f] \in {None, disk[f]}

\* A file no tool has opened is everywhere what it is on disk, but for a copy
\* that a crash has cut.
UntouchedInv ==
    \A f \in Files \ touched :
        /\ \A p \in Points : codeAt[p][f] = disk[f]
        /\ f \in cut \/ \A k \in Turns : turnEnds[k][f] \in {None, disk[f]}
        /\ f \in late \/ originals[f] \in {None, disk[f]}
        /\ f \in created => disk[f] = Missing

\* What a restore to a point does not promise of a file.
Exempt(f, p) ==
    \/ LatestChange(f, p) \in reused
    \/ f \in late /\ LatestChange(f, p) = -1
    \/ NoTurnEnd(f, p)

\* The content that is kept of a file for a point.
KeptContent(f, p) ==
    IF LatestChange(f, p) # -1 THEN turnEnds[LatestChange(f, p)][f]
    ELSE IF f \in created THEN Missing ELSE originals[f]

\* What a restore to the point would find of the file is its code there.
Good(f, p) == Exempt(f, p) \/ KeptContent(f, p) = codeAt[p][f]

\* The current turn changes the file, which has no end of the turn yet.
Working(f) == InTurn /\ f \in turnChanges[turnIndex]

\* The files of which nothing is promised.
Out == cut \union lost \union stray

\* Every file that was opened has a good copy for every point of the branch.
CopiesInv ==
    \A f \in touched \ Out : \A p \in 0..depth :
        Good(f, p) \/ (Working(f) /\ p > turnIndex)

\* The points whose code the files are at: a turn has that of its reply, and
\* of the reply of its failure.
At(p) ==
    IF restoredTo # NotRestored THEN p = restoredTo
    ELSE p <= depth /\ p >= IF InTurn THEN turnIndex + 1 ELSE depth

\* Between two turns the files are at the code of the point; within a turn,
\* those it does not change.
NowInv ==
    \A f \in Files \ (Out \union errors) : \A p \in Points :
        At(p) => \/ disk[f] = codeAt[p][f]
                 \/ Exempt(f, p) /\ ~InTurn
                 \/ Working(f)

\* All of it.
CheckpointInv ==
    /\ PhaseInv /\ RecordTypes /\ CallRecords /\ SavedInv
    /\ TurnEndInv /\ UntouchedInv /\ CopiesInv /\ NowInv

-----------------------------------------------------------------------------
\* Lemmas about the latest change

\* The turns before the point that change the file, and the last of some turns.
Changes(f, p) == {k \in Turns : k < p /\ f \in turnChanges[k]}
LatestOf(S) == IF S = {} THEN -1 ELSE CHOOSE k \in S : \A j \in S : j <= k

\* LatestChange in two parts.
LEMMA LatestOfChanges ==
    ASSUME NEW f, NEW p
    PROVE  LatestChange(f, p) = LatestOf(Changes(f, p))
BY DEF LatestChange, LatestOf, Changes

\* The latest change depends on the changes before the point only.
LEMMA SameLatest ==
    ASSUME NEW f, NEW p,
           \A k \in Turns : k < p => (f \in turnChanges'[k] <=> f \in turnChanges[k])
    PROVE  LatestChange(f, p)' = LatestChange(f, p)
<1>1. Changes(f, p)' = Changes(f, p)
  BY DEF Changes
<1>2. LatestChange(f, p)' = LatestOf(Changes(f, p))'
  BY DEF LatestChange, LatestOf, Changes
<1>3. LatestOf(Changes(f, p))' = LatestOf(Changes(f, p))
  BY <1>1 DEF LatestOf
<1> QED  BY <1>2, <1>3, LatestOfChanges

\* The next turn is the latest change of the point after it, if it changes
\* the file.
LEMMA LatestAfter ==
    ASSUME NEW f, NEW k \in Turns, NEW p, p = k + 1
    PROVE  /\ f \in turnChanges[k] => LatestChange(f, p) = k
           /\ f \notin turnChanges[k] => LatestChange(f, p) = LatestChange(f, k)
<1>1. k \in Nat /\ \A j \in Turns : j \in Nat
  BY CheckpointAssumption DEF Turns
<1>2. ASSUME f \in turnChanges[k] PROVE LatestChange(f, p) = k
  <2>1. k < p /\ \A j \in Turns : j < p => j <= k
    BY <1>1
  <2>2. PICK latest : latest = LatestChange(f, p)
    OBVIOUS
  <2>3. latest \in Turns /\ latest < p /\ k <= latest
    BY <1>2, <2>1, <2>2, LatestIsChange
  <2>4. latest \in Nat /\ latest <= k
    BY <1>1, <2>1, <2>3
  <2> QED  BY <1>1, <2>2, <2>3, <2>4
<1>3. ASSUME f \notin turnChanges[k] PROVE LatestChange(f, p) = LatestChange(f, k)
  <2>1. \A j \in Turns : j # k => (j < p <=> j < k)
    BY <1>1
  <2>2. Changes(f, p) = Changes(f, k)
    BY <1>1, <1>3, <2>1 DEF Changes
  <2> QED  BY <2>2, LatestOfChanges
<1> QED  BY <1>2, <1>3

\* All points of a turn have the same latest change, or that of an abandoned
\* branch.
LEMMA LatestInTurn ==
    ASSUME PhaseInv, TurnEndInv, InTurn, NEW f \in Files, NEW p \in Points, turnIndex < p,
           NEW q, q = turnIndex + 1
    PROVE  LatestChange(f, p) \in reused \/ LatestChange(f, p) = LatestChange(f, q)
<1>1. /\ turnIndex \in Nat /\ p \in Nat /\ \A k \in Turns : k \in Nat
  BY CheckpointAssumption DEF PhaseInv, Points, Turns
<1>2. CASE \E k \in Turns : turnIndex < k /\ k < p /\ f \in turnChanges[k]
  <2>1. PICK k \in Turns : turnIndex < k /\ k < p /\ f \in turnChanges[k]
    BY <1>2
  <2>2. PICK latest : latest = LatestChange(f, p)
    OBVIOUS
  <2>3. latest \in Turns /\ f \in turnChanges[latest] /\ k <= latest
    BY <2>1, <2>2, LatestIsChange
  <2>4. latest >= turnIndex + 1
    BY <1>1, <2>1, <2>3
  <2> QED  BY <2>2, <2>3, <2>4 DEF TurnEndInv, NotBegun
<1>3. CASE ~\E k \in Turns : turnIndex < k /\ k < p /\ f \in turnChanges[k]
  <2>1. \A k \in Turns : k < q <=> k <= turnIndex
    BY <1>1
  <2>2. \A k \in Turns : f \in turnChanges[k] => (k < p <=> k < q)
    BY <1>1, <1>3, <2>1
  <2>3. Changes(f, p) = Changes(f, q)
    BY <2>2 DEF Changes
  <2> QED  BY <2>3, LatestOfChanges
<1> QED  BY <1>2, <1>3

\* The same of all files and points, before a step and after it.
TurnHasOneLatest ==
    PhaseInv /\ TurnEndInv /\ InTurn =>
        \A f \in Files, p, q \in Points :
            turnIndex < p /\ q = turnIndex + 1 =>
                LatestChange(f, p) \in reused \/ LatestChange(f, p) = LatestChange(f, q)

LEMMA TurnHasOneLatestAlways == TurnHasOneLatest
BY LatestInTurn DEF TurnHasOneLatest

LEMMA TurnHasOneLatestNext == TurnHasOneLatest'
BY TurnHasOneLatestAlways, PTL

\* What is exempt stays so, while the turns before the point stay as they are.
LEMMA ExemptStays ==
    ASSUME NEW f, NEW p, Exempt(f, p), late \subseteq late', reused \subseteq reused',
           \A k \in Turns : k < p =>
               /\ f \in turnChanges'[k] <=> f \in turnChanges[k]
               /\ f \in turnChanges[k] => turnEnds'[k][f] = turnEnds[k][f]
    PROVE  Exempt(f, p)'
<1>1. LatestChange(f, p)' = LatestChange(f, p)
  BY SameLatest
<1>2. LatestChange(f, p) # -1 => turnEnds'[LatestChange(f, p)][f] = turnEnds[LatestChange(f, p)][f]
  BY LatestIsChange
<1> QED  BY <1>1, <1>2 DEF Exempt, NoTurnEnd

\* A good copy stays good, while the turns before the point stay as they are.
LEMMA GoodStays ==
    ASSUME NEW f, NEW p, Good(f, p), late \subseteq late', reused \subseteq reused',
           \A k \in Turns : k < p =>
               /\ f \in turnChanges'[k] <=> f \in turnChanges[k]
               /\ f \in turnChanges[k] => turnEnds'[k][f] = turnEnds[k][f],
           f \in late' \/ ((f \in created' <=> f \in created) /\ originals'[f] = originals[f]),
           codeAt'[p][f] = codeAt[p][f]
    PROVE  Good(f, p)'
<1>1. CASE Exempt(f, p)
  BY <1>1, ExemptStays DEF Good
<1>2. CASE KeptContent(f, p) = codeAt[p][f]
  <2>1. LatestChange(f, p)' = LatestChange(f, p)
    BY SameLatest
  <2>2. LatestChange(f, p) # -1 => turnEnds'[LatestChange(f, p)][f] = turnEnds[LatestChange(f, p)][f]
    BY LatestIsChange
  <2>3. CASE LatestChange(f, p) # -1
    BY <1>2, <2>1, <2>2, <2>3 DEF Good, KeptContent
  <2>4. CASE LatestChange(f, p) = -1 /\ f \in late'
    BY <2>1, <2>4 DEF Good, Exempt
  <2>5. CASE LatestChange(f, p) = -1 /\ f \notin late'
    BY <1>2, <2>1, <2>5 DEF Good, KeptContent
  <2> QED  BY <2>3, <2>4, <2>5
<1> QED  BY <1>1, <1>2 DEF Good

-----------------------------------------------------------------------------
\* What the steps do to the calls and the files

\* A call that starts is the only new one.
LEMMA StartedCall ==
    ASSUME Types, NEW f \in Files, NEW k \in Kinds, StartCall(f, k),
           NEW n, n = Len(calls) + 1
    PROVE  /\ Calls' = Calls \union {n} /\ n \notin Calls /\ Len(calls') = n
           /\ calls'[n].file = f /\ calls'[n].at = "started"
           /\ \A c \in Calls : calls'[c] = calls[c]
           /\ batch' = batch \union {n}
<1>1. calls' = Append(calls, Call(f, k)) /\ batch' = batch \union {Len(calls')}
  BY DEF StartCall
<1>2. calls \in Seq(CallType) /\ Len(calls) \in Nat /\ MaxCalls \in Nat
  BY FileAssumption DEF Types
<1>3. Call(f, k) \in CallType /\ Call(f, k).file = f /\ Call(f, k).at = "started"
  BY <1>2 DEF Call, CallType, Kinds, Steps, Contents
<1>4. calls' \in Seq(CallType) /\ Len(calls') = n
  BY <1>1, <1>2, <1>3
<1>5. Calls = 1..Len(calls) /\ Calls' = 1..n
  BY <1>2, <1>4 DEF Calls
<1>6. calls'[n] = Call(f, k) /\ \A c \in 1..Len(calls) : calls'[c] = calls[c]
  BY <1>1, <1>2, <1>3
<1> QED  BY <1>1, <1>2, <1>3, <1>4, <1>5, <1>6

\* All other steps keep the calls, with their files.
CallsAsBefore ==
    /\ Calls' = Calls /\ Len(calls') = Len(calls)
    /\ \A c \in Calls : calls'[c].file = calls[c].file

\* A step of one call keeps all others.
LEMMA RestStay ==
    ASSUME Types, NEW c \in Calls, NEW call \in CallType, calls' = [calls EXCEPT ![c] = call],
           call.file = calls[c].file
    PROVE  CallsAsBefore /\ calls'[c] = call /\ \A d \in Calls : d # c => calls'[d] = calls[d]
BY ChangedCalls DEF CallsAsBefore

\* The steps of a call are its own; only an open takes it to its write.
LEMMA CallStepCalls ==
    ASSUME Types, NEW c \in Calls, CallStep(c)
    PROVE  /\ CallsAsBefore
           /\ \A d \in Calls : d # c => calls'[d] = calls[d]
           /\ calls'[c].at = "write" => calls[c].at = "open" /\ OpenDone(c)
<1>1. calls \in Seq(CallType) /\ calls[c] \in CallType /\ c \in 1..Len(calls)
  BY CallFields DEF Types
<1>2. ASSUME calls' = [calls EXCEPT ![c] = Over(@)]
      PROVE  /\ CallsAsBefore
             /\ \A d \in Calls : d # c => calls'[d] = calls[d]
             /\ calls'[c].at = "over"
  <2>1. Over(calls[c]) \in CallType /\ Over(calls[c]).file = calls[c].file
        /\ Over(calls[c]).at = "over"
    BY <1>1, OverIsCall
  <2>2. calls' = [calls EXCEPT ![c] = Over(calls[c])]
    BY <1>2
  <2> QED  BY <2>1, <2>2, RestStay
<1>3. ASSUME NEW step, Proceed(c, step)
      PROVE  /\ CallsAsBefore
             /\ \A d \in Calls : d # c => calls'[d] = calls[d]
             /\ calls'[c].at = step
  <2>1. calls' = [calls EXCEPT ![c].at = step]
    BY <1>3 DEF Proceed
  <2>2. Len(calls') = Len(calls) /\ Calls' = Calls
    BY <1>1, <2>1 DEF Calls
  <2>3. calls'[c].file = calls[c].file /\ calls'[c].at = step
    BY <1>1, <2>1 DEF CallType
  <2>4. \A d \in Calls : d # c => calls'[d] = calls[d]
    BY <1>1, <2>1 DEF Calls
  <2> QED  BY <2>2, <2>3, <2>4 DEF CallsAsBefore
<1>4. CASE RunCall(c)
  <2>1. PICK new : calls' = [calls EXCEPT ![c].at = "queued", ![c].after = new,
                                          ![c].ahead = Joined(calls[c].file)]
    BY <1>4 DEF RunCall, Join
  <2>2. Len(calls') = Len(calls) /\ Calls' = Calls
    BY <1>1, <2>1 DEF Calls
  <2>3. calls'[c].file = calls[c].file /\ calls'[c].at = "queued"
    BY <1>1, <2>1 DEF CallType
  <2>4. \A d \in Calls : d # c => calls'[d] = calls[d]
    BY <1>1, <2>1 DEF Calls
  <2> QED  BY <2>2, <2>3, <2>4 DEF CallsAsBefore
<1>5. CASE RefuseCall(c)
  BY <1>2, <1>5 DEF RefuseCall
<1>6. CASE Enter(c) \/ MkdirDone(c) \/ AccessDone(c) \/ StepFails(c)
  BY <1>2, <1>3, <1>6 DEF Enter, MkdirDone, AccessDone, StepFails, Leave
<1>7. CASE ReadDone(c)
  <2>1. calls' = [calls EXCEPT ![c].at = "open", ![c].read = disk[calls[c].file]]
    BY <1>7 DEF ReadDone
  <2>2. Len(calls') = Len(calls) /\ Calls' = Calls
    BY <1>1, <2>1 DEF Calls
  <2>3. calls'[c].file = calls[c].file /\ calls'[c].at = "open"
    BY <1>1, <2>1 DEF CallType
  <2>4. \A d \in Calls : d # c => calls'[d] = calls[d]
    BY <1>1, <2>1 DEF Calls
  <2> QED  BY <2>2, <2>3, <2>4 DEF CallsAsBefore
<1>8. CASE OpenDone(c)
  <2>1. calls[c].at = "open" /\ Proceed(c, "write")
    BY <1>8 DEF OpenDone, Proceed
  <2> QED  BY <1>3, <1>8, <2>1
<1>9. CASE WriteDone(c) \/ WriteFails(c)
  BY <1>2, <1>9 DEF WriteDone, WriteFails, WriteEnds, Leave
<1> QED  BY <1>4, <1>5, <1>6, <1>7, <1>8, <1>9 DEF CallStep, ToolStep, FileStep

\* A tool changes the content of its file only, which it has opened, in the
\* turn of its call or after it had been released.
LEMMA ToolStepFiles ==
    ASSUME FileInv, CallRecords, NEW c \in Calls, ToolStep(c)
    PROVE  /\ touched \subseteq touched' /\ touched' \subseteq touched \union {calls[c].file}
           /\ UNCHANGED stray
           /\ \A g \in Files :
                  \/ disk'[g] = disk[g] /\ (g \in touched' <=> g \in touched)
                  \/ /\ g = calls[c].file /\ g \in touched' /\ disk'[g] # None
                     /\ g \in stray \/ (phase = "turn" /\ g \in turnChanges[turnIndex])
<1> DEFINE file == calls[c].file
<1>1. disk \in ContentType /\ Types /\ file \in Files
  BY CallFields DEF FileInv, Types
<1>2. CASE Enter(c) \/ MkdirDone(c) \/ AccessDone(c) \/ ReadDone(c) \/ StepFails(c)
  BY <1>2 DEF Enter, MkdirDone, AccessDone, ReadDone, StepFails
<1>3. ASSUME calls[c].at \in {"open", "write"}
      PROVE  file \in stray \/ (phase = "turn" /\ file \in turnChanges[turnIndex])
  <2>1. CASE calls[c].released
    BY <1>3, <2>1 DEF FileInv, CallInv, CallIsSane, Entered
  <2>2. CASE ~calls[c].released
    BY <2>2 DEF FileInv, TurnInv, CallRecords
  <2> QED  BY <2>1, <2>2
<1>4. CASE OpenDone(c)
  <2>1. /\ calls[c].at = "open" /\ disk' = [disk EXCEPT ![file] = Torn]
        /\ touched' = touched \union {file} /\ UNCHANGED stray
    BY <1>4 DEF OpenDone
  <2>2. Torn # None
    BY DEF Torn, None
  <2> QED  BY <1>1, <1>3, <2>1, <2>2 DEF ContentType
<1>5. CASE WriteDone(c) \/ WriteFails(c)
  <2>1. PICK left \in {Written(c), Torn} :
            /\ calls[c].at = "write" /\ disk' = [disk EXCEPT ![file] = left]
            /\ UNCHANGED <<touched, stray>>
    BY <1>5 DEF WriteDone, WriteFails, WriteEnds
  <2>2. left # None
    BY DEF Written, Torn, None
  <2>3. file \in touched
    BY <2>1 DEF CallRecords
  <2> QED  BY <1>1, <1>3, <2>1, <2>2, <2>3 DEF ContentType
<1> QED  BY <1>2, <1>4, <1>5 DEF ToolStep, FileStep

\* An abort takes no call to a write.
LEMMA AbortCallsStay ==
    ASSUME FileInv, Abort
    PROVE  /\ CallsAsBefore
           /\ \A c \in Calls : calls'[c].at = "write" => calls[c].at = "write"
           /\ stray \subseteq stray' /\ UNCHANGED <<disk, touched>>
<1> DEFINE Hit == {c \in batch : Holds(c)}
           Writing == {c \in Hit : calls[c].at \in {"open", "write"}}
           Rest(c) == [calls[c] EXCEPT !.aborted = @ \/ (c \in batch /\ calls[c].at # "over"),
                                       !.released = @ \/ c \in Writing]
<1>1. /\ calls' = [c \in Calls |-> IF c \in Hit \ Writing THEN Over(calls[c]) ELSE Rest(c)]
      /\ stray' = stray \union {calls[c].file : c \in Writing}
      /\ UNCHANGED <<disk, touched>>
  BY DEF Abort, AbortCalls
<1>2. Types
  BY DEF FileInv
<1>3. \A c \in Calls : /\ Over(calls[c]).file = calls[c].file /\ Over(calls[c]).at = "over"
                       /\ Rest(c).file = calls[c].file /\ Rest(c).at = calls[c].at
  BY <1>2, CallFields, OverIsCall DEF CallType
<1> HIDE DEF Hit, Writing, Rest
<1>4. Calls' = Calls /\ \A c \in Calls : /\ calls'[c].file = calls[c].file
                                         /\ calls'[c].at \in {"over", calls[c].at}
  BY <1>1, <1>3 DEF Calls
<1>5. Types' /\ Len(calls') \in Nat /\ Len(calls) \in Nat
  BY <1>2, AbortKeeps DEF FileInv, Types
<1>6. Len(calls') = Len(calls)
  BY <1>2, <1>4, <1>5 DEF Calls, Types
<1> QED  BY <1>1, <1>4, <1>6 DEF CallsAsBefore

\* A crash ends all calls.
LEMMA CrashCallsStay ==
    ASSUME FileInv, Crash
    PROVE  /\ CallsAsBefore
           /\ \A c \in Calls : calls'[c].at = "over"
           /\ stray \subseteq stray' /\ UNCHANGED <<disk, touched>>
<1>1. /\ calls' = [c \in Calls |-> Over(calls[c])] /\ UNCHANGED <<disk, touched>>
      /\ stray' = stray \union {calls[c].file : c \in {d \in Calls : calls[d].at = "write"}}
  BY DEF Crash
<1>2. Types
  BY DEF FileInv
<1>3. \A c \in Calls : Over(calls[c]) \in CallType /\ Over(calls[c]).file = calls[c].file
                       /\ Over(calls[c]).at = "over"
  BY <1>2, CallFields, OverIsCall
<1>4. calls' \in [Calls -> CallType]
  BY <1>1, <1>3
<1>5. Len(calls') = Len(calls) /\ Calls' = Calls
  BY <1>2, <1>4, RebuiltCalls
<1> QED  BY <1>1, <1>3, <1>5 DEF CallsAsBefore

-----------------------------------------------------------------------------
\* Phases and types

\* The run goes from phase to phase, and the branch stays within its bound.
LEMMA PhaseInvNext ==
    ASSUME PhaseInv, [Next]_vars
    PROVE  PhaseInv'
<1>1. MaxReplies \in Nat \ {0} /\ Points = 0..MaxReplies
  BY CheckpointAssumption DEF Points
<1>2. CASE StartRun
  BY <1>1, <1>2 DEF StartRun, PhaseInv, Capturing
<1>3. CASE Reply
  BY <1>1, <1>3 DEF Reply, PhaseInv, Capturing, NotRestored
<1>4. CASE EndTurn
  BY <1>4 DEF EndTurn, PhaseInv, Capturing
<1>5. CASE Captured
  BY <1>1, <1>5 DEF Captured, PhaseInv, Capturing
<1>6. CASE EndRun
  BY <1>6 DEF EndRun, PhaseInv, Capturing
<1>7. CASE Abort
  BY <1>7 DEF Abort, PhaseInv, Capturing
<1>8. CASE Crash
  BY <1>8 DEF Crash, PhaseInv, Capturing
<1>9. ASSUME NEW p \in Points, Restore(p) PROVE PhaseInv'
  BY <1>1, <1>9 DEF Restore, PhaseInv, Capturing, NotRestored
<1>10. ASSUME NEW p \in Points, Navigate(p) PROVE PhaseInv'
  BY <1>1, <1>10 DEF Navigate, PhaseInv, Capturing
<1>11. ASSUME NEW f \in Files, Capture(f) PROVE PhaseInv'
  BY <1>11 DEF Capture, PhaseInv, Capturing
<1>12. ASSUME NEW f \in Files, RunFails(f) PROVE PhaseInv'
  BY <1>1, <1>12 DEF RunFails, CaptureFails, PhaseInv, Capturing
<1>13. ASSUME NEW f \in Files, RunFailsAgain(f) PROVE PhaseInv'
  BY <1>13 DEF RunFailsAgain, CaptureFails, PhaseInv, Capturing
<1>14. ASSUME NEW f \in Files, NEW k \in Kinds, StartCall(f, k) PROVE PhaseInv'
  BY <1>14 DEF StartCall, MayStart, PhaseInv, Capturing
<1>15. ASSUME UNCHANGED <<phase, depth, replies, turnIndex, restoreVars, aborted, toCapture,
                          turnChanges>>
       PROVE  PhaseInv'
  BY <1>15 DEF PhaseInv, Capturing
<1>16. ASSUME NEW c \in Calls, CallStep(c) \/ CopyStep(c)
       PROVE  UNCHANGED <<phase, depth, replies, turnIndex, restoreVars, aborted, toCapture,
                          turnChanges>>
  BY <1>16 DEF CallStep, RunCall, RefuseCall, ToolStep, CopyStep, CopyTurnFile, CopyOriginal
<1> QED  BY <1>2, <1>3, <1>4, <1>5, <1>6, <1>7, <1>8, <1>9, <1>10, <1>11, <1>12, <1>13, <1>14,
            <1>15, <1>16 DEF Next

\* The turn that runs is one of the turns.
LEMMA TurnInTurns ==
    ASSUME PhaseInv, InTurn
    PROVE  /\ turnIndex \in Turns /\ turnIndex \in Nat /\ turnIndex < depth
           /\ depth \in Points /\ depth # 0 /\ depth \in Nat /\ restoredTo = NotRestored
           /\ phase # "failed" => depth = turnIndex + 1
BY CheckpointAssumption DEF PhaseInv, InTurn, Turns, Points

\* The snapshot of a call adds to the records.
LEMMA StartCallTypes ==
    ASSUME FileInv, PhaseInv, RecordTypes, NEW f \in Files, NEW k \in Kinds, StartCall(f, k)
    PROVE  RecordTypes'
<1>1. turnIndex \in Turns
  BY TurnInTurns DEF StartCall, MayStart, InTurn
<1>2. PICK n : n = Len(calls) + 1
  OBVIOUS
<1>3. Len(calls') = n
  BY <1>2, StartedCall DEF FileInv
<1>4. [at |-> "turn", turn |-> turnIndex] \in CopyType /\ Copied \in CopyType
      /\ AfterTurnCopy(f) \in CopyType
  BY <1>1, CheckpointAssumption DEF CopyType, Copied, AfterTurnCopy, Turns
<1>5. copying' \in Seq(CopyType) /\ Len(copying') = n
  <2>1. PICK record \in CopyType : copying' = Append(copying, record)
    BY <1>4 DEF StartCall, TrackFirst
  <2>2. copying \in Seq(CopyType) /\ Len(copying) = Len(calls)
    BY DEF RecordTypes
  <2> HIDE DEF CopyType
  <2> QED  BY <1>2, <2>1, <2>2
<1>6. turnChanges' \in ChangesType
  BY <1>1 DEF StartCall, ChangesWith, RecordTypes, ChangesType
<1>7. savedChanges' \in ChangesType /\ created' \subseteq Files
  BY <1>6 DEF StartCall, TrackFirst, RecordTypes
<1>8. UNCHANGED <<touched, stray, snapshotted, turnSnapshots, turnEndFiles, toCapture, codeAt,
                  late, cut, lost, errors, reused>>
  BY DEF StartCall
<1> QED  BY <1>3, <1>5, <1>6, <1>7, <1>8
         DEF RecordTypes, CopyType, ChangesType, ContentType, Contents

\* So do its copies.
LEMMA CopyStepTypes ==
    ASSUME FileInv, RecordTypes, NEW c \in Calls, CopyStep(c)
    PROVE  RecordTypes'
<1>1. calls[c].file \in Files /\ c \in 1..Len(calls) /\ Types
  BY CallFields DEF FileInv
<1>2. copying[c] \in CopyType /\ c \in 1..Len(copying)
  BY <1>1 DEF RecordTypes
<1>3. Copied \in CopyType /\ AfterTurnCopy(calls[c].file) \in CopyType
  BY CheckpointAssumption DEF CopyType, Copied, AfterTurnCopy, Turns
<1>4. CASE CopyTurnFile(c)
  <2>1. copying' \in Seq(CopyType) /\ Len(copying') = Len(copying)
    BY <1>2, <1>3, <1>4 DEF CopyTurnFile, RecordTypes
  <2>2. turnSnapshots' \in ChangesType
    BY <1>1, <1>2, <1>4 DEF CopyTurnFile, RecordTypes, ChangesType, CopyType
  <2> QED  BY <1>4, <2>1, <2>2
           DEF CopyTurnFile, RecordTypes, CopyType, ChangesType, ContentType, Contents
<1>5. CASE CopyOriginal(c)
  <2>1. copying' \in Seq(CopyType) /\ Len(copying') = Len(copying)
    BY <1>2, <1>3, <1>5 DEF CopyOriginal, RecordTypes
  <2> QED  BY <1>1, <1>5, <2>1
           DEF CopyOriginal, RecordTypes, CopyType, ChangesType, ContentType, Contents
<1> QED  BY <1>4, <1>5 DEF CopyStep

\* A crash leaves of the records what is on disk.
LEMMA CrashTypes ==
    ASSUME FileInv, PhaseInv, RecordTypes, SavedInv, Crash
    PROVE  RecordTypes'
<1>1. Types /\ \A c \in Calls : calls[c].file \in Files
  BY CallFields DEF FileInv
<1>2. CallsAsBefore
  BY CrashCallsStay
<1>3. copying' \in Seq(CopyType) /\ Len(copying') = Len(calls)
  <2>1. Copied \in CopyType /\ copying' = [c \in Calls |-> Copied]
    BY CheckpointAssumption DEF CopyType, Copied, Turns, Crash
  <2>2. Calls = 1..Len(calls) /\ Len(calls) \in Nat
    BY <1>1 DEF Types, Calls
  <2> QED  BY <2>1, <2>2
<1>4. cut' \subseteq Files
  <2>1. InTurn => turnChanges[turnIndex] \subseteq Files
    BY TurnInTurns DEF RecordTypes, ChangesType
  <2>2. cut' = cut \union {calls[c].file : c \in Unsaved}
               \union (IF InTurn THEN turnChanges[turnIndex] ELSE {})
    BY DEF Crash, InTurn, Capturing
  <2>3. Unsaved \subseteq Calls
    BY DEF Unsaved
  <2> QED  BY <1>1, <2>1, <2>2, <2>3 DEF RecordTypes
<1>5. stray' \subseteq Files /\ late' \subseteq Files
  BY <1>1 DEF Crash, RecordTypes
<1>6. savedChanges' \in ChangesType /\ savedCreated' \subseteq Files /\ lost' \subseteq Files
  <2>1. /\ savedChanges \in ChangesType /\ savedCreated \subseteq Files /\ lost \subseteq Files
        /\ created \subseteq Files /\ \A k \in Turns : turnChanges[k] \subseteq Files
    BY DEF RecordTypes, SavedInv, ChangesType
  <2>2. CASE ListsKept
    BY <2>1, <2>2 DEF ListsKept
  <2>3. CASE ChangesCut
    BY <2>1, <2>3 DEF ChangesCut, NoChanges, ChangesType
  <2>4. ASSUME NEW f \in Files, CreatedCut(f)
        PROVE  savedChanges' \in ChangesType /\ savedCreated' \subseteq Files /\ lost' \subseteq Files
    <3>1. ChangesWith(f) \in ChangesType
      BY DEF RecordTypes, ChangesWith, ChangesType
    <3> QED  BY <2>1, <2>4, <3>1 DEF CreatedCut
  <2> QED  BY <2>2, <2>3, <2>4 DEF Crash
<1>7. /\ snapshotted' \subseteq Files /\ created' \subseteq Files
      /\ turnChanges' \in ChangesType /\ turnSnapshots' \in ChangesType
      /\ turnEndFiles' \in ChangesType /\ toCapture' \subseteq Files
  BY <1>6 DEF Crash, NoChanges, ChangesType
<1>8. UNCHANGED <<touched, codeAt, reused, errors>>
  BY DEF Crash
<1> QED  BY <1>2, <1>3, <1>4, <1>5, <1>6, <1>7, <1>8
         DEF RecordTypes, CallsAsBefore, CopyType, ChangesType, ContentType, Contents

\* The types of all that neither a call nor a crash changes.
LEMMA OtherTypes ==
    ASSUME RecordTypes, Len(calls') = Len(calls),
           UNCHANGED <<snapshotted, created, turnChanges, turnSnapshots, savedChanges, copying, cut,
                       lost>>,
           touched' \subseteq Files, stray' \subseteq Files, toCapture' \subseteq Files,
           late' \subseteq Files, reused' \subseteq Turns, errors' \subseteq Files,
           turnEndFiles' \in ChangesType, codeAt' \in [Points -> ContentType]
    PROVE  RecordTypes'
BY DEF RecordTypes, CopyType, ChangesType, ContentType, Contents

\* The records keep their types.
LEMMA RecordTypesNext ==
    ASSUME FileInv, PhaseInv, RecordTypes, SavedInv, [Next]_vars
    PROVE  RecordTypes'
<1>1. Types /\ disk \in ContentType /\ \A c \in Calls : calls[c].file \in Files
  BY CallFields DEF FileInv, Types
<1>2. /\ touched \subseteq Files /\ stray \subseteq Files /\ toCapture \subseteq Files
      /\ late \subseteq Files /\ reused \subseteq Turns /\ errors \subseteq Files
      /\ turnEndFiles \in ChangesType /\ codeAt \in [Points -> ContentType]
      /\ snapshotted \union created \subseteq Files
  BY DEF RecordTypes
<1>3. \A p \in Points : [codeAt EXCEPT ![p] = disk] \in [Points -> ContentType]
  BY <1>1, <1>2
<1>4. CASE StartRun
  BY <1>2, <1>4, OtherTypes DEF StartRun
<1>5. CASE Reply
  <2>1. codeAt' = [codeAt EXCEPT ![depth'] = disk]
    BY <1>5 DEF Reply
  <2>2. codeAt' \in [Points -> ContentType]
    BY <1>1, <1>2, <2>1
  <2> QED  BY <1>2, <1>5, <2>2, OtherTypes DEF Reply
<1>6. CASE EndTurn
  <2>1. toCapture' \subseteq Files
    BY <1>6, TurnInTurns DEF EndTurn, InTurn, RecordTypes, ChangesType
  <2> QED  BY <1>2, <1>6, <2>1, OtherTypes DEF EndTurn
<1>7. TurnIsOver => codeAt' \in [Points -> ContentType]
  BY <1>1, <1>2 DEF TurnIsOver
<1>7a. CASE Captured
  BY <1>2, <1>7, <1>7a, OtherTypes DEF Captured
<1>8. CASE EndRun
  BY <1>2, <1>8, OtherTypes DEF EndRun
<1>9. CASE Abort
  <2>1. Len(calls') = Len(calls)
    BY <1>9, AbortCallsStay DEF CallsAsBefore
  <2>2. stray' \subseteq Files
    <3>1. stray' \subseteq stray \union {calls[c].file : c \in batch}
      BY <1>9 DEF Abort, AbortCalls
    <3>2. batch \subseteq Calls
      BY <1>1 DEF Types
    <3> QED  BY <1>1, <1>2, <3>1, <3>2
  <2> QED  BY <1>2, <1>9, <2>1, <2>2, OtherTypes DEF Abort, AbortCalls
<1>10. CASE Crash
  BY <1>10, CrashTypes
<1>11. ASSUME NEW f \in Files, Capture(f) PROVE RecordTypes'
  <2>1. turnEndFiles' \in ChangesType
    BY <1>2, <1>11, TurnInTurns DEF Capture, Capturing, InTurn, ChangesType
  <2> QED  BY <1>2, <1>11, <2>1, OtherTypes DEF Capture
<1>11a. ASSUME NEW f \in Files, RunFails(f) PROVE RecordTypes'
  <2>1. toCapture' \subseteq Files
    BY <1>11a, TurnInTurns DEF RunFails, InTurn, RecordTypes, ChangesType
  <2>2. codeAt' \in [Points -> ContentType]
    BY <1>1, <1>2, <1>11a DEF RunFails
  <2> QED  BY <1>2, <1>11a, <2>1, <2>2, OtherTypes DEF RunFails, CaptureFails
<1>11b. ASSUME NEW f \in Files, RunFailsAgain(f) PROVE RecordTypes'
  BY <1>2, <1>7, <1>11b, OtherTypes DEF RunFailsAgain, CaptureFails
<1>12. ASSUME NEW f \in Files, NEW k \in Kinds, StartCall(f, k) PROVE RecordTypes'
  BY <1>12, StartCallTypes
<1>13. ASSUME NEW c \in Calls, CallStep(c) PROVE RecordTypes'
  <2>1. Len(calls') = Len(calls)
    BY <1>1, <1>13, CallStepCalls DEF CallsAsBefore
  <2>2. CASE RunCall(c)
    BY <1>2, <2>1, <2>2, OtherTypes DEF RunCall, Join
  <2>3. CASE RefuseCall(c)
    BY <1>2, <2>1, <2>3, OtherTypes DEF RefuseCall
  <2>4. CASE ToolStep(c)
    <3>1. touched' \subseteq Files /\ stray' = stray
      BY <1>1, <1>2, <2>4 DEF ToolStep, Enter, FileStep, MkdirDone, AccessDone, ReadDone,
                              StepFails, OpenDone, WriteDone, WriteFails, WriteEnds
    <3>2. late' \subseteq Files
      BY <1>2, <2>4, <3>1 DEF ToolStep, OpenedBefore
    <3> QED  BY <1>2, <2>1, <2>4, <3>1, <3>2, OtherTypes DEF ToolStep
  <2> QED  BY <1>13, <2>2, <2>3, <2>4 DEF CallStep
<1>14. ASSUME NEW c \in Calls, CopyStep(c) PROVE RecordTypes'
  BY <1>14, CopyStepTypes
<1>15. ASSUME NEW p \in Points, Restore(p) PROVE RecordTypes'
  <2>1. touched' \subseteq Files /\ late' \subseteq Files /\ errors' \subseteq Files
    BY <1>2, <1>15 DEF Restore, OpenedBefore, Tracked, RecordTypes, ChangesType
  <2> QED  BY <1>2, <1>15, <2>1, OtherTypes DEF Restore
<1>16. ASSUME NEW p \in Points, Navigate(p) PROVE RecordTypes'
  <2>1. reused' \subseteq Turns
    BY <1>2, <1>16, CheckpointAssumption DEF Navigate, PhaseInv, Turns, Points
  <2> QED  BY <1>2, <1>16, <2>1, OtherTypes DEF Navigate
<1>17. CASE UNCHANGED vars
  BY <1>2, <1>17, OtherTypes
<1> QED  BY <1>4, <1>5, <1>6, <1>7a, <1>8, <1>9, <1>10, <1>11, <1>11a, <1>11b, <1>12, <1>13,
            <1>14, <1>15, <1>16, <1>17 DEF Next

-----------------------------------------------------------------------------
\* The records of the calls

\* A step that only takes calls on, or opens files of calls, keeps their records.
LEMMA CallRecordsStay ==
    ASSUME Types, CallRecords, CallsAsBefore,
           UNCHANGED <<snapshotted, created, turnChanges, turnIndex, cut, lost>>,
           codeAt'[0] = codeAt[0],
           touched \subseteq touched', touched' \subseteq FilesOfCalls \union lost,
           \A c \in Calls : calls'[c].at = "write" =>
               calls[c].at = "write" \/ calls[c].file \in touched',
           phase' = "turn" => batch' = {} \/ (phase = "turn" /\ batch' \subseteq batch)
    PROVE  CallRecords'
<1>1. FilesOfCalls' = FilesOfCalls
  BY DEF FilesOfCalls, CallsAsBefore
<1>2. (touched \union Tracked)' \subseteq FilesOfCalls' \union lost'
  BY <1>1 DEF CallRecords, Tracked
<1>3. ASSUME NEW c \in Calls'
      PROVE  /\ \/ calls'[c].file \in cut' \union lost'
                \/ \E k \in Turns : calls'[c].file \in turnChanges'[k]
             /\ codeAt'[0][calls'[c].file] = Missing => calls'[c].file \in created' \union lost'
             /\ calls'[c].at = "write" => calls'[c].file \in touched'
  BY DEF CallRecords, CallsAsBefore
<1>4. ASSUME phase' = "turn", NEW c \in batch'
      PROVE  calls'[c].file \in turnChanges'[turnIndex']
  BY <1>4 DEF CallRecords, CallsAsBefore, Types
<1> QED  BY <1>2, <1>3, <1>4 DEF CallRecords

\* The call that starts is recorded, and its file when it is new.
LEMMA StartCallRecords ==
    ASSUME FileInv, PhaseInv, RecordTypes, CallRecords, UntouchedInv,
           NEW f \in Files, NEW k \in Kinds, StartCall(f, k)
    PROVE  CallRecords'
<1>1. turnIndex \in Turns /\ 0 \in Points
  BY TurnInTurns, CheckpointAssumption DEF StartCall, MayStart, InTurn, Points
<1>2. PICK n : n = Len(calls) + 1
  OBVIOUS
<1>3. /\ Calls' = Calls \union {n} /\ n \notin Calls
      /\ calls'[n].file = f /\ calls'[n].at = "started"
      /\ \A c \in Calls : calls'[c] = calls[c]
      /\ batch' = batch \union {n} /\ batch \subseteq Calls
  BY <1>2, StartedCall DEF FileInv, Types
<1>4. /\ UNCHANGED <<touched, snapshotted, codeAt, cut, lost, phase, turnIndex>>
      /\ phase = "turn"
      /\ created \subseteq created' /\ created' \subseteq created \union {f}
      /\ turnChanges' = [turnChanges EXCEPT ![turnIndex] = @ \union {f}]
  BY DEF StartCall, MayStart, ChangesWith, TrackFirst
<1>5. /\ \A j \in Turns : /\ turnChanges[j] \subseteq turnChanges'[j]
                          /\ turnChanges'[j] \subseteq turnChanges[j] \union {f}
      /\ f \in turnChanges'[turnIndex]
  BY <1>1, <1>4 DEF RecordTypes, ChangesType
<1>6. FilesOfCalls' = FilesOfCalls \union {f}
  BY <1>3 DEF FilesOfCalls
<1>7. (touched \union Tracked)' \subseteq FilesOfCalls' \union lost'
  <2>1. Tracked' \subseteq Tracked \union {f}
    BY <1>4, <1>5 DEF Tracked
  <2> QED  BY <1>4, <1>6, <2>1 DEF CallRecords
<1>8. ASSUME codeAt[0][f] = Missing PROVE f \in created' \union lost
  <2>1. CASE f \in FilesOfCalls
    <3>1. f \in created \union lost
      BY <1>8, <2>1 DEF CallRecords, FilesOfCalls
    <3> QED  BY <1>4, <3>1
  <2>2. CASE f \notin FilesOfCalls \union lost
    <3>1. f \notin touched \union snapshotted
      BY <2>2 DEF CallRecords, Tracked
    <3>2. disk[f] = Missing
      BY <1>1, <1>8, <3>1 DEF UntouchedInv
    <3> QED  BY <3>1, <3>2 DEF StartCall, TrackFirst
  <2> QED  BY <2>1, <2>2
<1>9. ASSUME NEW c \in Calls'
      PROVE  /\ \/ calls'[c].file \in cut' \union lost'
                \/ \E j \in Turns : calls'[c].file \in turnChanges'[j]
             /\ codeAt'[0][calls'[c].file] = Missing => calls'[c].file \in created' \union lost'
             /\ calls'[c].at = "write" => calls'[c].file \in touched'
  <2>1. CASE c = n
    BY <1>1, <1>3, <1>4, <1>5, <1>8, <2>1
  <2>2. CASE c \in Calls
    BY <1>3, <1>4, <1>5, <2>2 DEF CallRecords
  <2> QED  BY <1>3, <2>1, <2>2
<1>10. ASSUME NEW c \in batch' PROVE calls'[c].file \in turnChanges'[turnIndex']
  <2>1. CASE c = n
    BY <1>3, <1>4, <1>5, <2>1
  <2>2. CASE c \in batch
    BY <1>1, <1>3, <1>4, <1>5, <2>2 DEF CallRecords
  <2> QED  BY <1>3, <2>1, <2>2
<1> QED  BY <1>7, <1>9, <1>10 DEF CallRecords

\* A crash leaves the turn that runs cut, and its copies.
LEMMA CrashCuts ==
    ASSUME PhaseInv, Crash
    PROVE  /\ cut \subseteq cut' /\ lost \subseteq lost' /\ stray \subseteq stray'
           /\ late \subseteq late'
           /\ {calls[c].file : c \in Unsaved} \subseteq cut'
           /\ InTurn => turnChanges[turnIndex] \subseteq cut'
           /\ toCapture \subseteq cut'
<1>1. InTurn <=> (phase = "turn" \/ Capturing)
  BY DEF InTurn, Capturing
<1>2. /\ cut \subseteq cut' /\ stray \subseteq stray' /\ late \subseteq late'
      /\ {calls[c].file : c \in Unsaved} \subseteq cut'
      /\ InTurn => turnChanges[turnIndex] \subseteq cut'
  BY <1>1 DEF Crash
<1>3. lost \subseteq lost'
  BY DEF Crash, ListsKept, ChangesCut, CreatedCut
<1>4. toCapture \subseteq cut'
  BY <1>2 DEF PhaseInv, InTurn, Capturing
<1> QED  BY <1>2, <1>3, <1>4

\* Of the copies of the ends of turns it cuts one that is under way.
LEMMA CrashTurnEnds ==
    ASSUME FileInv, Crash
    PROVE  /\ \A k \in Turns, f \in Files \ toCapture : turnEnds'[k][f] = turnEnds[k][f]
           /\ \A k \in Turns \ {turnIndex} : turnEnds'[k] = turnEnds[k]
           /\ toCapture = {} => turnEnds' = turnEnds
<1>1. turnEnds \in [Turns -> [Files -> Contents]]
  BY DEF FileInv, Types, ContentType
<1>2. CASE turnEnds' = turnEnds
  BY <1>2
<1>3. ASSUME NEW f \in CopyingEnd, NEW left,
             turnEnds' = [turnEnds EXCEPT ![turnIndex][f] = left]
      PROVE  /\ \A k \in Turns, g \in Files \ toCapture : turnEnds'[k][g] = turnEnds[k][g]
             /\ \A k \in Turns \ {turnIndex} : turnEnds'[k] = turnEnds[k]
             /\ toCapture # {}
  <2>1. f \in toCapture
    BY DEF CopyingEnd
  <2>2. \A k \in Turns : turnEnds'[k] = IF k = turnIndex THEN [turnEnds[k] EXCEPT ![f] = left]
                                        ELSE turnEnds[k]
    BY <1>1, <1>3
  <2> QED  BY <1>1, <2>1, <2>2
<1> QED  BY <1>2, <1>3 DEF Crash, TurnEndsCut

\* It loses the changes of the calls whose copy is under way, and of the lists
\* it cuts.
LEMMA CrashChanges ==
    ASSUME PhaseInv, RecordTypes, SavedInv, Crash
    PROVE  /\ \A f \in Files \ (cut' \union lost') : \A k \in Turns :
                  f \in turnChanges'[k] <=> f \in turnChanges[k]
           /\ \A f \in Files \ lost' : f \in created' <=> f \in created
           /\ \A k \in Turns : NotBegun(k) => turnChanges'[k] \subseteq turnChanges[k]
           /\ Tracked' \subseteq Tracked \union lost' \union FilesOfCalls
<1>1. /\ turnChanges' = savedChanges' /\ created' = savedCreated' /\ savedCreated = created
      /\ {calls[c].file : c \in Unsaved} \subseteq cut'
  BY CrashCuts DEF Crash, SavedInv
<1>2. snapshotted' \subseteq snapshotted \union FilesOfCalls
  <2>1. snapshotted' = {f \in Files : originals'[f] # None}
    BY DEF Crash
  <2>2. CopyingOriginal \subseteq FilesOfCalls
    BY DEF CopyingOriginal, FilesOfCalls
  <2>3. \A f \in Files : f \in FilesOfCalls \/ originals'[f] \in {None, originals[f]}
    BY <2>2 DEF Crash, OriginalsCut
  <2> QED  BY <2>1, <2>3 DEF SavedInv
<1>3. \A k \in Turns : /\ savedChanges[k] \subseteq turnChanges[k]
                      /\ turnChanges[k] \ savedChanges[k] \subseteq cut'
  BY <1>1 DEF SavedInv
<1>4. CASE ListsKept
  <2>1. savedChanges' = savedChanges /\ created' = created
    BY <1>1, <1>4 DEF ListsKept
  <2> QED  BY <1>1, <1>2, <1>3, <2>1 DEF Tracked
<1>5. CASE ChangesCut
  <2>1. /\ \A k \in Turns : turnChanges'[k] = {} /\ turnChanges[k] \subseteq lost'
        /\ created' = created
    BY <1>1, <1>5 DEF ChangesCut, NoChanges
  <2> QED  BY <1>2, <2>1 DEF Tracked
<1>6. ASSUME NEW g \in Files, CreatedCut(g)
      PROVE  /\ \A f \in Files \ lost' : \A k \in Turns :
                    f \in turnChanges'[k] <=> f \in turnChanges[k]
             /\ \A f \in Files \ lost' : f \in created' <=> f \in created
             /\ \A k \in Turns : NotBegun(k) => turnChanges'[k] \subseteq turnChanges[k]
             /\ Tracked' \subseteq Tracked \union lost' \union FilesOfCalls
  <2>1. /\ created' = {} /\ created \subseteq lost' /\ g \in lost' /\ InTurn
        /\ turnChanges' = [turnChanges EXCEPT ![turnIndex] = @ \union {g}]
    BY <1>1, <1>6 DEF CreatedCut, MayStart, ChangesWith, InTurn
  <2>2. turnIndex \in Turns /\ ~NotBegun(turnIndex)
    BY <2>1, TurnInTurns DEF NotBegun
  <2>3. \A k \in Turns : turnChanges'[k] = IF k = turnIndex THEN turnChanges[k] \union {g}
                                           ELSE turnChanges[k]
    BY <2>1 DEF RecordTypes, ChangesType
  <2>4. \A k \in Turns : turnChanges'[k] \subseteq turnChanges[k] \union {g}
    BY <2>3
  <2>5. Tracked' \subseteq Tracked \union lost' \union FilesOfCalls
    BY <1>2, <2>1, <2>4 DEF Tracked
  <2> QED  BY <2>1, <2>2, <2>3, <2>5
<1> QED  BY <1>4, <1>5, <1>6 DEF Crash

\* What a crash loses of the records was cut.
LEMMA CrashRecords ==
    ASSUME FileInv, PhaseInv, RecordTypes, CallRecords, SavedInv, Crash
    PROVE  CallRecords'
<1>1. /\ CallsAsBefore /\ \A c \in Calls : calls'[c].at = "over"
      /\ UNCHANGED touched
  BY CrashCallsStay
<1>2. FilesOfCalls' = FilesOfCalls
  BY <1>1 DEF FilesOfCalls, CallsAsBefore
<1>3. UNCHANGED codeAt /\ phase' = "idle" /\ cut \subseteq cut' /\ lost \subseteq lost'
  BY CrashCuts DEF Crash
<1>4. (touched \union Tracked)' \subseteq FilesOfCalls' \union lost'
  BY <1>1, <1>2, <1>3, CrashChanges DEF CallRecords
<1>5. ASSUME NEW c \in Calls'
      PROVE  /\ \/ calls'[c].file \in cut' \union lost'
                \/ \E k \in Turns : calls'[c].file \in turnChanges'[k]
             /\ codeAt'[0][calls'[c].file] = Missing => calls'[c].file \in created' \union lost'
             /\ calls'[c].at = "write" => calls'[c].file \in touched'
  <2>1. c \in Calls /\ calls'[c].file = calls[c].file /\ calls'[c].at # "write"
    BY <1>1 DEF CallsAsBefore
  <2>2. calls[c].file \in Files
    BY <2>1, CallFields DEF FileInv
  <2>3. calls[c].file \in cut' \union lost' \/ \E k \in Turns : calls[c].file \in turnChanges'[k]
    BY <1>3, <2>1, <2>2, CrashChanges DEF CallRecords
  <2>4. codeAt[0][calls[c].file] = Missing => calls[c].file \in created' \union lost'
    BY <1>3, <2>1, <2>2, CrashChanges DEF CallRecords
  <2> QED  BY <1>3, <2>1, <2>3, <2>4
<1> QED  BY <1>3, <1>4, <1>5 DEF CallRecords

\* Every step keeps the records of the calls.
LEMMA CallRecordsNext ==
    ASSUME FileInv, PhaseInv, RecordTypes, CallRecords, SavedInv, UntouchedInv, [Next]_vars
    PROVE  CallRecords'
<1>1. Types /\ Points = 0..MaxReplies
  BY DEF FileInv, Points
<1>2. touched \subseteq FilesOfCalls \union lost
  BY DEF CallRecords
<1>3. ASSUME UNCHANGED <<calls, touched, snapshotted, created, turnChanges, turnIndex, cut, lost,
                         codeAt>>,
             phase' = "turn" => phase = "turn" /\ batch' = batch
      PROVE  CallRecords'
  <2>1. CallsAsBefore
    BY <1>3 DEF CallsAsBefore, Calls
  <2> QED  BY <1>1, <1>2, <1>3, <2>1, CallRecordsStay
<1>4. CASE StartRun
  <2>1. CallRecords /\ phase' = "between"
    BY <1>4 DEF StartRun
  <2> QED  BY <1>4, <2>1 DEF StartRun, CallRecords, FilesOfCalls, Calls, Tracked
<1>5. CASE Reply
  <2>1. CallsAsBefore /\ batch' = {}
    BY <1>5 DEF Reply, CallsAsBefore, Calls
  <2>2. codeAt'[0] = codeAt[0]
    <3>1. depth' # 0 /\ 0 \in Points
      BY <1>5, CheckpointAssumption DEF Reply, PhaseInv, Points
    <3> QED  BY <1>5, <3>1 DEF Reply, RecordTypes
  <2> QED  BY <1>1, <1>2, <1>5, <2>1, <2>2, CallRecordsStay DEF Reply
<1>6. CASE EndTurn \/ EndRun
  BY <1>3, <1>6 DEF EndTurn, EndRun
<1>7. TurnIsOver /\ InTurn => codeAt'[0] = codeAt[0]
  <2>1. 0 \in Points /\ (InTurn => ~(turnIndex < 0))
    BY TurnInTurns, CheckpointAssumption DEF Points
  <2> QED  BY <2>1 DEF TurnIsOver
<1>7a. ASSUME UNCHANGED <<calls, touched, snapshotted, created, turnChanges, cut, lost>>,
              codeAt'[0] = codeAt[0], phase' # "turn"
       PROVE  CallRecords'
  BY <1>7a DEF CallRecords, FilesOfCalls, Calls, Tracked
<1>7b. CASE Captured
  BY <1>7, <1>7a, <1>7b DEF Captured, Capturing, InTurn
<1>8. CASE Abort
  <2>1. CallsAsBefore /\ \A c \in Calls : calls'[c].at = "write" => calls[c].at = "write"
    BY <1>8, AbortCallsStay
  <2> QED  BY <1>1, <1>2, <1>8, <2>1, CallRecordsStay DEF Abort, AbortCalls
<1>9. CASE Crash
  BY <1>9, CrashRecords
<1>10. ASSUME NEW f \in Files, Capture(f) PROVE CallRecords'
  BY <1>3, <1>10 DEF Capture
<1>10a. ASSUME NEW f \in Files, RunFails(f) PROVE CallRecords'
  <2>1. depth' # 0 /\ 0 \in Points
    BY <1>10a, CheckpointAssumption DEF RunFails, PhaseInv, Points
  <2>2. codeAt'[0] = codeAt[0]
    BY <1>10a, <2>1 DEF RunFails, RecordTypes
  <2> QED  BY <1>7a, <1>10a, <2>2 DEF RunFails, CaptureFails
<1>10b. ASSUME NEW f \in Files, RunFailsAgain(f) PROVE CallRecords'
  BY <1>7, <1>7a, <1>10b DEF RunFailsAgain, CaptureFails, InTurn
<1>11. ASSUME NEW f \in Files, NEW k \in Kinds, StartCall(f, k) PROVE CallRecords'
  BY <1>11, StartCallRecords
<1>12. ASSUME NEW c \in Calls, CallStep(c) PROVE CallRecords'
  <2>1. /\ CallsAsBefore /\ \A d \in Calls : d # c => calls'[d] = calls[d]
        /\ calls'[c].at = "write" => calls[c].at = "open" /\ OpenDone(c)
    BY <1>1, <1>12, CallStepCalls
  <2>2. touched \subseteq touched' /\ touched' \subseteq FilesOfCalls \union lost
    <3>1. CASE RunCall(c) \/ RefuseCall(c)
      BY <1>2, <3>1 DEF RunCall, Join, RefuseCall
    <3>2. CASE ToolStep(c)
      <4>1. calls[c].file \in FilesOfCalls
        BY DEF FilesOfCalls
      <4> QED  BY <1>2, <3>2, <4>1, ToolStepFiles
    <3> QED  BY <1>12, <3>1, <3>2 DEF CallStep
  <2>3. OpenDone(c) => calls[c].file \in touched'
    BY DEF OpenDone
  <2>4. UNCHANGED <<snapshotted, created, turnChanges, turnIndex, cut, lost, codeAt, phase>>
        /\ batch' \subseteq batch
    BY <1>12 DEF CallStep, RunCall, RefuseCall, ToolStep
  <2> QED  BY <1>1, <2>1, <2>2, <2>3, <2>4, CallRecordsStay
<1>13. ASSUME NEW c \in Calls, CopyTurnFile(c) PROVE CallRecords'
  BY <1>3, <1>13 DEF CopyTurnFile
<1>14. ASSUME NEW c \in Calls, CopyOriginal(c) PROVE CallRecords'
  <2>1. snapshotted' = snapshotted \union {calls[c].file} /\ calls[c].file \in FilesOfCalls
    BY <1>14 DEF CopyOriginal, FilesOfCalls
  <2> QED  BY <1>14, <2>1 DEF CopyOriginal, CallRecords, FilesOfCalls, Calls, Tracked
<1>15. ASSUME NEW p \in Points, Restore(p) PROVE CallRecords'
  <2>1. touched \subseteq touched' /\ touched' \subseteq touched \union Tracked
    BY <1>15 DEF Restore
  <2>2. UNCHANGED <<calls, snapshotted, created, turnChanges, cut, lost, codeAt, phase>> /\ phase # "turn"
    BY <1>15 DEF Restore
  <2>3. Tracked' = Tracked /\ FilesOfCalls' = FilesOfCalls /\ Calls' = Calls
    BY <2>2 DEF Tracked, FilesOfCalls, Calls
  <2> QED  BY <2>1, <2>2, <2>3 DEF CallRecords
<1>15a. ASSUME NEW p \in Points, Navigate(p) PROVE CallRecords'
  BY <1>3, <1>15a DEF Navigate
<1>16. CASE UNCHANGED vars
  BY <1>3, <1>16
<1> QED  BY <1>4, <1>5, <1>6, <1>7b, <1>8, <1>9, <1>10, <1>10a, <1>10b, <1>11, <1>12, <1>13,
            <1>14, <1>15, <1>15a, <1>16 DEF Next, CopyStep

-----------------------------------------------------------------------------
\* What is saved

\* A step that neither records nor saves keeps both the same.
LEMMA SavedStay ==
    ASSUME SavedInv, CallsAsBefore,
           UNCHANGED <<snapshotted, created, savedCreated, originals, turnChanges, savedChanges,
                       copying>>,
           \A f \in Files : disk'[f] # None,
           touched' \subseteq snapshotted \union created \union late' \union lost'
    PROVE  SavedInv'
<1>1. Unsaved' = Unsaved
  BY DEF Unsaved, CallsAsBefore
<1>2. {calls'[c].file : c \in Unsaved'} = {calls[c].file : c \in Unsaved}
  BY <1>1 DEF Unsaved, CallsAsBefore
<1> QED  BY <1>2 DEF SavedInv

\* The call that starts saves its change, or has yet to copy its file.
LEMMA StartCallSaved ==
    ASSUME FileInv, PhaseInv, RecordTypes, SavedInv,
           NEW f \in Files, NEW k \in Kinds, StartCall(f, k)
    PROVE  SavedInv'
<1>1. turnIndex \in Turns
  BY TurnInTurns DEF StartCall, MayStart, InTurn
<1>2. PICK n : n = Len(calls) + 1
  OBVIOUS
<1>3. /\ Calls' = Calls \union {n} /\ n \notin Calls
      /\ calls'[n].file = f /\ \A c \in Calls : calls'[c] = calls[c]
  BY <1>2, StartedCall DEF FileInv
<1>4. /\ UNCHANGED <<disk, touched, snapshotted, originals, late, lost>>
      /\ turnChanges' = [turnChanges EXCEPT ![turnIndex] = @ \union {f}]
  BY DEF StartCall, ChangesWith
<1>5. savedCreated' = created' /\ created \subseteq created'
  BY DEF StartCall, TrackFirst, SavedInv
<1>6. /\ \A j \in Turns : savedChanges'[j] \subseteq turnChanges'[j]
      /\ \A j \in Turns : turnChanges'[j] \ savedChanges'[j] \subseteq {calls'[c].file : c \in Unsaved'}
  <2>1. CASE savedChanges' = turnChanges'
    BY <2>1
  <2>2. CASE savedChanges' = savedChanges
             /\ copying' = Append(copying, [at |-> "turn", turn |-> turnIndex])
    <3>1. copying \in Seq(CopyType) /\ Len(copying) = Len(calls) /\ Len(calls) \in Nat
      BY DEF RecordTypes
    <3>2. copying'[n].at = "turn" /\ \A c \in 1..Len(calls) : copying'[c] = copying[c]
      <4>1. PICK record : record = [at |-> "turn", turn |-> turnIndex]
        OBVIOUS
      <4>2. copying' = Append(copying, record)
        BY <2>2, <4>1
      <4>3. copying'[n] = record /\ \A c \in 1..Len(calls) : copying'[c] = copying[c]
        <5> HIDE DEF CopyType
        <5> QED  BY <1>2, <3>1, <4>2
      <4> QED  BY <4>1, <4>3
    <3>3. \A c \in Calls : c \in 1..Len(calls)
      BY DEF FileInv, Types, Calls
    <3>4. n \in Unsaved' /\ Unsaved \subseteq Unsaved'
      BY <1>3, <3>2, <3>3 DEF Unsaved
    <3>5. {calls[c].file : c \in Unsaved} \union {f} \subseteq {calls'[c].file : c \in Unsaved'}
      BY <1>3, <3>4 DEF Unsaved
    <3>6. \A j \in Turns : turnChanges[j] \subseteq turnChanges'[j]
                           /\ turnChanges'[j] \subseteq turnChanges[j] \union {f}
      BY <1>1, <1>4 DEF RecordTypes, ChangesType
    <3> QED  BY <2>2, <3>5, <3>6 DEF SavedInv
  <2> QED  BY <2>1, <2>2 DEF StartCall
<1> QED  BY <1>4, <1>5, <1>6 DEF SavedInv

\* Every step keeps on disk what a crash has to find there.
LEMMA SavedInvNext ==
    ASSUME FileInv, PhaseInv, RecordTypes, CallRecords, SavedInv, UntouchedInv, [Next]_vars
    PROVE  SavedInv'
<1>1. Types
  BY DEF FileInv
<1>2. /\ touched \subseteq snapshotted \union created \union late \union lost
      /\ \A f \in Files : disk[f] # None
  BY DEF SavedInv
<1>3. ASSUME CallsAsBefore,
             UNCHANGED <<disk, touched, late, lost, snapshotted, created, savedCreated, originals,
                         turnChanges, savedChanges, copying>>
      PROVE  SavedInv'
  BY <1>2, <1>3, SavedStay
<1>4. ASSUME UNCHANGED calls PROVE CallsAsBefore
  BY <1>4 DEF CallsAsBefore, Calls
<1>5. CASE StartRun \/ Reply \/ EndTurn \/ Captured \/ EndRun
  BY <1>3, <1>4, <1>5 DEF StartRun, Reply, EndTurn, Captured, EndRun
<1>6. CASE Abort
  BY <1>3, <1>6, AbortCallsStay DEF Abort
<1>7. CASE Crash
  <2>1. /\ snapshotted' = {f \in Files : originals'[f] # None}
        /\ created' = savedCreated' /\ turnChanges' = savedChanges'
        /\ late' = late \union {f \in Files : originals'[f] # originals[f]}
        /\ UNCHANGED <<disk, touched>>
    BY <1>7 DEF Crash
  <2>2. lost \subseteq lost' /\ \A f \in Files \ lost' : f \in created' <=> f \in created
    BY <1>7, CrashCuts, CrashChanges
  <2>3. touched' \subseteq snapshotted' \union created' \union late' \union lost'
    BY <1>2, <2>1, <2>2 DEF SavedInv, RecordTypes
  <2> QED  BY <1>2, <2>1, <2>3 DEF SavedInv
<1>8. ASSUME NEW f \in Files, Capture(f) PROVE SavedInv'
  BY <1>3, <1>4, <1>8 DEF Capture
<1>8a. ASSUME NEW f \in Files, RunFails(f) \/ RunFailsAgain(f) PROVE SavedInv'
  BY <1>3, <1>4, <1>8a DEF RunFails, RunFailsAgain, CaptureFails
<1>9. ASSUME NEW f \in Files, NEW k \in Kinds, StartCall(f, k) PROVE SavedInv'
  BY <1>9, StartCallSaved
<1>10. ASSUME NEW c \in Calls, CallStep(c) PROVE SavedInv'
  <2>1. CallsAsBefore
    BY <1>1, <1>10, CallStepCalls
  <2>2. CASE RunCall(c) \/ RefuseCall(c)
    BY <1>3, <2>1, <2>2 DEF RunCall, Join, RefuseCall
  <2>3. CASE ToolStep(c)
    <3>1. \A f \in Files : disk'[f] # None
      BY <1>2, <2>3, ToolStepFiles
    <3>2. touched' \subseteq snapshotted \union created \union late' \union lost'
      BY <1>2, <2>3 DEF ToolStep, OpenedBefore
    <3> QED  BY <2>1, <2>3, <3>1, <3>2, SavedStay DEF ToolStep
  <2> QED  BY <1>10, <2>2, <2>3 DEF CallStep
<1>11. ASSUME NEW c \in Calls, CopyTurnFile(c) PROVE SavedInv'
  BY <1>11 DEF CopyTurnFile, SavedInv
<1>12. ASSUME NEW c \in Calls, CopyOriginal(c) PROVE SavedInv'
  <2> DEFINE file == calls[c].file
  <2>1. /\ copying[c].at = "original" /\ copying' = [copying EXCEPT ![c] = Copied]
        /\ originals' = [originals EXCEPT ![file] = disk[file]]
        /\ snapshotted' = snapshotted \union {file} /\ late \subseteq late'
        /\ UNCHANGED <<calls, disk, touched, created, savedCreated, turnChanges, savedChanges, lost>>
    BY <1>12 DEF CopyOriginal
  <2>2. file \in Files /\ originals \in ContentType /\ c \in 1..Len(calls)
    BY <1>1, CallFields DEF Types
  <2>3. \A f \in Files : f \in snapshotted' <=> originals'[f] # None
    BY <1>2, <2>1, <2>2 DEF SavedInv, ContentType
  <2>4. Unsaved' = Unsaved
    <3>1. \A d \in Calls : copying'[d].at = "turn" <=> copying[d].at = "turn"
      BY <2>1, <2>2 DEF RecordTypes, Copied, Calls, Types
    <3> QED  BY <2>1, <3>1 DEF Unsaved, Calls
  <2> QED  BY <1>2, <2>1, <2>3, <2>4 DEF SavedInv
<1>13. ASSUME NEW p \in Points, Restore(p) PROVE SavedInv'
  <2>1. \A f \in Files : disk'[f] # None
    <3> SUFFICES ASSUME NEW f \in Files PROVE disk'[f] # None
      OBVIOUS
    <3>1. disk'[f] \in {Torn, RestoredContent(f, p), disk[f]}
      BY <1>13 DEF Restore
    <3>2. Missing # None /\ Torn # None
      BY DEF Missing, Torn, None
    <3>3. f \in snapshotted => originals[f] # None
      BY DEF SavedInv
    <3> QED  BY <1>2, <3>1, <3>2, <3>3 DEF RestoredContent
  <2>2. touched' \subseteq snapshotted \union created \union late' \union lost'
    BY <1>2, <1>13 DEF Restore, OpenedBefore
  <2> QED  BY <1>4, <1>13, <2>1, <2>2, SavedStay DEF Restore
<1>14. ASSUME NEW p \in Points, Navigate(p) PROVE SavedInv'
  BY <1>3, <1>4, <1>14 DEF Navigate
<1>15. CASE UNCHANGED vars
  BY <1>3, <1>4, <1>15
<1> QED  BY <1>5, <1>6, <1>7, <1>8, <1>8a, <1>9, <1>10, <1>11, <1>12, <1>13, <1>14, <1>15
         DEF Next, CopyStep

-----------------------------------------------------------------------------
\* Files no tool has opened

\* A restore finds what they hold, or nothing good.
LEMMA RestoreUntouched ==
    ASSUME UntouchedInv, SavedInv, RecordTypes, NEW p \in Points, NEW f \in Files \ (touched \union cut)
    PROVE  RestoredContent(f, p) = disk[f] \/ (f \in late /\ LatestChange(f, p) = -1)
<1>1. LatestChange(f, p) = -1 \/ LatestChange(f, p) \in Turns
  BY LatestChangeIsTurn
<1> QED  BY <1>1 DEF RestoredContent, UntouchedInv, SavedInv

\* A step that ends a turn has the code of its points in the files.
LEMMA TurnOverUntouched ==
    ASSUME UntouchedInv, TurnIsOver, UNCHANGED <<disk, touched, originals, created, cut, late>>,
           \A f \in Files, k \in Turns : turnEnds'[k][f] \in {None, turnEnds[k][f]}
    PROVE  UntouchedInv'
<1>1. \A p \in Points : codeAt'[p] \in {codeAt[p], disk}
  BY DEF TurnIsOver
<1> QED  BY <1>1 DEF UntouchedInv

\* Every step leaves a file alone that no tool has opened.
LEMMA UntouchedInvNext ==
    ASSUME FileInv, PhaseInv, RecordTypes, CallRecords, SavedInv, UntouchedInv, [Next]_vars
    PROVE  UntouchedInv'
<1>1. Types
  BY DEF FileInv
<1>2. ASSUME \A f \in Files \ touched' : f \notin touched /\ disk'[f] = disk[f],
             UNCHANGED <<codeAt, turnEnds, originals, created>>,
             cut \subseteq cut', late \subseteq late'
      PROVE  UntouchedInv'
  BY <1>2 DEF UntouchedInv
<1>3. ASSUME NEW f \in Files, CaptureFails(f), f \in toCapture
      PROVE  \A g \in Files, k \in Turns : turnEnds'[k][g] \in {None, turnEnds[k][g]}
  <2>1. PICK left \in {None, turnEnds[turnIndex][f]} :
            turnEnds' = [turnEnds EXCEPT ![turnIndex][f] = left]
    BY <1>3 DEF CaptureFails
  <2>2. turnEnds \in [Turns -> ContentType]
    BY DEF FileInv, Types
  <2>3. \A k \in Turns : turnEnds'[k] = IF k = turnIndex THEN [turnEnds[k] EXCEPT ![f] = left]
                                        ELSE turnEnds[k]
    BY <2>1, <2>2
  <2>4. \A k \in Turns : turnEnds[k] \in [Files -> Contents]
    BY <2>2 DEF ContentType
  <2> QED  BY <2>1, <2>3, <2>4
<1>4. CASE StartRun \/ EndTurn \/ EndRun
  BY <1>2, <1>4 DEF StartRun, EndTurn, EndRun
<1>5. CASE Reply
  <2>1. depth' \in Points
    BY <1>5, CheckpointAssumption DEF Reply, PhaseInv, Points
  <2> QED  BY <1>5, <2>1 DEF UntouchedInv, RecordTypes, Reply
<1>6. CASE Captured
  BY <1>6, TurnOverUntouched DEF Captured
<1>7. CASE Abort
  BY <1>2, <1>7, AbortCallsStay DEF Abort
<1>8. CASE Crash
  <2>1. /\ UNCHANGED <<disk, touched, codeAt>>
        /\ late' = late \union {f \in Files : originals'[f] # originals[f]}
        /\ created' = savedCreated' /\ savedCreated' \subseteq created
    BY <1>8 DEF Crash, ListsKept, ChangesCut, CreatedCut, SavedInv
  <2>2. cut \subseteq cut' /\ toCapture \subseteq cut'
    BY <1>8, CrashCuts
  <2>3. \A k \in Turns, f \in Files \ toCapture : turnEnds'[k][f] = turnEnds[k][f]
    BY <1>8, CrashTurnEnds
  <2>4. ASSUME NEW f \in Files \ touched
        PROVE  /\ \A p \in Points : codeAt'[p][f] = disk'[f]
               /\ f \in cut' \/ \A k \in Turns : turnEnds'[k][f] \in {None, disk'[f]}
               /\ f \in late' \/ originals'[f] \in {None, disk'[f]}
               /\ f \in created' => disk'[f] = Missing
    BY <2>1, <2>2, <2>3 DEF UntouchedInv
  <2> QED  BY <2>1, <2>4 DEF UntouchedInv
<1>9. ASSUME NEW f \in Files, Capture(f) PROVE UntouchedInv'
  <2>1. turnIndex \in Turns
    BY <1>9, TurnInTurns DEF Capture, Capturing, InTurn
  <2>2. \A g \in Files : \A k \in Turns : turnEnds'[k][g] \in {turnEnds[k][g], disk[g]}
    BY <1>1, <1>9, <2>1 DEF Capture, Types, ContentType
  <2> QED  BY <1>9, <2>2 DEF Capture, UntouchedInv
<1>9a. ASSUME NEW f \in Files, RunFails(f) PROVE UntouchedInv'
  <2>1. /\ UNCHANGED <<disk, touched, originals, created, cut, late>>
        /\ codeAt' = [codeAt EXCEPT ![depth'] = disk] /\ CaptureFails(f) /\ f \in toCapture
    BY <1>9a DEF RunFails, CaptureFails
  <2>2. \A p \in Points : codeAt'[p] \in {codeAt[p], disk}
    BY <2>1 DEF RecordTypes
  <2> QED  BY <1>3, <2>1, <2>2 DEF UntouchedInv
<1>9b. ASSUME NEW f \in Files, RunFailsAgain(f) PROVE UntouchedInv'
  <2>1. CaptureFails(f) /\ f \in toCapture /\ TurnIsOver
    BY <1>9b DEF RunFailsAgain, CaptureFails
  <2> QED  BY <1>3, <1>9b, <2>1, TurnOverUntouched DEF RunFailsAgain, CaptureFails
<1>10. ASSUME NEW f \in Files, NEW k \in Kinds, StartCall(f, k) PROVE UntouchedInv'
  <2>1. UNCHANGED <<disk, touched, codeAt, turnEnds, originals, cut, late>>
    BY <1>10 DEF StartCall
  <2>2. \A g \in Files : g \in created' => g \in created \/ disk[g] = Missing
    BY <1>10 DEF StartCall, TrackFirst
  <2> QED  BY <2>1, <2>2 DEF UntouchedInv
<1>11. ASSUME NEW c \in Calls, CallStep(c) PROVE UntouchedInv'
  <2>1. CASE RunCall(c) \/ RefuseCall(c)
    BY <1>2, <2>1 DEF RunCall, Join, RefuseCall
  <2>2. CASE ToolStep(c)
    BY <1>2, <2>2, ToolStepFiles DEF ToolStep
  <2> QED  BY <1>11, <2>1, <2>2 DEF CallStep
<1>12. ASSUME NEW c \in Calls, CopyTurnFile(c) PROVE UntouchedInv'
  BY <1>2, <1>12 DEF CopyTurnFile
<1>13. ASSUME NEW c \in Calls, CopyOriginal(c) PROVE UntouchedInv'
  <2>1. calls[c].file \in Files /\ originals \in ContentType
    BY <1>1, CallFields DEF Types
  <2>2. \A g \in Files : originals'[g] \in {originals[g], disk[g]}
    BY <1>13, <2>1 DEF CopyOriginal, ContentType
  <2> QED  BY <1>13, <2>2 DEF CopyOriginal, UntouchedInv
<1>14. ASSUME NEW p \in Points, Restore(p) PROVE UntouchedInv'
  <2>1. UNCHANGED <<codeAt, turnEnds, originals, created, cut>> /\ late \subseteq late'
        /\ touched' = touched \union {f \in Files : disk'[f] # disk[f]}
    BY <1>14 DEF Restore
  <2> QED  BY <1>2, <2>1
<1>15. ASSUME NEW p \in Points, Navigate(p) PROVE UntouchedInv'
  BY <1>2, <1>15 DEF Navigate
<1>16. CASE UNCHANGED vars
  BY <1>2, <1>16
<1> QED  BY <1>4, <1>5, <1>6, <1>7, <1>8, <1>9, <1>9a, <1>9b, <1>10, <1>11, <1>12, <1>13, <1>14,
            <1>15, <1>16 DEF Next, CopyStep

-----------------------------------------------------------------------------
\* The ends of the turns

\* A turn gets copies of its end when it ends, and the content they have
\* does not change until it has ended.
LEMMA TurnEndInvNext ==
    ASSUME FileInv, PhaseInv, RecordTypes, CallRecords, SavedInv, TurnEndInv, [Next]_vars
    PROVE  TurnEndInv'
<1>1. Types /\ \A k \in Turns : k \in Nat
  BY CheckpointAssumption DEF FileInv, Turns
<1>2. ASSUME UNCHANGED <<turnChanges, turnEnds, depth, reused>>, ~InTurn'
      PROVE  TurnEndInv'
  <2>1. \A k \in Turns : NotBegun(k)' => NotBegun(k)
    BY <1>1, <1>2, TurnInTurns DEF NotBegun
  <2> QED  BY <1>2, <2>1 DEF TurnEndInv, InTurn, Capturing
<1>3. ASSUME UNCHANGED <<turnChanges, turnEnds, depth, reused, phase, turnIndex>>,
             Capturing => \A f \in Files \ stray' : f \notin stray /\ disk'[f] = disk[f]
      PROVE  TurnEndInv'
  BY <1>3 DEF TurnEndInv, NotBegun, InTurn, Capturing
<1>4. CASE StartRun \/ Captured \/ EndRun
  BY <1>2, <1>4 DEF StartRun, Captured, EndRun, InTurn
<1>5. CASE Reply
  <2>1. /\ depth' = depth + 1 /\ turnIndex = depth /\ depth \in Nat /\ phase' = "turn"
        /\ UNCHANGED <<turnIndex, turnChanges, turnEnds, reused>>
    BY <1>5 DEF Reply, PhaseInv
  <2>2. ~InTurn
    BY <1>5 DEF Reply, InTurn
  <2>3. \A k \in Turns : NotBegun(k)' \/ k = turnIndex => NotBegun(k)
    BY <1>1, <2>1, <2>2 DEF NotBegun, InTurn
  <2> QED  BY <2>1, <2>3 DEF TurnEndInv, Capturing
<1>6. CASE EndTurn
  BY <1>6 DEF EndTurn, TurnEndInv, NotBegun, InTurn, Capturing
<1>7. CASE Abort
  BY <1>3, <1>7, AbortCallsStay DEF Abort
<1>8. CASE Crash
  <2>1. UNCHANGED <<depth, reused>> /\ phase' = "idle" /\ ~InTurn'
    BY <1>8 DEF Crash, InTurn
  <2>2. \A k \in Turns : NotBegun(k)' => NotBegun(k) /\ (InTurn => k # turnIndex)
    BY <1>1, <2>1, TurnInTurns DEF NotBegun
  <2>3. \A k \in Turns : NotBegun(k) => turnChanges'[k] \subseteq turnChanges[k]
    BY <1>8, CrashChanges
  <2>4. \A k \in Turns : NotBegun(k)' => turnEnds'[k] = turnEnds[k]
    <3>1. ~InTurn => toCapture = {}
      BY DEF PhaseInv, InTurn, Capturing
    <3> QED  BY <1>8, <2>2, <3>1, CrashTurnEnds
  <2> QED  BY <2>1, <2>2, <2>3, <2>4 DEF TurnEndInv, Capturing
<1>9. ASSUME NEW f \in Files, NEW left \in {None, turnEnds[turnIndex][f], disk[f]},
             turnEnds' = [turnEnds EXCEPT ![turnIndex][f] = left], Capturing, Capturing',
             UNCHANGED <<turnIndex, turnChanges, reused, disk, stray>>
      PROVE  TurnEndInv'
  <2>1. turnIndex \in Turns /\ InTurn /\ InTurn' /\ phase' # "turn"
    BY <1>9, TurnInTurns DEF InTurn, Capturing
  <2>2. \A k \in Turns : (NotBegun(k)' <=> NotBegun(k)) /\ (NotBegun(k) => k # turnIndex)
    BY <1>1, <1>9, <2>1 DEF NotBegun
  <2>3. \A k \in Turns : k # turnIndex => turnEnds'[k] = turnEnds[k]
    BY <1>1, <1>9 DEF Types
  <2>4. \A g \in Files : turnEnds'[turnIndex][g] \in {None, turnEnds[turnIndex][g], disk[g]}
    BY <1>1, <1>9, <2>1 DEF Types, ContentType
  <2> QED  BY <1>9, <2>1, <2>2, <2>3, <2>4 DEF TurnEndInv
<1>9a. ASSUME NEW f \in Files, Capture(f) PROVE TurnEndInv'
  <2>1. Capturing /\ UNCHANGED <<phase, depth, turnIndex, turnChanges, reused, disk, stray>>
    BY <1>9a DEF Capture
  <2>2. CASE turnEnds' = turnEnds
    BY <1>3, <2>1, <2>2
  <2>3. CASE turnEnds' = [turnEnds EXCEPT ![turnIndex][f] = disk[f]]
    BY <1>9, <2>1, <2>3 DEF Capturing
  <2> QED  BY <1>9a, <2>2, <2>3 DEF Capture
<1>9b. ASSUME NEW f \in Files, RunFails(f) PROVE TurnEndInv'
  <2>1. Capturing /\ Capturing'
    BY <1>9b DEF RunFails, Capturing
  <2>2. UNCHANGED <<turnIndex, turnChanges, reused, disk, stray>>
    BY <1>9b DEF RunFails, CaptureFails
  <2>3. PICK left \in {None, turnEnds[turnIndex][f]} :
            turnEnds' = [turnEnds EXCEPT ![turnIndex][f] = left]
    BY <1>9b DEF RunFails, CaptureFails
  <2> QED  BY <1>9, <2>1, <2>2, <2>3
<1>9c. ASSUME NEW f \in Files, RunFailsAgain(f) PROVE TurnEndInv'
  <2>1. InTurn /\ ~InTurn' /\ UNCHANGED <<depth, turnChanges, reused>>
    BY <1>9c DEF RunFailsAgain, CaptureFails, InTurn
  <2>2. \A k \in Turns : NotBegun(k)' => NotBegun(k) /\ k # turnIndex
    BY <1>1, <2>1, TurnInTurns DEF NotBegun
  <2>3. \A k \in Turns : k # turnIndex => turnEnds'[k] = turnEnds[k]
    BY <1>1, <1>9c DEF RunFailsAgain, CaptureFails, Types
  <2> QED  BY <2>1, <2>2, <2>3 DEF TurnEndInv, InTurn, Capturing
<1>10. ASSUME NEW f \in Files, NEW k \in Kinds, StartCall(f, k) PROVE TurnEndInv'
  <2>1. /\ phase = "turn" /\ UNCHANGED <<phase, depth, turnIndex, turnEnds, reused>>
        /\ turnChanges' = [turnChanges EXCEPT ![turnIndex] = @ \union {f}]
    BY <1>10 DEF StartCall, MayStart, ChangesWith
  <2>2. turnIndex \in Turns /\ InTurn /\ InTurn'
    BY <2>1, TurnInTurns DEF InTurn
  <2>3. \A j \in Turns : /\ NotBegun(j)' <=> NotBegun(j)
                         /\ NotBegun(j) => j # turnIndex /\ turnChanges'[j] = turnChanges[j]
    BY <1>1, <2>1, <2>2 DEF NotBegun, RecordTypes, ChangesType
  <2> QED  BY <2>1, <2>3 DEF TurnEndInv, Capturing
<1>11. ASSUME NEW c \in Calls, CallStep(c) PROVE TurnEndInv'
  <2>1. CASE RunCall(c) \/ RefuseCall(c)
    BY <1>3, <2>1 DEF RunCall, Join, RefuseCall
  <2>2. CASE ToolStep(c)
    <3>1. Capturing => \A f \in Files \ stray' : f \notin stray /\ disk'[f] = disk[f]
      BY <2>2, ToolStepFiles DEF Capturing
    <3> QED  BY <1>3, <2>2, <3>1 DEF ToolStep
  <2> QED  BY <1>11, <2>1, <2>2 DEF CallStep
<1>12. ASSUME NEW c \in Calls, CopyStep(c) PROVE TurnEndInv'
  BY <1>3, <1>12 DEF CopyStep, CopyTurnFile, CopyOriginal
<1>13. ASSUME NEW p \in Points, Restore(p) PROVE TurnEndInv'
  BY <1>2, <1>13 DEF Restore, InTurn
<1>14. ASSUME NEW p \in Points, Navigate(p) PROVE TurnEndInv'
  <2>1. /\ depth' = p /\ reused' = reused \union p..(depth - 1) /\ phase' = "idle"
        /\ UNCHANGED <<turnChanges, turnEnds>>
    BY <1>14 DEF Navigate
  <2>2. ~InTurn /\ ~InTurn'
    BY <1>14 DEF Navigate, InTurn
  <2>3. \A k \in Turns : NotBegun(k)' /\ k \notin reused' => NotBegun(k)
    BY <1>1, <2>1, <2>2 DEF PhaseInv, Points, NotBegun
  <2> QED  BY <2>1, <2>3 DEF TurnEndInv, Capturing
<1>15. CASE UNCHANGED vars
  BY <1>3, <1>15
<1> QED  BY <1>4, <1>5, <1>6, <1>7, <1>8, <1>9a, <1>9b, <1>9c, <1>10, <1>11, <1>12, <1>13, <1>14,
            <1>15 DEF Next

-----------------------------------------------------------------------------
\* The copies

\* While the turns and the originals stay as they are, so do the copies.
LEMMA CopiesStay ==
    ASSUME CopiesInv, PhaseInv,
           UNCHANGED <<turnChanges, turnEnds, created, originals, codeAt>>,
           touched' \subseteq touched, Out \subseteq Out',
           late \subseteq late', reused \subseteq reused',
           depth' \in 0..depth,
           InTurn => depth' = depth /\ turnIndex' = turnIndex /\ InTurn'
    PROVE  CopiesInv'
<1> SUFFICES ASSUME NEW f \in touched' \ Out', NEW p \in 0..depth'
             PROVE  Good(f, p)' \/ (Working(f)' /\ p > turnIndex')
  BY DEF CopiesInv
<1>1. f \in touched \ Out /\ p \in 0..depth
  BY DEF PhaseInv
<1>2. CASE Good(f, p)
  <2>1. Good(f, p)'
    BY <1>2, GoodStays
  <2> QED  BY <2>1
<1>3. CASE Working(f) /\ p > turnIndex
  BY <1>3 DEF Working
<1> QED  BY <1>1, <1>2, <1>3 DEF CopiesInv

\* A file that is opened only now has what it had from the start in all copies.
LEMMA OpenedIsGood ==
    ASSUME UntouchedInv, SavedInv, NEW f \in Files \ (touched \union cut), NEW p \in Points,
           f \in snapshotted \union created \union late'
    PROVE  Exempt(f, p) \/ (LatestChange(f, p) = -1 /\ f \in late') \/ KeptContent(f, p) = codeAt[p][f]
<1>1. LatestChange(f, p) = -1 \/ LatestChange(f, p) \in Turns
  BY LatestChangeIsTurn
<1>2. /\ codeAt[p][f] = disk[f]
      /\ f \in created => disk[f] = Missing
      /\ f \in late \/ originals[f] \in {None, disk[f]}
  BY DEF UntouchedInv
<1>3. CASE LatestChange(f, p) = -1
  BY <1>2, <1>3 DEF KeptContent, Exempt, SavedInv
<1>4. CASE LatestChange(f, p) # -1
  <2>1. turnEnds[LatestChange(f, p)][f] \in {None, disk[f]}
    BY <1>1, <1>4 DEF UntouchedInv
  <2> QED  BY <1>2, <1>4, <2>1 DEF KeptContent, Exempt, NoTurnEnd
<1> QED  BY <1>3, <1>4

\* So it is good from then on.
LEMMA OpenedGetsGood ==
    ASSUME UntouchedInv, SavedInv, NEW f \in Files \ (touched \union cut), NEW p \in Points,
           f \in snapshotted \union created \union late',
           UNCHANGED <<turnChanges, turnEnds, reused, codeAt, created, originals>>, late \subseteq late'
    PROVE  Good(f, p)'
<1>1. Exempt(f, p) \/ (LatestChange(f, p) = -1 /\ f \in late') \/ KeptContent(f, p) = codeAt[p][f]
  BY OpenedIsGood
<1>2. LatestChange(f, p)' = LatestChange(f, p)
  BY SameLatest
<1> QED  BY <1>1, <1>2 DEF Good, Exempt, NoTurnEnd, KeptContent

\* A reply adds a point with the code of the files.
LEMMA ReplyCopies ==
    ASSUME FileInv, PhaseInv, RecordTypes, CopiesInv, NowInv, Reply
    PROVE  CopiesInv'
<1>1. /\ phase = "between" /\ phase' = "turn" /\ depth' = depth + 1 /\ turnIndex' = depth
      /\ codeAt' = [codeAt EXCEPT ![depth'] = disk] /\ restoredTo = NotRestored
      /\ UNCHANGED <<touched, cut, lost, stray, late, reused, errors, turnChanges, turnEnds, created,
                     originals>>
      /\ errors = {}
  BY DEF Reply, PhaseInv
<1>2. depth \in Turns /\ depth \in Points /\ depth' \in Points /\ depth \in Nat
  BY <1>1, CheckpointAssumption DEF Reply, PhaseInv, Turns, Points
<1>3. PICK d : d = depth
  OBVIOUS
<1> SUFFICES ASSUME NEW f \in touched \ Out, NEW p \in 0..(d + 1)
             PROVE  Good(f, p)' \/ (Working(f)' /\ p > turnIndex')
  BY <1>1, <1>3 DEF CopiesInv, Out
<1>4. f \in Files /\ ~Working(f) /\ ~InTurn
  BY <1>1 DEF RecordTypes, Working, InTurn
<1>5. CASE p # d + 1
  <2>1. p \in 0..depth /\ p \in Points
    BY <1>2, <1>3, <1>5, CheckpointAssumption DEF Points
  <2>2. Good(f, p)
    BY <1>4, <2>1 DEF CopiesInv
  <2>3. codeAt'[p] = codeAt[p]
    BY <1>1, <1>2, <1>3, <1>5, <2>1 DEF RecordTypes
  <2>4. Good(f, p)'
    BY <1>1, <2>2, <2>3, GoodStays
  <2> QED  BY <2>4
<1>6. CASE p = d + 1 /\ f \in turnChanges[d]
  BY <1>1, <1>2, <1>3, <1>6 DEF Working, InTurn
<1>7. CASE p = d + 1 /\ f \notin turnChanges[d]
  <2>1. d \in 0..depth /\ d \in Turns /\ d \in Points /\ p \in Points
    BY <1>1, <1>2, <1>3, <1>7
  <2>2. LatestChange(f, p) = LatestChange(f, d) /\ LatestChange(f, p)' = LatestChange(f, p)
    BY <1>1, <1>7, <2>1, LatestAfter, SameLatest
  <2>3. Good(f, d)
    BY <1>4, <2>1 DEF CopiesInv
  <2>4. codeAt'[p][f] = disk[f]
    BY <1>1, <1>3, <1>7, <2>1 DEF RecordTypes
  <2>5. disk[f] = codeAt[d][f] \/ Exempt(f, d)
    BY <1>1, <1>2, <1>3, <1>4, <2>1 DEF NowInv, At
  <2>6. CASE Exempt(f, d)
    <3>1. Exempt(f, p)'
      BY <1>1, <2>2, <2>6 DEF Exempt, NoTurnEnd
    <3> QED  BY <3>1 DEF Good
  <2>7. CASE ~Exempt(f, d)
    <3>1. KeptContent(f, d) = codeAt'[p][f]
      BY <2>3, <2>4, <2>5, <2>7 DEF Good
    <3>2. KeptContent(f, p)' = KeptContent(f, d)
      BY <1>1, <2>2 DEF KeptContent
    <3> QED  BY <3>1, <3>2 DEF Good
  <2> QED  BY <2>6, <2>7
<1> QED  BY <1>5, <1>6, <1>7

\* The end of a turn makes its points the code the files have by then.
LEMMA TurnOverCopies ==
    ASSUME FileInv, PhaseInv, RecordTypes, TurnEndInv, CopiesInv, NowInv, TurnIsOver, InTurn, ~InTurn',
           UNCHANGED <<depth, touched, cut, lost, stray, late, reused, turnChanges, created, originals>>,
           \A k \in Turns, g \in Files :
               turnEnds'[k][g] = turnEnds[k][g] \/ (k = turnIndex /\ Working(g) /\ turnEnds'[k][g] = None)
    PROVE  CopiesInv'
<1>1. turnIndex \in Turns /\ turnIndex \in Nat /\ depth \in Points /\ depth \in Nat
      /\ restoredTo = NotRestored /\ errors = {} /\ \A k \in Turns : k \in Nat /\ k # -1
  BY TurnInTurns, CheckpointAssumption DEF PhaseInv, Turns
<1>2. PICK k : k = turnIndex
  OBVIOUS
<1> SUFFICES ASSUME NEW f \in touched \ Out, NEW p \in 0..depth
             PROVE  Good(f, p)'
  BY DEF CopiesInv, Out
<1>3. f \in Files /\ p \in Points /\ p \in Nat
  BY <1>1, CheckpointAssumption DEF RecordTypes, Points
<1>4. codeAt'[p][f] = IF k < p THEN disk[f] ELSE codeAt[p][f]
  BY <1>1, <1>2, <1>3 DEF TurnIsOver
<1>5. LatestChange(f, p)' = LatestChange(f, p)
  BY SameLatest
<1>6. CASE k < p /\ Working(f)
  <2>1. PICK q : q = k + 1
    OBVIOUS
  <2>2. LatestChange(f, q) = k
    BY <1>1, <1>2, <1>6, <2>1, LatestAfter DEF Working
  <2>3. LatestChange(f, p) \in reused \/ LatestChange(f, p) = k
    BY <1>2, <1>3, <1>6, <2>1, <2>2, LatestInTurn
  <2>4. CASE LatestChange(f, p) \in reused
    BY <1>5, <2>4 DEF Good, Exempt
  <2>5. CASE LatestChange(f, p) = k /\ k \notin reused
    <3>1. turnEnds'[k][f] \in {None, disk[f]}
      <4>1. CASE phase = "turn"
        BY <1>1, <1>2, <1>3, <2>5, <4>1 DEF TurnEndInv
      <4>2. CASE Capturing
        BY <1>1, <1>2, <1>3, <2>5, <4>2 DEF TurnEndInv, Out
      <4> QED  BY <4>1, <4>2 DEF InTurn, Capturing
    <3>2. codeAt'[p][f] = disk[f] /\ LatestChange(f, p)' = k /\ k # -1
      BY <1>1, <1>2, <1>4, <1>5, <1>6, <2>5
    <3>3. Exempt(f, p)' \/ KeptContent(f, p)' = disk[f]
      BY <3>1, <3>2 DEF Exempt, NoTurnEnd, KeptContent
    <3> QED  BY <3>2, <3>3 DEF Good
  <2> QED  BY <2>3, <2>4, <2>5
<1>7. CASE ~(k < p /\ Working(f))
  <2>1. Good(f, p)
    BY <1>1, <1>2, <1>3, <1>7 DEF CopiesInv
  <2>2. codeAt'[p][f] = codeAt[p][f]
    <3>1. CASE ~(k < p)
      BY <1>4, <3>1
    <3>2. CASE k < p
      <4>1. ~Working(f) /\ At(p)
        BY <1>1, <1>2, <1>3, <1>7, <3>2 DEF At
      <4>2. disk[f] = codeAt[p][f]
        BY <1>1, <1>3, <4>1 DEF NowInv, Out
      <4> QED  BY <1>4, <3>2, <4>2
    <3> QED  BY <3>1, <3>2
  <2>3. \A j \in Turns : j < p => (f \in turnChanges[j] => turnEnds'[j][f] = turnEnds[j][f])
    BY <1>1, <1>2, <1>3, <1>7
  <2>4. Good(f, p)'
    BY <2>1, <2>2, <2>3, GoodStays
  <2> QED  BY <2>4
<1> QED  BY <1>6, <1>7

\* A copy that fails takes at most what there was for the turn.
LEMMA FailedCopy ==
    ASSUME FileInv, PhaseInv, NEW g \in Files, g \in toCapture, CaptureFails(g)
    PROVE  \A k \in Turns, f \in Files :
               turnEnds'[k][f] = turnEnds[k][f] \/ (k = turnIndex /\ Working(f) /\ turnEnds'[k][f] = None)
<1>1. Working(g)
  BY DEF PhaseInv, Working, InTurn, Capturing
<1>2. PICK left \in {None, turnEnds[turnIndex][g]} :
          turnEnds' = [turnEnds EXCEPT ![turnIndex][g] = left]
  BY DEF CaptureFails
<1>3. turnEnds \in [Turns -> [Files -> Contents]]
  BY DEF FileInv, Types, ContentType
<1>4. \A k \in Turns : turnEnds'[k] = IF k = turnIndex THEN [turnEnds[k] EXCEPT ![g] = left]
                                      ELSE turnEnds[k]
  BY <1>2, <1>3
<1>5. \A k \in Turns : turnEnds[k] \in [Files -> Contents]
  BY <1>3
<1> QED  BY <1>1, <1>2, <1>4, <1>5

\* The reply of a run that failed adds a point with the code of the files.
LEMMA RunFailsCopies ==
    ASSUME FileInv, PhaseInv, PhaseInv', RecordTypes, RecordTypes', TurnEndInv, TurnEndInv', CopiesInv,
           NowInv, NEW g \in Files, RunFails(g)
    PROVE  CopiesInv'
<1>1. /\ InTurn /\ InTurn' /\ depth' = depth + 1 /\ depth = turnIndex + 1
      /\ codeAt' = [codeAt EXCEPT ![depth'] = disk] /\ restoredTo = NotRestored /\ errors = {}
      /\ UNCHANGED <<turnIndex, disk, touched, cut, lost, stray, late, reused, turnChanges, created,
                     originals>>
  BY DEF RunFails, CaptureFails, InTurn, PhaseInv
<1>2. /\ turnIndex \in Turns /\ turnIndex \in Nat /\ depth \in Points /\ depth' \in Points
      /\ depth \in Nat /\ \A k \in Turns : k \in Nat
  BY <1>1, TurnInTurns, CheckpointAssumption DEF PhaseInv, Points, Turns
<1>3. \A k \in Turns, f \in Files :
          turnEnds'[k][f] = turnEnds[k][f] \/ (k = turnIndex /\ Working(f) /\ turnEnds'[k][f] = None)
  BY FailedCopy DEF RunFails, CaptureFails
<1>4. PICK d : d = depth
  OBVIOUS
<1> SUFFICES ASSUME NEW f \in touched \ Out, NEW p \in 0..(d + 1), ~(Working(f) /\ p > turnIndex)
             PROVE  Good(f, p)'
  BY <1>1, <1>4 DEF CopiesInv, Out, Working
<1>5. f \in Files /\ p \in Nat /\ p \in Points /\ (d + 1) \in Points
  BY <1>1, <1>2, <1>4, CheckpointAssumption DEF RecordTypes, Points
<1>6. \A k \in Turns : k < p /\ f \in turnChanges[k] => turnEnds'[k][f] = turnEnds[k][f]
  BY <1>2, <1>3, <1>5
<1>7. CASE p # d + 1
  <2>1. p \in 0..depth
    BY <1>2, <1>4, <1>7
  <2>2. Good(f, p) /\ codeAt'[p][f] = codeAt[p][f]
    BY <1>1, <1>2, <1>4, <1>5, <1>7, <2>1 DEF CopiesInv, RecordTypes
  <2> QED  BY <1>1, <1>6, <2>2, GoodStays
<1>8. CASE p = d + 1
  <2>1. ~Working(f) /\ turnIndex < p /\ d \in 0..depth /\ d > turnIndex
    BY <1>1, <1>2, <1>4, <1>8
  <2>2. Good(f, d) /\ disk[f] = codeAt[d][f]
    BY <1>1, <1>2, <1>4, <1>5, <2>1 DEF CopiesInv, NowInv, At, Out
  <2>3. codeAt'[p][f] = disk[f]
    BY <1>1, <1>4, <1>5, <1>8 DEF RecordTypes
  <2>4. LatestChange(f, p)' \in reused' \/ LatestChange(f, p)' = LatestChange(f, d)'
    <3>1. turnIndex' < p /\ d = turnIndex' + 1 /\ d \in Points
      BY <1>1, <1>2, <1>4, <2>1
    <3> QED  BY <1>1, <1>5, <3>1, TurnHasOneLatestNext DEF TurnHasOneLatest
  <2>5. LatestChange(f, d)' = LatestChange(f, d)
    BY <1>1, SameLatest
  <2>6. CASE LatestChange(f, p)' \in reused'
    BY <2>6 DEF Good, Exempt
  <2>7. CASE LatestChange(f, p)' = LatestChange(f, d)
    <3>1. LatestChange(f, d) # -1 => turnEnds'[LatestChange(f, d)][f] = turnEnds[LatestChange(f, d)][f]
      <4>1. ASSUME LatestChange(f, d) # -1
            PROVE  LatestChange(f, d) \in Turns /\ f \in turnChanges[LatestChange(f, d)]
        BY <4>1, LatestIsChange
      <4> QED  BY <1>1, <1>3, <1>5, <2>1, <4>1 DEF Working
    <3>2. Exempt(f, d) => Exempt(f, p)'
      BY <1>1, <2>7, <3>1 DEF Exempt, NoTurnEnd
    <3>3. KeptContent(f, p)' = KeptContent(f, d)
      BY <1>1, <2>7, <3>1 DEF KeptContent
    <3> QED  BY <2>2, <2>3, <3>2, <3>3 DEF Good
  <2> QED  BY <2>4, <2>5, <2>6, <2>7
<1> QED  BY <1>7, <1>8

\* A crash keeps the copies of the files it did not cut.
LEMMA CrashCopies ==
    ASSUME FileInv, PhaseInv, RecordTypes, SavedInv, CopiesInv, Crash
    PROVE  CopiesInv'
<1>1. /\ UNCHANGED <<depth, touched, reused, codeAt>>
      /\ late' = late \union {f \in Files : originals'[f] # originals[f]}
      /\ InTurn => turnChanges[turnIndex] \subseteq cut'
      /\ cut \subseteq cut' /\ lost \subseteq lost' /\ stray \subseteq stray' /\ toCapture \subseteq cut'
  BY CrashCuts DEF Crash
<1> SUFFICES ASSUME NEW f \in touched \ Out', NEW p \in 0..depth
             PROVE  Good(f, p)'
  BY <1>1 DEF CopiesInv
<1>2. f \in Files \ (cut' \union lost') /\ f \in touched \ Out
  BY <1>1 DEF Out, RecordTypes
<1>3. Good(f, p)
  BY <1>1, <1>2 DEF CopiesInv, Working
<1>4. \A k \in Turns : (f \in turnChanges'[k] <=> f \in turnChanges[k])
                       /\ turnEnds'[k][f] = turnEnds[k][f]
  BY <1>1, <1>2, CrashChanges, CrashTurnEnds
<1>5. f \in late' \/ ((f \in created' <=> f \in created) /\ originals'[f] = originals[f])
  BY <1>1, <1>2, CrashChanges
<1>6. Good(f, p)'
  BY <1>1, <1>3, <1>4, <1>5, GoodStays
<1> QED  BY <1>6

\* The end of a turn is no copy for a point before it.
LEMMA CaptureCopies ==
    ASSUME FileInv, PhaseInv, RecordTypes, CopiesInv, NEW g \in Files, Capture(g)
    PROVE  CopiesInv'
<1>1. /\ InTurn /\ InTurn' /\ turnIndex \in Turns /\ turnIndex \in Nat /\ depth \in Nat
      /\ UNCHANGED <<depth, turnIndex, touched, cut, lost, stray, late, reused, turnChanges, created,
                     originals, codeAt>>
  BY TurnInTurns DEF Capture, InTurn, Capturing
<1>2. \A k \in Turns : k \in Nat
  BY CheckpointAssumption DEF Turns
<1>3. \A k \in Turns : k # turnIndex => turnEnds'[k] = turnEnds[k]
  BY DEF FileInv, Types, Capture
<1> SUFFICES ASSUME NEW f \in touched \ Out, NEW p \in 0..depth, ~(Working(f) /\ p > turnIndex)
             PROVE  Good(f, p)'
  BY <1>1 DEF CopiesInv, Out, Working
<1>4. Good(f, p)
  BY DEF CopiesInv
<1>5. \A k \in Turns : k < p /\ f \in turnChanges[k] => turnEnds'[k][f] = turnEnds[k][f]
  BY <1>1, <1>2, <1>3 DEF Working
<1>6. Good(f, p)'
  BY <1>1, <1>4, <1>5, GoodStays
<1> QED  BY <1>6

\* Nor is a change of the current turn one before its point.
LEMMA StartCallCopies ==
    ASSUME FileInv, PhaseInv, RecordTypes, SavedInv, CopiesInv,
           NEW g \in Files, NEW kind \in Kinds, StartCall(g, kind)
    PROVE  CopiesInv'
<1>1. /\ InTurn /\ InTurn' /\ turnIndex \in Turns /\ turnIndex \in Nat /\ depth \in Nat
      /\ UNCHANGED <<depth, turnIndex, touched, cut, lost, stray, late, reused, turnEnds, originals,
                     codeAt, snapshotted>>
      /\ turnChanges' = [turnChanges EXCEPT ![turnIndex] = @ \union {g}]
  BY TurnInTurns DEF StartCall, MayStart, ChangesWith, InTurn
<1>2. \A k \in Turns : k \in Nat
  BY CheckpointAssumption DEF Turns
<1>3. \A k \in Turns : turnChanges'[k] = IF k = turnIndex THEN turnChanges[k] \union {g}
                                         ELSE turnChanges[k]
  BY <1>1 DEF RecordTypes, ChangesType
<1>4. created' = created \/ (created' = created \union {g} /\ g \notin snapshotted \union created)
  BY DEF StartCall, TrackFirst
<1> SUFFICES ASSUME NEW f \in touched \ Out, NEW p \in 0..depth, ~(Working(f)' /\ p > turnIndex)
             PROVE  Good(f, p)'
  BY <1>1 DEF CopiesInv, Out
<1>5. f \in late \/ (f \in created' <=> f \in created)
  BY <1>4 DEF SavedInv, Out
<1>6. Good(f, p)
  BY <1>1, <1>3 DEF CopiesInv, Working
<1>7. \A k \in Turns : k < p => (f \in turnChanges'[k] <=> f \in turnChanges[k])
  BY <1>1, <1>2, <1>3 DEF Working
<1>8. Good(f, p)'
  BY <1>1, <1>5, <1>6, <1>7, GoodStays
<1> QED  BY <1>8

\* A file that a tool opens has good copies from then on.
LEMMA ToolStepCopies ==
    ASSUME FileInv, PhaseInv, RecordTypes, CallRecords, SavedInv, UntouchedInv, CopiesInv,
           NEW c \in Calls, ToolStep(c)
    PROVE  CopiesInv'
<1>1. /\ UNCHANGED <<depth, turnIndex, phase, cut, lost, reused, turnEnds, originals, codeAt, created,
                     snapshotted, turnChanges>>
      /\ late' = late \union ((touched' \ touched) \ (snapshotted \union created))
  BY DEF ToolStep, OpenedBefore
<1>2. stray' = stray /\ touched' \subseteq touched \union {calls[c].file}
  BY ToolStepFiles
<1>3. calls[c].file \in Files
  BY CallFields DEF FileInv
<1> SUFFICES ASSUME NEW f \in touched' \ Out, NEW p \in 0..depth
             PROVE  Good(f, p)' \/ (Working(f)' /\ p > turnIndex')
  BY <1>1, <1>2 DEF CopiesInv, Out
<1>4. CASE f \in touched
  <2>1. CASE Good(f, p)
    <3>1. Good(f, p)'
      BY <1>1, <2>1, GoodStays
    <3> QED  BY <3>1
  <2>2. CASE Working(f) /\ p > turnIndex
    BY <1>1, <2>2 DEF Working, InTurn
  <2> QED  BY <1>4, <2>1, <2>2 DEF CopiesInv
<1>5. CASE f \notin touched
  <2>1. p \in Points /\ f \in Files \ (touched \union cut)
    BY <1>2, <1>3, <1>5, CheckpointAssumption DEF PhaseInv, Points, RecordTypes, Out
  <2>2. f \in snapshotted \union created \union late'
    BY <1>1, <1>5
  <2> QED  BY <1>1, <2>1, <2>2, OpenedGetsGood
<1> QED  BY <1>4, <1>5

\* The original of a file that is open already is late.
LEMMA CopyOriginalCopies ==
    ASSUME FileInv, PhaseInv, CopiesInv, NEW c \in Calls, CopyOriginal(c)
    PROVE  CopiesInv'
<1>1. /\ UNCHANGED <<depth, turnIndex, phase, touched, cut, lost, stray, reused, turnEnds, codeAt,
                     created, turnChanges>>
      /\ late' = late \union ({calls[c].file} \intersect touched)
      /\ originals' = [originals EXCEPT ![calls[c].file] = disk[calls[c].file]]
  BY DEF CopyOriginal
<1>2. \A g \in Files : g # calls[c].file => originals'[g] = originals[g]
  BY <1>1 DEF FileInv, Types, ContentType
<1> SUFFICES ASSUME NEW f \in touched \ Out, NEW p \in 0..depth
             PROVE  Good(f, p)' \/ (Working(f)' /\ p > turnIndex')
  BY <1>1 DEF CopiesInv, Out
<1>3. CASE Good(f, p)
  <2>1. f \in late' \/ originals'[f] = originals[f]
    BY <1>1 DEF FileInv, Types, ContentType
  <2>2. Good(f, p)'
    BY <1>1, <1>3, <2>1, GoodStays
  <2> QED  BY <2>2
<1>4. CASE Working(f) /\ p > turnIndex
  BY <1>1, <1>4 DEF Working, InTurn
<1> QED  BY <1>3, <1>4 DEF CopiesInv

\* A restore changes a file no tool has opened as an open does.
LEMMA RestoreCopies ==
    ASSUME PhaseInv, RecordTypes, SavedInv, UntouchedInv, CopiesInv, NEW point \in Points, Restore(point)
    PROVE  CopiesInv'
<1>1. /\ ~InTurn /\ UNCHANGED <<depth, cut, lost, stray, reused, turnEnds, originals, codeAt, created,
                               turnChanges, snapshotted>>
      /\ late' = late \union ((touched' \ touched) \ (snapshotted \union created))
      /\ touched' \subseteq Files
  BY DEF Restore, InTurn, OpenedBefore, RecordTypes
<1> SUFFICES ASSUME NEW f \in touched' \ Out, NEW p \in 0..depth
             PROVE  Good(f, p)'
  BY <1>1 DEF CopiesInv, Out
<1>2. CASE f \in touched
  <2>1. Good(f, p)
    BY <1>1, <1>2 DEF CopiesInv, Working
  <2> QED  BY <1>1, <2>1, GoodStays
<1>3. CASE f \notin touched
  <2>1. p \in Points /\ f \in Files \ (touched \union cut)
    BY <1>1, <1>3, CheckpointAssumption DEF PhaseInv, Points, Out
  <2>2. f \in snapshotted \union created \union late'
    BY <1>1, <1>3
  <2> QED  BY <1>1, <2>1, <2>2, OpenedGetsGood
<1> QED  BY <1>2, <1>3

\* Every step keeps the copies good.
LEMMA CopiesInvNext ==
    ASSUME FileInv, CheckpointInv, [Next]_vars, PhaseInv', RecordTypes', TurnEndInv'
    PROVE  CopiesInv'
<1>1. /\ PhaseInv /\ RecordTypes /\ CallRecords /\ SavedInv
      /\ TurnEndInv /\ UntouchedInv /\ CopiesInv /\ NowInv
  BY DEF CheckpointInv
<1>2. depth \in 0..depth
  BY <1>1 DEF PhaseInv
<1>3. ASSUME UNCHANGED <<depth, turnIndex, touched, cut, lost, late, reused, turnChanges, turnEnds,
                         created, originals, codeAt>>,
             stray \subseteq stray', InTurn => InTurn'
      PROVE  CopiesInv'
  <2>1. Out \subseteq Out'
    BY <1>3 DEF Out
  <2> QED  BY <1>1, <1>2, <1>3, <2>1, CopiesStay
<1>4. CASE StartRun
  <2>1. ~InTurn /\ depth' = depth /\ Out' = Out
    BY <1>4 DEF StartRun, InTurn, Out
  <2> QED  BY <1>1, <1>2, <1>4, <2>1, CopiesStay DEF StartRun
<1>5. CASE Reply
  BY <1>1, <1>5, ReplyCopies
<1>6. CASE EndTurn \/ EndRun
  BY <1>3, <1>6 DEF EndTurn, EndRun, InTurn
<1>7. CASE Captured
  <2>1. TurnIsOver /\ InTurn /\ ~InTurn'
    BY <1>7 DEF Captured, Capturing, InTurn
  <2> QED  BY <1>1, <1>7, <2>1, TurnOverCopies DEF Captured
<1>8. CASE Abort
  BY <1>3, <1>8, AbortCallsStay DEF Abort, InTurn
<1>9. CASE Crash
  BY <1>1, <1>9, CrashCopies
<1>10. ASSUME NEW f \in Files, Capture(f) PROVE CopiesInv'
  BY <1>1, <1>10, CaptureCopies
<1>10a. ASSUME NEW f \in Files, RunFails(f) PROVE CopiesInv'
  BY <1>1, <1>10a, RunFailsCopies
<1>10b. ASSUME NEW f \in Files, RunFailsAgain(f) PROVE CopiesInv'
  <2>1. TurnIsOver /\ InTurn /\ ~InTurn' /\ CaptureFails(f) /\ f \in toCapture
    BY <1>10b DEF RunFailsAgain, CaptureFails, InTurn
  <2>2. \A k \in Turns, g \in Files :
            turnEnds'[k][g] = turnEnds[k][g] \/ (k = turnIndex /\ Working(g) /\ turnEnds'[k][g] = None)
    BY <1>1, <2>1, FailedCopy
  <2> QED  BY <1>1, <1>10b, <2>1, <2>2, TurnOverCopies DEF RunFailsAgain, CaptureFails
<1>11. ASSUME NEW f \in Files, NEW k \in Kinds, StartCall(f, k) PROVE CopiesInv'
  BY <1>1, <1>11, StartCallCopies
<1>12. ASSUME NEW c \in Calls, CallStep(c) PROVE CopiesInv'
  <2>1. CASE RunCall(c) \/ RefuseCall(c)
    BY <1>3, <2>1 DEF RunCall, Join, RefuseCall, InTurn
  <2>2. CASE ToolStep(c)
    BY <1>1, <2>2, ToolStepCopies
  <2> QED  BY <1>12, <2>1, <2>2 DEF CallStep
<1>13. ASSUME NEW c \in Calls, CopyTurnFile(c) PROVE CopiesInv'
  BY <1>3, <1>13 DEF CopyTurnFile, InTurn
<1>14. ASSUME NEW c \in Calls, CopyOriginal(c) PROVE CopiesInv'
  BY <1>1, <1>14, CopyOriginalCopies
<1>15. ASSUME NEW p \in Points, Restore(p) PROVE CopiesInv'
  BY <1>1, <1>15, RestoreCopies
<1>16. ASSUME NEW p \in Points, Navigate(p) PROVE CopiesInv'
  <2>1. ~InTurn /\ depth' \in 0..depth /\ reused \subseteq reused' /\ Out' = Out
    BY <1>1, <1>16 DEF Navigate, InTurn, Points, PhaseInv, Out
  <2> QED  BY <1>1, <1>16, <2>1, CopiesStay DEF Navigate
<1>17. CASE UNCHANGED vars
  BY <1>3, <1>17 DEF InTurn
<1> QED  BY <1>4, <1>5, <1>6, <1>7, <1>8, <1>9, <1>10, <1>10a, <1>10b, <1>11, <1>12, <1>13, <1>14,
            <1>15, <1>16, <1>17 DEF Next, CopyStep

-----------------------------------------------------------------------------
\* The files

\* While the files and the copies stay as they are, so does what holds of them.
LEMMA NowStays ==
    ASSUME NowInv,
           UNCHANGED <<disk, codeAt, turnChanges, turnEnds>>,
           Out \union errors \subseteq Out' \union errors', late \subseteq late', reused \subseteq reused',
           InTurn' <=> InTurn, InTurn => turnIndex' = turnIndex,
           \A p \in Points : At(p)' => At(p)
    PROVE  NowInv'
<1> SUFFICES ASSUME NEW f \in Files \ (Out' \union errors'), NEW p \in Points, At(p)'
             PROVE  (disk[f] = codeAt[p][f] \/ (Exempt(f, p) /\ ~InTurn) \/ Working(f))'
  BY DEF NowInv
<1>1. disk[f] = codeAt[p][f] \/ (Exempt(f, p) /\ ~InTurn) \/ Working(f)
  BY DEF NowInv
<1>2. CASE disk[f] = codeAt[p][f] \/ Working(f)
  BY <1>2 DEF Working
<1>3. CASE Exempt(f, p) /\ ~InTurn
  <2>1. Exempt(f, p)'
    BY <1>3, ExemptStays
  <2> QED  BY <1>3, <2>1
<1> QED  BY <1>1, <1>2, <1>3

\* A restore leaves in a file what is kept of it for the point.
LEMMA RestoreIsGood ==
    ASSUME FileInv, CheckpointInv, NEW point \in Points, Restore(point)
    PROVE  NowInv'
<1>1. /\ PhaseInv /\ RecordTypes /\ CallRecords /\ SavedInv /\ UntouchedInv /\ CopiesInv
  BY DEF CheckpointInv
<1>2. /\ ~InTurn /\ ~InTurn' /\ restoredTo' = point /\ point \in 0..depth
      /\ UNCHANGED <<turnChanges, turnEnds, codeAt, reused, cut, lost, stray>> /\ late \subseteq late'
      /\ \A f \in Files \ errors' :
             disk'[f] = IF f \in Tracked THEN RestoredContent(f, point) ELSE disk[f]
  BY <1>1, CheckpointAssumption DEF Restore, InTurn, Points, PhaseInv
<1> SUFFICES ASSUME NEW f \in Files \ (Out \union errors'), NEW p \in Points, At(p)'
             PROVE  (disk[f] = codeAt[p][f] \/ (Exempt(f, p) /\ ~InTurn))'
  BY <1>2 DEF NowInv, Out
<1>3. p = point
  BY <1>2, CheckpointAssumption DEF At, Points, NotRestored
<1>4. Exempt(f, p) => Exempt(f, p)'
  BY <1>2, ExemptStays
<1>5. CASE f \notin touched
  <2>1. disk[f] = codeAt[p][f]
    BY <1>1, <1>5 DEF UntouchedInv
  <2>2. disk'[f] = disk[f] \/ (f \in late /\ LatestChange(f, p) = -1)
    BY <1>1, <1>2, <1>3, <1>5, RestoreUntouched DEF Out
  <2> QED  BY <1>2, <1>4, <2>1, <2>2 DEF Exempt
<1>6. CASE f \in touched
  <2>1. f \in Tracked
    <3>1. PICK c \in Calls : f = calls[c].file
      BY <1>1, <1>6 DEF CallRecords, FilesOfCalls, Out
    <3>2. \E k \in Turns : f \in turnChanges[k]
      BY <1>1, <3>1 DEF CallRecords, Out
    <3> QED  BY <3>2 DEF Tracked
  <2>2. disk'[f] = RestoredContent(f, p)
    BY <1>2, <1>3, <2>1
  <2>3. Exempt(f, p) \/ KeptContent(f, p) = codeAt[p][f]
    BY <1>1, <1>2, <1>3, <1>6 DEF CopiesInv, Good, Working
  <2>4. Exempt(f, p) \/ RestoredContent(f, p) = KeptContent(f, p)
    BY <1>1, <1>6 DEF RestoredContent, KeptContent, Exempt, NoTurnEnd, SavedInv, Out
  <2> QED  BY <1>2, <1>4, <2>2, <2>3, <2>4
<1> QED  BY <1>5, <1>6

\* Every step keeps the files at the code of the point.
LEMMA NowInvNext ==
    ASSUME FileInv, CheckpointInv, [Next]_vars
    PROVE  NowInv'
<1>1. /\ PhaseInv /\ RecordTypes /\ CallRecords /\ SavedInv
      /\ TurnEndInv /\ UntouchedInv /\ CopiesInv /\ NowInv
  BY DEF CheckpointInv
<1>2. Types /\ depth \in Points
  BY <1>1, CheckpointAssumption DEF FileInv, PhaseInv, Points
<1>3. ASSUME UNCHANGED <<disk, codeAt, turnChanges, turnEnds, cut, lost, late, reused, turnIndex,
                         depth, restoreVars>>,
             stray \subseteq stray', InTurn' <=> InTurn
      PROVE  NowInv'
  <2>1. \A p \in Points : At(p)' => At(p)
    BY <1>3 DEF At
  <2>2. Out \union errors \subseteq Out' \union errors'
    BY <1>3 DEF Out
  <2> QED  BY <1>1, <1>3, <2>1, <2>2, NowStays
<1>4. CASE StartRun
  <2>1. ~InTurn /\ ~InTurn' /\ Out' = Out /\ errors' = errors
    BY <1>4 DEF StartRun, InTurn, Out
  <2>2. \A p \in Points : At(p)' => At(p)
    BY <1>1, <1>2, <1>4, <2>1, CheckpointAssumption DEF At, StartRun, Points, PhaseInv
  <2> QED  BY <1>1, <1>4, <2>1, <2>2, NowStays DEF StartRun
<1>5. CASE Reply
  <2>1. /\ depth' \in Points /\ depth' \in Nat /\ restoredTo' = NotRestored
        /\ turnIndex' + 1 = depth' /\ InTurn'
        /\ codeAt' = [codeAt EXCEPT ![depth'] = disk] /\ disk' = disk
    BY <1>1, <1>5, CheckpointAssumption DEF Reply, PhaseInv, Points, InTurn
  <2>2. codeAt'[depth'] = disk'
    BY <1>1, <2>1 DEF RecordTypes
  <2>3. \A p \in Points : At(p)' => p = depth'
    BY <2>1, CheckpointAssumption DEF At, Points
  <2> QED  BY <2>2, <2>3 DEF NowInv
<1>6. CASE EndTurn \/ EndRun
  BY <1>3, <1>6 DEF EndTurn, EndRun, InTurn
<1>7. ASSUME TurnIsOver, InTurn, ~InTurn', UNCHANGED <<disk, depth, restoredTo>>
      PROVE  NowInv'
  <2>1. restoredTo' = NotRestored /\ turnIndex < depth /\ depth \in Points /\ depth \in Nat
    BY <1>1, <1>7, TurnInTurns
  <2>2. codeAt'[depth] = disk
    BY <1>7, <2>1 DEF TurnIsOver
  <2>3. \A p \in Points : At(p)' => p = depth
    BY <1>7, <2>1, CheckpointAssumption DEF At, Points
  <2> QED  BY <1>7, <2>2, <2>3 DEF NowInv
<1>7a. CASE Captured
  BY <1>7, <1>7a DEF Captured, Capturing, InTurn
<1>8. CASE Abort
  BY <1>3, <1>8, AbortCallsStay DEF Abort, InTurn
<1>9. CASE Crash
  <2>1. /\ UNCHANGED <<disk, codeAt, reused, depth, restoreVars>> /\ ~InTurn'
        /\ late \subseteq late'
        /\ InTurn => turnChanges[turnIndex] \subseteq cut'
        /\ cut \subseteq cut' /\ lost \subseteq lost' /\ stray \subseteq stray' /\ toCapture \subseteq cut'
    BY <1>1, <1>9, CrashCuts DEF Crash, InTurn
  <2>2. ASSUME NEW p \in Points, At(p)' PROVE At(p)
    BY <1>1, <2>1, <2>2, TurnInTurns, CheckpointAssumption DEF At, Points, PhaseInv
  <2> SUFFICES ASSUME NEW f \in Files \ (Out' \union errors), NEW p \in Points, At(p)
               PROVE  disk[f] = codeAt[p][f] \/ Exempt(f, p)'
    BY <2>1, <2>2 DEF NowInv
  <2>3. f \in Files \ (cut' \union lost') /\ f \in Files \ (Out \union errors)
    BY <2>1 DEF Out
  <2>4. disk[f] = codeAt[p][f] \/ Exempt(f, p)
    BY <1>1, <2>1, <2>3 DEF NowInv, Working
  <2>5. \A k \in Turns : (f \in turnChanges'[k] <=> f \in turnChanges[k])
                         /\ turnEnds'[k][f] = turnEnds[k][f]
    BY <1>1, <1>9, <2>1, <2>3, CrashChanges, CrashTurnEnds
  <2>6. Exempt(f, p) => Exempt(f, p)'
    BY <2>1, <2>5, ExemptStays
  <2> QED  BY <2>4, <2>6
<1>10. ASSUME NEW f \in Files, Capture(f) PROVE NowInv'
  <2>1. InTurn /\ InTurn' /\ UNCHANGED <<disk, codeAt, turnChanges, cut, lost, stray, turnIndex, depth,
                                         restoreVars>>
    BY <1>10 DEF Capture, Capturing, InTurn
  <2> QED  BY <1>1, <2>1 DEF NowInv, At, Working, Out
<1>10a. ASSUME NEW f \in Files, RunFails(f) PROVE NowInv'
  <2>1. /\ InTurn /\ InTurn' /\ depth' = depth + 1 /\ restoredTo = NotRestored
        /\ codeAt' = [codeAt EXCEPT ![depth'] = disk]
        /\ UNCHANGED <<disk, turnChanges, cut, lost, stray, turnIndex, restoreVars>>
    BY <1>1, <1>10a DEF RunFails, CaptureFails, InTurn, PhaseInv
  <2>2. depth' \in Points /\ depth' \in Nat /\ depth \in Nat
    BY <1>1, <1>10a, CheckpointAssumption DEF RunFails, PhaseInv, Points
  <2>3. ASSUME NEW p \in Points, At(p)'
        PROVE  codeAt'[p] = disk \/ (At(p) /\ codeAt'[p] = codeAt[p])
    <3>1. CASE p = depth'
      BY <1>1, <2>1, <2>2, <3>1 DEF RecordTypes
    <3>2. CASE p # depth'
      BY <1>1, <2>1, <2>2, <2>3, <3>2, CheckpointAssumption DEF At, Points, RecordTypes
    <3> QED  BY <3>1, <3>2
  <2> QED  BY <1>1, <2>1, <2>3 DEF NowInv, Working, Out
<1>10b. ASSUME NEW f \in Files, RunFailsAgain(f) PROVE NowInv'
  BY <1>7, <1>10b DEF RunFailsAgain, CaptureFails, InTurn
<1>11. ASSUME NEW f \in Files, NEW k \in Kinds, StartCall(f, k) PROVE NowInv'
  <2>1. /\ InTurn /\ InTurn' /\ turnIndex \in Turns
        /\ UNCHANGED <<disk, codeAt, cut, lost, stray, turnIndex, depth, restoreVars>>
        /\ turnChanges' = [turnChanges EXCEPT ![turnIndex] = @ \union {f}]
    BY <1>1, <1>11, TurnInTurns DEF StartCall, MayStart, ChangesWith, InTurn
  <2>2. turnChanges[turnIndex] \subseteq turnChanges'[turnIndex]
    BY <1>1, <2>1 DEF RecordTypes, ChangesType
  <2> QED  BY <1>1, <2>1, <2>2 DEF NowInv, At, Working, Out
<1>12. ASSUME NEW c \in Calls, CallStep(c) PROVE NowInv'
  <2>1. CASE RunCall(c) \/ RefuseCall(c)
    BY <1>3, <2>1 DEF RunCall, Join, RefuseCall, InTurn
  <2>2. CASE ToolStep(c)
    <3>1. /\ UNCHANGED <<codeAt, turnChanges, turnEnds, cut, lost, stray, reused, phase, turnIndex,
                         depth, restoreVars>>
          /\ late \subseteq late'
      BY <2>2, <1>1, ToolStepFiles DEF ToolStep
    <3> SUFFICES ASSUME NEW f \in Files \ (Out \union errors), NEW p \in Points, At(p)
                 PROVE  \/ disk'[f] = codeAt[p][f]
                        \/ Exempt(f, p)' /\ ~InTurn
                        \/ Working(f)
      BY <3>1 DEF NowInv, At, Working, InTurn, Out
    <3>2. disk'[f] = disk[f] \/ Working(f)
      BY <1>1, <2>2, ToolStepFiles DEF Working, InTurn, Out
    <3>3. Exempt(f, p) => Exempt(f, p)'
      BY <3>1, ExemptStays
    <3> QED  BY <1>1, <3>2, <3>3 DEF NowInv
  <2> QED  BY <1>12, <2>1, <2>2 DEF CallStep
<1>13. ASSUME NEW c \in Calls, CopyStep(c) PROVE NowInv'
  <2>1. /\ UNCHANGED <<disk, codeAt, turnChanges, turnEnds, cut, lost, stray, reused, phase, turnIndex,
                       depth, restoreVars>>
        /\ late \subseteq late'
    BY <1>13 DEF CopyStep, CopyTurnFile, CopyOriginal
  <2>2. Out' = Out /\ (InTurn' <=> InTurn)
    BY <2>1 DEF Out, InTurn
  <2>3. \A p \in Points : At(p)' => At(p)
    BY <2>1, <2>2 DEF At
  <2> QED  BY <1>1, <2>1, <2>2, <2>3, NowStays
<1>14. ASSUME NEW p \in Points, Restore(p) PROVE NowInv'
  BY <1>14, RestoreIsGood
<1>15. ASSUME NEW p \in Points, Navigate(p) PROVE NowInv'
  <2>1. restoredTo = p /\ restoredTo # NotRestored /\ restoredTo' = restoredTo
    BY <1>15, CheckpointAssumption DEF Navigate, Points, NotRestored
  <2>2. \A q \in Points : At(q)' => At(q)
    BY <2>1 DEF At
  <2>3. ~InTurn /\ ~InTurn' /\ reused \subseteq reused' /\ Out' = Out /\ errors' = errors
    BY <1>15 DEF Navigate, InTurn, Out
  <2> QED  BY <1>1, <1>15, <2>2, <2>3, NowStays DEF Navigate
<1>16. CASE UNCHANGED vars
  BY <1>3, <1>16 DEF InTurn
<1> QED  BY <1>4, <1>5, <1>6, <1>7a, <1>8, <1>9, <1>10, <1>10a, <1>10b, <1>11, <1>12, <1>13, <1>14,
            <1>15, <1>16 DEF Next

-----------------------------------------------------------------------------
\* The theorem about the checkpoint

\* The invariant of the checkpoint holds in the beginning ...
LEMMA CheckpointInvInit ==
    ASSUME CheckpointInit
    PROVE  CheckpointInv
<1>1. /\ calls = <<>> /\ copying = <<>> /\ disk \in [Files -> {Missing, Original}]
      /\ codeAt = [p \in Points |-> disk] /\ touched = {} /\ stray = {}
      /\ originals = [f \in Files |-> None]
      /\ turnEnds = [k \in Turns |-> [f \in Files |-> None]]
      /\ snapshotted = {} /\ created = {} /\ savedCreated = {} /\ toCapture = {}
      /\ turnChanges = [k \in Turns |-> {}] /\ turnSnapshots = [k \in Turns |-> {}]
      /\ turnEndFiles = [k \in Turns |-> {}] /\ savedChanges = [k \in Turns |-> {}]
      /\ late = {} /\ cut = {} /\ lost = {} /\ errors = {} /\ reused = {}
      /\ phase = "idle" /\ depth = 0 /\ turnIndex = 0 /\ replies = 0 /\ restoredTo = NotRestored
      /\ batch = {} /\ aborted = FALSE
  BY DEF CheckpointInit, ToolInit
<1>2. disk \in ContentType
  BY <1>1, ContentsAre DEF ContentType
<1>3. Calls = {} /\ MaxReplies \in Nat \ {0}
  BY <1>1, CheckpointAssumption DEF Calls
<1>4. PhaseInv
  <2>1. 0 \in Points /\ phase = "idle" /\ toCapture = {}
    BY <1>1, <1>3 DEF Points
  <2>2. depth \in Nat /\ replies \in Nat /\ depth <= replies /\ replies <= MaxReplies
    BY <1>1, <1>3
  <2>3. aborted \in BOOLEAN
    BY DEF CheckpointInit
  <2> QED  BY <1>1, <2>1, <2>2, <2>3 DEF PhaseInv
<1>5. RecordTypes
  BY <1>1, <1>2 DEF RecordTypes, ChangesType, CopyType
<1>6. CallRecords
  BY <1>1, <1>3 DEF CallRecords, FilesOfCalls, Tracked
<1>7. SavedInv
  BY <1>1 DEF SavedInv, None, Missing, Original
<1>8. TurnEndInv /\ UntouchedInv /\ CopiesInv /\ NowInv
  <2>1. ~InTurn /\ phase = "idle"
    BY <1>1 DEF InTurn
  <2>2. \A p \in Points : codeAt[p] = disk
    BY <1>1
  <2> QED  BY <1>1, <2>1, <2>2 DEF TurnEndInv, UntouchedInv, CopiesInv, NowInv, Capturing
<1> QED  BY <1>4, <1>5, <1>6, <1>7, <1>8 DEF CheckpointInv

\* ... and every step keeps it.
LEMMA CheckpointInvNext ==
    ASSUME FileInv, CheckpointInv, [Next]_vars
    PROVE  CheckpointInv'
BY PhaseInvNext, RecordTypesNext, CallRecordsNext, SavedInvNext, TurnEndInvNext,
   UntouchedInvNext, CopiesInvNext, NowInvNext DEF CheckpointInv

\* It is what the checkpoint promises.
LEMMA InvSuffices ==
    ASSUME FileInv, CheckpointInv
    PROVE  CheckpointSuffices
<1>1. Types /\ PhaseInv /\ RecordTypes /\ CallRecords /\ SavedInv /\ UntouchedInv /\ NowInv
  BY DEF FileInv, CheckpointInv
<1>2. TypeOK
  <2>1. depth \in Points /\ (restoredTo = NotRestored \/ restoredTo \in Points)
    BY <1>1, CheckpointAssumption DEF PhaseInv, Points
  <2>2. FileTypeOK
    BY <1>1 DEF FileTypeOK, Types, RecordTypes, ContentType
  <2> QED  BY <1>1, <2>1, <2>2
           DEF TypeOK, Types, PhaseInv, RecordTypes, SavedInv, CopyType, ChangesType, ContentType
<1>3. RestoreIsExact
  <2> SUFFICES ASSUME restoredTo # NotRestored, NEW f \in Promised \ lost
               PROVE  LatestChange(f, restoredTo) \in reused \/ Restored(f)
    BY DEF RestoreIsExact
  <2>1. f \in Files
    BY <1>1 DEF Promised, Tracked, RecordTypes, ChangesType
  <2>2. restoredTo \in Points /\ ~InTurn
    BY <1>1, CheckpointAssumption DEF PhaseInv, Points, InTurn
  <2>3. PICK p \in Points : p = restoredTo
    BY <2>2
  <2>4. disk[f] = codeAt[p][f] \/ Exempt(f, p)
    BY <1>1, <2>1, <2>2, <2>3 DEF NowInv, At, Working, Out, Promised
  <2> QED  BY <2>3, <2>4 DEF Exempt, Restored
<1>4. NewFilesListed
  <2> SUFFICES ASSUME NEW f \in touched, codeAt[0][f] = Missing PROVE f \in created \union lost
    BY <1>1 DEF NewFilesListed, SavedInv
  <2> SUFFICES ASSUME f \notin lost PROVE f \in created
    OBVIOUS
  <2>1. PICK c \in Calls : f = calls[c].file
    BY <1>1 DEF CallRecords, FilesOfCalls
  <2> QED  BY <1>1, <2>1 DEF CallRecords
<1> QED  BY <1>2, <1>3, <1>4 DEF CheckpointSuffices

\* The checkpoint on disk and in memory suffices for every session point of the
\* branch, after any turns, aborts, failures, restores, navigations and crashes
\* (file-checkpoint.ts:200), for the files that no crash has cut a turn or a list
\* of, and that no restore has just reported.
THEOREM CheckpointsSuffice == Spec => []CheckpointSuffices
<1>1. CheckpointInit => FileInv /\ CheckpointInv
  BY FileInvInit, CheckpointInvInit
<1>2. FileInv /\ CheckpointInv /\ [Next]_vars => FileInv' /\ CheckpointInv'
  BY FileInvNext, CheckpointInvNext
<1>3. FileInv /\ CheckpointInv => CheckpointSuffices
  BY InvSuffices
<1> QED  BY <1>1, <1>2, <1>3, PTL DEF Spec
=============================================================================
