------------------------- MODULE AgentHarnessProofs -------------------------
(***************************************************************************)
(* Proofs about AgentHarness, for any number of runs, messages, writes and *)
(* failures.  That every queued message is in one place holds whatever     *)
(* clients do (QueueInv).  The other theorems are about clients that wait  *)
(* for one operation before they start the next, ~EarlyPrompts: then one   *)
(* run at a time is under way (OwnerInv), only that run and the calls the  *)
(* phase lets through touch the session, and its context, its flush and    *)
(* the order of the entries can be followed (DataInv).                     *)
(***************************************************************************)
EXTENDS AgentHarness, SequenceTheorems, TLAPS

USE DEF fields, queues, runVars, history, vars, NoRun

-----------------------------------------------------------------------------
\* The inductive invariant

\* What each list may hold.
Message == [kind : {"queued", "prompt"}, id : Nat]
Write == [kind : {"write"}, id : Nat]

Types ==
    /\ phase \in {"idle", "turn", "compaction", "branch_summary"}
    /\ runAbortController \in Runs \union {NoRun}
    /\ runPromise \in Runs \union {NoRun}
    /\ pendingSessionWrites \in Seq(Write)
    /\ steerQueue \in Seq(Message)
    /\ followUpQueue \in Seq(Message)
    /\ nextTurnQueue \in Seq(Message)
    /\ session \in Seq(Entry)
    /\ pc \in [Runs -> Points]
    /\ unsent \in [Runs -> Seq(Message)]
    /\ context \in [Runs -> Seq(Entry)]
    /\ more \in [Runs -> BOOLEAN]
    /\ writing \in [Runs -> Write \union {NoWrite}]
    /\ replies \in [Runs -> Nat]
    /\ aborted \subseteq Runs
    /\ structural \in BOOLEAN
    /\ nextId \in Nat \ {0}
    /\ nextWrite \in Nat \ {0}
    /\ dropped \subseteq Nat
    /\ structurals \in Nat
    /\ failures \in Nat

\* An entry of this kind is in the list once.
Distinct(s, kind) ==
    \A i, j \in DOMAIN s :
        s[i].kind = kind /\ s[j].kind = kind /\ s[i].id = s[j].id => i = j

\* The places a queued message can be in, and the messages of each.
Place == ({"steer", "followUp", "nextTurn", "seen", "dropped"} \X {NoRun})
            \union ({"run"} \X Runs)

Where(p) ==
    IF p[1] = "steer" THEN QueuedIds(steerQueue)
    ELSE IF p[1] = "followUp" THEN QueuedIds(followUpQueue)
    ELSE IF p[1] = "nextTurn" THEN QueuedIds(nextTurnQueue)
    ELSE IF p[1] = "seen" THEN QueuedIds(session)
    ELSE IF p[1] = "dropped" THEN dropped
    ELSE QueuedIds(unsent[p[2]])

PlaceInv ==
    /\ \A p \in Place : Where(p) \subseteq 1..(nextId - 1)
    /\ \A n \in 1..(nextId - 1) : \E p \in Place : n \in Where(p)
    /\ \A p, q \in Place : p # q => Where(p) \intersect Where(q) = {}

\* Only these points hand messages to the session.
HandingPoints == {"announce", "hook", "prompts", "turn"}

ListInv ==
    /\ Distinct(steerQueue, "queued")
    /\ Distinct(followUpQueue, "queued")
    /\ Distinct(nextTurnQueue, "queued")
    /\ \A r \in Runs : Distinct(unsent[r], "queued")
    /\ \A r \in Runs : pc[r] \notin HandingPoints => unsent[r] = <<>>

QueueInv == PlaceInv /\ ListInv

\* One operation at a time: a run, or compact() or navigateTree().
SoleInv ==
    /\ \A q, r \in Runs : ~Over(q) /\ ~Over(r) => q = r
    /\ \A q, r \in Runs : q < r /\ pc[r] # "unused" => pc[q] # "unused"
    /\ structural => \A r \in Runs : Over(r)

IdlePoints == {"settling", "settlingFailed", "tail"}

PhaseInv ==
    /\ structural <=> phase \in {"compaction", "branch_summary"}
    /\ PhaseGuardsLoop
    /\ phase = "turn" => \E r \in Runs : ~Over(r) /\ pc[r] \notin IdlePoints

FieldInv ==
    /\ \A r \in Runs : ~Over(r) => runPromise = r
    /\ \A r \in Runs : pc[r] \in LoopPoints => runAbortController = r
    /\ \A r \in Runs : pc[r] \in StartPoints => runAbortController = NoRun
    /\ (\A r \in Runs : Over(r)) => runAbortController = NoRun /\ runPromise = NoRun

OwnerInv == SoleInv /\ PhaseInv /\ FieldInv

\* Between two save points the context follows the session.
FollowingPoints == {"announce", "hook", "prompts", "turn", "request", "results",
                    "turnEnd", "lastTurnEnd", "poll"}

ContextInv ==
    \A r \in Runs : pc[r] \in FollowingPoints => context[r] = session

\* A flush appends the head of the pending writes.
FlushInv ==
    \A r \in Runs : writing[r] # NoWrite =>
        /\ pc[r] \in FlushPoints
        /\ pendingSessionWrites # <<>>
        /\ writing[r] = Head(pendingSessionWrites)

LogInv ==
    /\ Ids(session, "write") \union Ids(pendingSessionWrites, "write")
            = 1..(nextWrite - 1)
    /\ Ids(session, "write") \intersect Ids(pendingSessionWrites, "write") = {}
    /\ Distinct(session, "write")
    /\ Distinct(pendingSessionWrites, "write")

\* A reply with calls is last in the session until their results are.
ResultInv ==
    /\ WritesAtSavePoints
    /\ \A r \in Runs : pc[r] = "results" =>
            Len(session) > 0 /\ session[Len(session)].kind = "reply"

AfterFailure == FailurePoints \union {"turnRethrow", "failEndFlush", "settlingFailed",
                                      "tailReject"}

Sorted(s) ==
    \A i, j \in DOMAIN s :
        i < j /\ s[i].kind = "write" /\ s[j].kind = "write" => s[i].id < s[j].id

OrderInv ==
    /\ failures = 0 => \A r \in Runs : pc[r] \notin AfterFailure
    /\ structurals = 0 => ~structural
    /\ failures = 0 /\ structurals = 0 =>
            /\ phase = "idle" => pendingSessionWrites = <<>>
            /\ Sorted(session)
            /\ Sorted(pendingSessionWrites)
            /\ \A v \in Ids(session, "write"), w \in Ids(pendingSessionWrites, "write") :
                    v < w

DataInv == ContextInv /\ FlushInv /\ LogInv /\ ResultInv /\ OrderInv

HarnessInv == Types /\ QueueInv /\ (~EarlyPrompts => OwnerInv /\ DataInv)

-----------------------------------------------------------------------------
\* Lists of entries

LEMMA ListTypes ==
    ASSUME NEW s
    PROVE  /\ s \in Seq(Message) => s \in Seq(Entry)
           /\ s \in Seq(Write) => s \in Seq(Entry)
  <1>1. Message \subseteq Entry /\ Write \subseteq Entry
    BY DEF Message, Write, Entry
  <1> QED
    BY <1>1, SeqMonotonic

\* What Append, Tail and concatenation do to the elements.
LEMMA AppendIs ==
    ASSUME NEW S, NEW s \in Seq(S), NEW e \in S
    PROVE  /\ Append(s, e) \in Seq(S)
           /\ Len(Append(s, e)) = Len(s) + 1
           /\ Len(s) \in Nat
           /\ DOMAIN s = 1..Len(s) /\ DOMAIN Append(s, e) = 1..(Len(s) + 1)
           /\ \A i \in 1..Len(s) : Append(s, e)[i] = s[i]
           /\ Append(s, e)[Len(s) + 1] = e
           /\ Append(s, e) # <<>>
  OBVIOUS

LEMMA TailIs ==
    ASSUME NEW S, NEW s \in Seq(S), s # <<>>
    PROVE  /\ Tail(s) \in Seq(S) /\ Head(s) \in S
           /\ Len(s) \in Nat /\ Len(s) > 0
           /\ Len(Tail(s)) = Len(s) - 1
           /\ DOMAIN s = 1..Len(s) /\ DOMAIN Tail(s) = 1..(Len(s) - 1)
           /\ Head(s) = s[1]
           /\ \A i \in 1..(Len(s) - 1) : Tail(s)[i] = s[i + 1]
  OBVIOUS

LEMMA ConcatIs ==
    ASSUME NEW S, NEW s \in Seq(S), NEW t \in Seq(S)
    PROVE  /\ s \o t \in Seq(S)
           /\ Len(s) \in Nat /\ Len(t) \in Nat
           /\ DOMAIN s = 1..Len(s) /\ DOMAIN t = 1..Len(t)
           /\ DOMAIN (s \o t) = 1..(Len(s) + Len(t))
           /\ \A i \in 1..Len(s) : (s \o t)[i] = s[i]
           /\ \A i \in 1..Len(t) : (s \o t)[Len(s) + i] = t[i]
  <1>1. s \o t \in Seq(S) /\ Len(s \o t) = Len(s) + Len(t)
        /\ \A i \in 1..(Len(s) + Len(t)) :
                (s \o t)[i] = IF i <= Len(s) THEN s[i] ELSE t[i - Len(s)]
    BY ConcatProperties
  <1>2. /\ Len(s) \in Nat /\ Len(t) \in Nat
        /\ DOMAIN s = 1..Len(s) /\ DOMAIN t = 1..Len(t)
        /\ DOMAIN (s \o t) = 1..Len(s \o t)
    BY <1>1, LenProperties
  <1>3. ASSUME NEW i \in 1..Len(s)  PROVE  (s \o t)[i] = s[i]
    BY <1>1, <1>2
  <1>4. ASSUME NEW i \in 1..Len(t)  PROVE  (s \o t)[Len(s) + i] = t[i]
    <2>1. Len(s) + i \in 1..(Len(s) + Len(t)) /\ ~(Len(s) + i <= Len(s))
          /\ (Len(s) + i) - Len(s) = i
      BY <1>2
    <2> QED
      BY <1>1, <2>1
  <1> QED
    BY <1>1, <1>2, <1>3, <1>4

\* Membership, which is all that is needed of Ids.
LEMMA IdsAre ==
    ASSUME NEW s, NEW kind, NEW n
    PROVE  n \in Ids(s, kind) <=> \E i \in DOMAIN s : s[i].kind = kind /\ s[i].id = n
  BY DEF Ids

LEMMA IdsOfEmpty == ASSUME NEW kind  PROVE  Ids(<<>>, kind) = {}
  BY DEF Ids

LEMMA IdsOfAppend ==
    ASSUME NEW S, NEW s \in Seq(S), NEW e \in S, NEW kind
    PROVE  Ids(Append(s, e), kind) =
                Ids(s, kind) \union (IF e.kind = kind THEN {e.id} ELSE {})
  BY AppendIs DEF Ids

LEMMA IdsOfTail ==
    ASSUME NEW S, NEW s \in Seq(S), s # <<>>, NEW kind
    PROVE  Ids(s, kind) = Ids(Tail(s), kind)
                \union (IF Head(s).kind = kind THEN {Head(s).id} ELSE {})
  <1> DEFINE t == Tail(s)
  <1>1. /\ Len(s) \in Nat /\ Len(s) > 0 /\ s[1] = Head(s)
        /\ DOMAIN s = 1..Len(s) /\ DOMAIN t = 1..(Len(s) - 1)
        /\ \A i \in 1..(Len(s) - 1) : t[i] = s[i + 1]
    BY TailIs
  <1> HIDE DEF t
  <1>2. ASSUME NEW n, n \in Ids(s, kind)
        PROVE  n \in Ids(t, kind) \/ (Head(s).kind = kind /\ Head(s).id = n)
    <2>1. PICK i \in DOMAIN s : s[i].kind = kind /\ s[i].id = n
      BY <1>2, IdsAre
    <2>2. CASE i = 1
      BY <2>1, <2>2, <1>1
    <2>3. CASE i # 1
      <3>1. i - 1 \in 1..(Len(s) - 1) /\ (i - 1) + 1 = i
        BY <1>1, <2>3
      <3>2. t[i - 1] = s[i]
        BY <1>1, <3>1
      <3> QED
        BY <1>1, <2>1, <3>1, <3>2, IdsAre
    <2> QED
      BY <2>2, <2>3
  <1>3. ASSUME NEW n, n \in Ids(t, kind)
        PROVE  n \in Ids(s, kind)
    <2>1. PICK i \in DOMAIN t : t[i].kind = kind /\ t[i].id = n
      BY <1>3, IdsAre
    <2>2. i + 1 \in DOMAIN s /\ s[i + 1] = t[i]
      BY <1>1
    <2> QED
      BY <2>1, <2>2, IdsAre
  <1>4. Head(s).kind = kind => Head(s).id \in Ids(s, kind)
    BY <1>1, IdsAre
  <1> QED
    BY <1>2, <1>3, <1>4 DEF t

LEMMA IdsOfConcat ==
    ASSUME NEW S, NEW s \in Seq(S), NEW t \in Seq(S), NEW kind
    PROVE  Ids(s \o t, kind) = Ids(s, kind) \union Ids(t, kind)
  <1> DEFINE u == s \o t
  <1>1. /\ Len(s) \in Nat /\ Len(t) \in Nat
        /\ DOMAIN s = 1..Len(s) /\ DOMAIN t = 1..Len(t)
        /\ DOMAIN u = 1..(Len(s) + Len(t))
        /\ \A i \in 1..Len(s) : u[i] = s[i]
        /\ \A i \in 1..Len(t) : u[Len(s) + i] = t[i]
    BY ConcatIs
  <1> HIDE DEF u
  <1>2. ASSUME NEW n, n \in Ids(u, kind)
        PROVE  n \in Ids(s, kind) \/ n \in Ids(t, kind)
    <2>1. PICK i \in DOMAIN u : u[i].kind = kind /\ u[i].id = n
      BY <1>2, IdsAre
    <2>2. CASE i <= Len(s)
      <3>1. i \in DOMAIN s /\ u[i] = s[i]
        BY <1>1, <2>2
      <3> QED
        BY <2>1, <3>1, IdsAre
    <2>3. CASE i > Len(s)
      <3>1. i - Len(s) \in 1..Len(t) /\ Len(s) + (i - Len(s)) = i
        BY <1>1, <2>3
      <3>2. u[i] = t[i - Len(s)]
        BY <1>1, <3>1
      <3> QED
        BY <1>1, <2>1, <3>1, <3>2, IdsAre
    <2> QED
      BY <1>1, <2>2, <2>3
  <1>3. ASSUME NEW n, n \in Ids(s, kind) \/ n \in Ids(t, kind)
        PROVE  n \in Ids(u, kind)
    <2>1. CASE n \in Ids(s, kind)
      <3>1. PICK i \in DOMAIN s : s[i].kind = kind /\ s[i].id = n
        BY <2>1, IdsAre
      <3>2. i \in DOMAIN u /\ u[i] = s[i]
        BY <1>1
      <3> QED
        BY <3>1, <3>2, IdsAre
    <2>2. CASE n \in Ids(t, kind)
      <3>1. PICK i \in DOMAIN t : t[i].kind = kind /\ t[i].id = n
        BY <2>2, IdsAre
      <3>2. Len(s) + i \in DOMAIN u /\ u[Len(s) + i] = t[i]
        BY <1>1
      <3> QED
        BY <3>1, <3>2, IdsAre
    <2> QED
      BY <1>3, <2>1, <2>2
  <1> QED
    BY <1>2, <1>3 DEF u

LEMMA DistinctAppend ==
    ASSUME NEW S, NEW s \in Seq(S), NEW e \in S, NEW kind, Distinct(s, kind),
           e.kind = kind => e.id \notin Ids(s, kind)
    PROVE  Distinct(Append(s, e), kind)
  <1> DEFINE u == Append(s, e)
  <1>1. /\ Len(s) \in Nat
        /\ DOMAIN s = 1..Len(s) /\ DOMAIN u = 1..(Len(s) + 1)
        /\ \A i \in 1..Len(s) : u[i] = s[i]
        /\ u[Len(s) + 1] = e
    BY AppendIs
  <1> HIDE DEF u
  <1>2. ASSUME e.kind = kind, NEW i \in DOMAIN s, s[i].kind = kind
        PROVE  s[i].id # e.id
    BY <1>2, IdsAre
  <1>3. ASSUME NEW i \in DOMAIN u, NEW j \in DOMAIN u,
               u[i].kind = kind, u[j].kind = kind, u[i].id = u[j].id
        PROVE  i = j
    <2>1. CASE i \in DOMAIN s /\ j \in DOMAIN s
      BY <1>1, <1>3, <2>1 DEF Distinct
    <2>2. CASE i \notin DOMAIN s /\ j \in DOMAIN s
      <3>1. i = Len(s) + 1 /\ u[i] = e /\ u[j] = s[j]
        BY <1>1, <2>2
      <3> QED
        BY <1>2, <1>3, <2>2, <3>1
    <2>3. CASE j \notin DOMAIN s /\ i \in DOMAIN s
      <3>1. j = Len(s) + 1 /\ u[j] = e /\ u[i] = s[i]
        BY <1>1, <2>3
      <3> QED
        BY <1>2, <1>3, <2>3, <3>1
    <2> QED
      BY <1>1, <2>1, <2>2, <2>3
  <1> QED
    BY <1>3 DEF Distinct, u

LEMMA DistinctTail ==
    ASSUME NEW S, NEW s \in Seq(S), s # <<>>, NEW kind, Distinct(s, kind)
    PROVE  /\ Distinct(Tail(s), kind)
           /\ Head(s).kind = kind => Head(s).id \notin Ids(Tail(s), kind)
  <1> DEFINE t == Tail(s)
  <1>1. /\ Len(s) \in Nat /\ Len(s) > 0 /\ s[1] = Head(s)
        /\ DOMAIN s = 1..Len(s) /\ DOMAIN t = 1..(Len(s) - 1)
        /\ \A i \in 1..(Len(s) - 1) : t[i] = s[i + 1]
    BY TailIs
  <1> HIDE DEF t
  <1>2. ASSUME NEW i \in DOMAIN t
        PROVE  i + 1 \in DOMAIN s /\ i + 1 # 1 /\ t[i] = s[i + 1] /\ i \in Nat
    BY <1>1
  <1>3. Distinct(t, kind)
    <2> SUFFICES ASSUME NEW i \in DOMAIN t, NEW j \in DOMAIN t, t[i].kind = kind,
                        t[j].kind = kind, t[i].id = t[j].id
                 PROVE  i = j
      BY DEF Distinct
    <2>1. i + 1 = j + 1
      BY <1>2 DEF Distinct
    <2> QED
      BY <1>2, <2>1
  <1>4. ASSUME Head(s).kind = kind, NEW i \in DOMAIN t, t[i].kind = kind
        PROVE  t[i].id # Head(s).id
    BY <1>1, <1>2, <1>4 DEF Distinct
  <1>5. Head(s).kind = kind => Head(s).id \notin Ids(t, kind)
    BY <1>4, IdsAre
  <1> QED
    BY <1>3, <1>5 DEF t

LEMMA DistinctConcat ==
    ASSUME NEW S, NEW s \in Seq(S), NEW t \in Seq(S), NEW kind,
           Distinct(s, kind), Distinct(t, kind),
           Ids(s, kind) \intersect Ids(t, kind) = {}
    PROVE  Distinct(s \o t, kind)
  <1> DEFINE u == s \o t
             L == Len(s)
  <1>1. /\ L \in Nat /\ Len(t) \in Nat
        /\ DOMAIN s = 1..L /\ DOMAIN t = 1..Len(t)
        /\ DOMAIN u = 1..(L + Len(t))
        /\ \A i \in 1..L : u[i] = s[i]
        /\ \A i \in 1..Len(t) : u[L + i] = t[i]
    BY ConcatIs
  <1> HIDE DEF u, L
  <1>2. ASSUME NEW i \in DOMAIN u, i \notin DOMAIN s
        PROVE  i - L \in DOMAIN t /\ u[i] = t[i - L]
    <2>1. i - L \in 1..Len(t) /\ L + (i - L) = i
      BY <1>1, <1>2
    <2> QED
      BY <1>1, <2>1
  <1>3. ASSUME NEW i \in DOMAIN s, NEW j \in DOMAIN t, s[i].kind = kind, t[j].kind = kind
        PROVE  s[i].id # t[j].id
    BY <1>3, IdsAre, ZenonT(60)
  <1>4. ASSUME NEW i \in DOMAIN u, NEW j \in DOMAIN u,
               u[i].kind = kind, u[j].kind = kind, u[i].id = u[j].id
        PROVE  i = j
    <2>1. CASE i \in DOMAIN s /\ j \in DOMAIN s
      BY <1>1, <1>4, <2>1 DEF Distinct
    <2>2. CASE i \in DOMAIN s /\ j \notin DOMAIN s
      BY <1>1, <1>2, <1>3, <1>4, <2>2
    <2>3. CASE i \notin DOMAIN s /\ j \in DOMAIN s
      BY <1>1, <1>2, <1>3, <1>4, <2>3
    <2>4. CASE i \notin DOMAIN s /\ j \notin DOMAIN s
      <3>1. i - L = j - L
        BY <1>2, <1>4, <2>4 DEF Distinct
      <3> QED
        BY <1>1, <3>1
    <2> QED
      BY <2>1, <2>2, <2>3, <2>4
  <1> QED
    BY <1>4 DEF Distinct, u

-----------------------------------------------------------------------------
\* Types

LEMMA TypesImplyTypeOK == Types => TypeOK
  <1> SUFFICES ASSUME Types  PROVE  TypeOK
    OBVIOUS
  <1>1. /\ steerQueue \in Seq(Entry) /\ followUpQueue \in Seq(Entry)
        /\ nextTurnQueue \in Seq(Entry) /\ pendingSessionWrites \in Seq(Entry)
    BY ListTypes DEF Types
  <1>2. unsent \in [Runs -> Seq(Entry)]
    BY ListTypes DEF Types
  <1>3. Write \subseteq Entry
    BY DEF Write, Entry
  <1> QED
    BY <1>1, <1>2, <1>3 DEF Types, TypeOK

LEMMA EntryTypes ==
    /\ \A r \in Runs : /\ PromptEntry(r) \in Message /\ PromptEntry(r).kind = "prompt"
                       /\ ReplyEntry(r) \in Entry /\ ReplyEntry(r).kind = "reply"
                       /\ ResultEntry(r) \in Entry /\ ResultEntry(r).kind = "result"
    /\ \A n \in Nat : /\ QueuedEntry(n) \in Message /\ QueuedEntry(n).kind = "queued"
                      /\ QueuedEntry(n).id = n
                      /\ WriteEntry(n) \in Write /\ WriteEntry(n).kind = "write"
                      /\ WriteEntry(n).id = n /\ WriteEntry(n) \in Entry
    /\ StructureEntry \in Entry /\ StructureEntry.kind = "structure"
    /\ NoWrite \notin Write
    /\ Runs \subseteq Nat
  BY HarnessAssumption DEF PromptEntry, ReplyEntry, ResultEntry, QueuedEntry, WriteEntry,
     StructureEntry, Message, Entry, Write, NoWrite, Runs

LEMMA SubEntries == Message \subseteq Entry /\ Write \subseteq Entry
  BY DEF Message, Write, Entry

LEMMA IdsInNat ==
    ASSUME NEW s \in Seq(Message), NEW kind
    PROVE  Ids(s, kind) \subseteq Nat
  <1>1. \A i \in DOMAIN s : s[i] \in Message
    BY LenProperties, ElementOfSeq
  <1> QED
    BY <1>1 DEF Ids, Message

\* Draining splits a queue.
LEMMA DrainTypes ==
    ASSUME NEW q \in Seq(Message)
    PROVE  Drained(q) \in Seq(Message) /\ AfterDrain(q) \in Seq(Message)
  <1>1. CASE OneAtATime /\ q # <<>>
    <2>1. Head(q) \in Message /\ Tail(q) \in Seq(Message)
      BY <1>1, TailIs
    <2>2. <<Head(q)>> \in Seq(Message)
      BY <2>1
    <2> QED
      BY <1>1, <2>1, <2>2 DEF Drained, AfterDrain
  <1>2. CASE ~(OneAtATime /\ q # <<>>)
    BY <1>2 DEF Drained, AfterDrain
  <1> QED
    BY <1>1, <1>2

LEMMA PointSets ==
    /\ StartPoints \subseteq Points /\ LoopPoints \subseteq Points
    /\ FailurePoints \subseteq Points /\ TailPoints \subseteq Points
    /\ FlushPoints \subseteq Points
  BY DEF Points, StartPoints, LoopPoints, FailurePoints, TailPoints, FlushPoints

LEMMA TypesRun ==
    ASSUME Types, NEW r \in Runs, Prompt(r) \/ RunStep(r) \/ RunFails(r)
    PROVE  Types'
  <1> USE EntryTypes, ListTypes, SubEntries
  <1>1. CASE Prompt(r)
    BY <1>1 DEF Types, Prompt, Go, Points, StartPoints
  <1>2. CASE TakeSnapshot(r)
    BY <1>2 DEF Types, TakeSnapshot, Go, Points, StartPoints
  <1>3. CASE AnnounceNextTurn(r)
    BY <1>3 DEF Types, AnnounceNextTurn, Go, Points, StartPoints
  <1>4. CASE StartLoop(r)
    <2>1. Append(unsent[r], PromptEntry(r)) \in Seq(Message)
      BY DEF Types
    <2> QED
      BY <1>4, <2>1 DEF Types, StartLoop, Go, Points, LoopPoints
  <1>5. CASE EmitMessage(r)
    <2>1. unsent[r] \in Seq(Message) /\ unsent[r] # <<>>
      BY <1>5 DEF Types, EmitMessage
    <2>2. Head(unsent[r]) \in Entry /\ Tail(unsent[r]) \in Seq(Message)
      BY <2>1, TailIs
    <2>3. Append(session, Head(unsent[r])) \in Seq(Entry)
          /\ Append(context[r], Head(unsent[r])) \in Seq(Entry)
      BY <2>2 DEF Types
    <2> QED
      BY <1>5, <2>2, <2>3 DEF Types, EmitMessage, Appended
  <1>6. CASE PollSteering(r)
    <2>1. Drained(steerQueue) \in Seq(Message) /\ AfterDrain(steerQueue) \in Seq(Message)
      BY DrainTypes DEF Types
    <2> QED
      BY <1>6, <2>1 DEF Types, PollSteering, Go, Points, LoopPoints
  <1>7. CASE PollFollowUps(r)
    <2>1. Drained(followUpQueue) \in Seq(Message) /\ AfterDrain(followUpQueue) \in Seq(Message)
      BY DrainTypes DEF Types
    <2> QED
      BY <1>7, <2>1 DEF Types, PollFollowUps, Go, Points, LoopPoints
  <1>8. CASE RequestReply(r)
    BY <1>8 DEF Types, RequestReply, Go, Points, LoopPoints
  <1>9. CASE ReplyArrives(r)
    <2>1. Append(session, ReplyEntry(r)) \in Seq(Entry)
          /\ Append(context[r], ReplyEntry(r)) \in Seq(Entry)
      BY DEF Types
    <2>2. \E point \in Points : pc' = [pc EXCEPT ![r] = point]
      BY <1>9 DEF ReplyArrives, Go, Points, LoopPoints
    <2>3. replies' \in [Runs -> Nat]
      BY <1>9, SMTT(20) DEF Types, ReplyArrives
    <2> QED
      BY <1>9, <2>1, <2>2, <2>3, ZenonT(60) DEF Types, ReplyArrives, Appended
  <1>10. CASE ResultsArrive(r)
    <2>1. Append(session, ResultEntry(r)) \in Seq(Entry)
          /\ Append(context[r], ResultEntry(r)) \in Seq(Entry)
      BY DEF Types
    <2> QED
      BY <1>10, <2>1, ZenonT(60) DEF Types, ResultsArrive, Appended, Go, Points, LoopPoints
  <1>11. CASE TurnEnd(r)
    BY <1>11 DEF Types, TurnEnd, Go, Points, LoopPoints
  <1>12. CASE FlushStart(r)
    <2>1. Head(pendingSessionWrites) \in Write
      BY <1>12, TailIs DEF Types, FlushStart
    <2> QED
      BY <1>12, <2>1 DEF Types, FlushStart
  <1>13. CASE FlushDone(r)
    <2>1. AfterShift(pendingSessionWrites) \in Seq(Write)
      BY TailIs DEF Types, AfterShift
    <2>2. Append(session, writing[r]) \in Seq(Entry)
      BY <1>13 DEF Types, FlushDone
    <2> QED
      BY <1>13, <2>1, <2>2 DEF Types, FlushDone
  <1>14. CASE LeaveTurnFlush(r)
    BY <1>14, ZenonT(60) DEF Types, LeaveTurnFlush, Go, Points, LoopPoints, FailurePoints
  <1>15. CASE RefreshContext(r)
    BY <1>15 DEF Types, RefreshContext, Go, Points, LoopPoints
  <1>16. CASE AgentEnd(r)
    BY <1>16 DEF Types, AgentEnd, Go, Points, TailPoints
  <1>17. CASE Settle(r)
    BY <1>17 DEF Types, Settle, Go, Points, TailPoints
  <1>18. CASE Finish(r)
    BY <1>18 DEF Types, Finish, Go, Points
  <1>19. CASE FailureMessage(r)
    <2>1. Append(session, ReplyEntry(r)) \in Seq(Entry)
      BY DEF Types
    <2> QED
      BY <1>19, <2>1 DEF Types, FailureMessage, Go, Points, FailurePoints
  <1>20. QueuedIds(unsent[r]) \subseteq Nat
    BY IdsInNat DEF Types, QueuedIds
  <1>21. CASE StartFails(r)
    <2>1. unsent[r] \o nextTurnQueue \in Seq(Message)
      BY ConcatIs DEF Types
    <2>2. nextTurnQueue' \in Seq(Message)
      BY <1>21, <2>1 DEF Types, StartFails
    <2>3. dropped' \subseteq Nat
      BY <1>20, <1>21 DEF Types, StartFails
    <2>4. unsent' \in [Runs -> Seq(Message)] /\ pc' \in [Runs -> Points]
      BY <1>21 DEF Types, StartFails, Reject, Go, Points
    <2>5. /\ phase' = "idle" /\ runPromise' = NoRun /\ failures' = failures + 1
          /\ UNCHANGED <<runAbortController, pendingSessionWrites, steerQueue,
                         followUpQueue>>
          /\ UNCHANGED <<session, context, more, writing, replies>>
          /\ UNCHANGED <<aborted, structural, nextId, nextWrite, structurals>>
      BY <1>21 DEF StartFails, Reject, CountFailure
    <2> HIDE EntryTypes, ListTypes, SubEntries
    <2> HIDE <1>21
    <2>6. /\ phase' \in {"idle", "turn", "compaction", "branch_summary"}
          /\ runAbortController' \in Runs \union {NoRun}
          /\ runPromise' \in Runs \union {NoRun}
          /\ pendingSessionWrites' \in Seq(Write)
          /\ steerQueue' \in Seq(Message) /\ followUpQueue' \in Seq(Message)
      BY <2>5 DEF Types
    <2>7. /\ session' \in Seq(Entry) /\ context' \in [Runs -> Seq(Entry)]
          /\ more' \in [Runs -> BOOLEAN]
          /\ writing' \in [Runs -> Write \union {NoWrite}]
          /\ replies' \in [Runs -> Nat]
      BY <2>5 DEF Types
    <2>8. /\ aborted' \subseteq Runs /\ structural' \in BOOLEAN
          /\ nextId' \in Nat \ {0} /\ nextWrite' \in Nat \ {0}
          /\ structurals' \in Nat /\ failures' \in Nat
      BY <2>5 DEF Types
    <2> QED
      BY <2>2, <2>3, <2>4, <2>6, <2>7, <2>8, Zenon DEF Types
  <1>22. CASE LoopFails(r)
    <2>1. dropped' \subseteq Nat
      BY <1>20, <1>22 DEF Types, LoopFails
    <2>2. unsent' \in [Runs -> Seq(Message)] /\ pc' \in [Runs -> Points]
      BY <1>22 DEF Types, LoopFails, Go, Points, LoopPoints, FailurePoints
    <2>3. writing' \in [Runs -> Write \union {NoWrite}]
      BY <1>22 DEF Types, LoopFails
    <2>4. /\ failures' = failures + 1 /\ UNCHANGED fields
          /\ UNCHANGED <<session, context, more, replies>>
          /\ UNCHANGED <<aborted, structural, nextId, nextWrite, structurals>>
      BY <1>22 DEF LoopFails, CountFailure
    <2> HIDE EntryTypes, ListTypes, SubEntries
    <2> HIDE <1>22
    <2>5. /\ phase' \in {"idle", "turn", "compaction", "branch_summary"}
          /\ runAbortController' \in Runs \union {NoRun}
          /\ runPromise' \in Runs \union {NoRun}
          /\ pendingSessionWrites' \in Seq(Write)
          /\ steerQueue' \in Seq(Message) /\ followUpQueue' \in Seq(Message)
          /\ nextTurnQueue' \in Seq(Message)
      BY <2>4 DEF Types, fields, queues
    <2>6. /\ session' \in Seq(Entry) /\ context' \in [Runs -> Seq(Entry)]
          /\ more' \in [Runs -> BOOLEAN] /\ replies' \in [Runs -> Nat]
      BY <2>4 DEF Types
    <2>7. /\ aborted' \subseteq Runs /\ structural' \in BOOLEAN
          /\ nextId' \in Nat \ {0} /\ nextWrite' \in Nat \ {0}
          /\ structurals' \in Nat /\ failures' \in Nat
      BY <2>4 DEF Types
    <2> QED
      BY <2>1, <2>2, <2>3, <2>5, <2>6, <2>7, Zenon DEF Types
  <1>23. CASE FailureFails(r)
    BY <1>23, SMTT(20) DEF Types, FailureFails, CountFailure, Go, Points, TailPoints
  <1>24. CASE TailFails(r)
    BY <1>24, SMTT(20) DEF Types, TailFails, Reject, Go, Points
  <1> QED
    BY <1>1, <1>2, <1>3, <1>4, <1>5, <1>6, <1>7, <1>8, <1>9, <1>10, <1>11, <1>12, <1>13,
       <1>14, <1>15, <1>16, <1>17, <1>18, <1>19, <1>21, <1>22, <1>23, <1>24
       DEF RunStep, RunFails

LEMMA TypesClient ==
    ASSUME Types, ClientCall \/ EndStructural
    PROVE  Types'
  <1>1. nextId \in Nat /\ nextWrite \in Nat
    BY DEF Types
  <1>2. QueuedEntry(nextId) \in Message /\ WriteEntry(nextWrite) \in Write
        /\ WriteEntry(nextWrite) \in Entry /\ StructureEntry \in Entry
    BY <1>1, EntryTypes, SubEntries
  <1>3. CASE Enqueue
    <2>1. /\ Append(steerQueue, QueuedEntry(nextId)) \in Seq(Message)
          /\ Append(followUpQueue, QueuedEntry(nextId)) \in Seq(Message)
          /\ Append(nextTurnQueue, QueuedEntry(nextId)) \in Seq(Message)
      BY <1>2 DEF Types
    <2>2. /\ steerQueue' \in Seq(Message) /\ followUpQueue' \in Seq(Message)
          /\ nextTurnQueue' \in Seq(Message) /\ nextId' = nextId + 1
      BY <1>3, <2>1 DEF Types, Enqueue, Steer, FollowUp, NextTurn, Queued
    <2> QED
      BY <1>3, <2>2, SMTT(20) DEF Types, Enqueue
  <1>4. CASE RequestWrite
    <2>1. /\ Append(session, WriteEntry(nextWrite)) \in Seq(Entry)
          /\ Append(pendingSessionWrites, WriteEntry(nextWrite)) \in Seq(Write)
      BY <1>2 DEF Types
    <2>2. session' \in Seq(Entry) /\ pendingSessionWrites' \in Seq(Write)
      BY <1>4, <2>1 DEF Types, RequestWrite
    <2> QED
      BY <1>4, <2>2, SMTT(20) DEF Types, RequestWrite
  <1>5. CASE Abort
    <2>1. steerQueue \o followUpQueue \in Seq(Message)
      BY ConcatIs DEF Types
    <2>2. QueuedIds(steerQueue \o followUpQueue) \subseteq Nat
      BY <2>1, IdsInNat DEF QueuedIds
    <2>3. aborted' \subseteq Runs /\ dropped' \subseteq Nat
      BY <1>5, <2>2 DEF Types, Abort
    <2>4. steerQueue' \in Seq(Message) /\ followUpQueue' \in Seq(Message)
      BY <1>5 DEF Abort
    <2>5. UNCHANGED <<phase, runAbortController, runPromise, pendingSessionWrites,
                      nextTurnQueue, session, pc, unsent, context, more, writing,
                      replies, structural, nextId, nextWrite, structurals, failures>>
      BY <1>5 DEF Abort
    <2> QED
      BY <2>3, <2>4, <2>5 DEF Types
  <1>6. CASE StartStructural
    BY <1>6, SMTT(20) DEF Types, StartStructural
  <1>7. CASE EndStructural
    <2>1. Append(session, StructureEntry) \in Seq(Entry)
      BY <1>2 DEF Types
    <2> QED
      BY <1>7, <2>1 DEF Types, EndStructural
  <1> QED
    BY <1>3, <1>4, <1>5, <1>6, <1>7 DEF ClientCall

LEMMA TypesInit == Init => Types
  <1>1. <<>> \in Seq(Message) /\ <<>> \in Seq(Write) /\ <<>> \in Seq(Entry)
    OBVIOUS
  <1> SUFFICES ASSUME Init  PROVE  Types
    OBVIOUS
  <1>2. /\ pc \in [Runs -> Points] /\ unsent \in [Runs -> Seq(Message)]
        /\ context \in [Runs -> Seq(Entry)] /\ more \in [Runs -> BOOLEAN]
        /\ writing \in [Runs -> Write \union {NoWrite}] /\ replies \in [Runs -> Nat]
    BY <1>1 DEF Init, Points
  <1>3. /\ pendingSessionWrites \in Seq(Write) /\ steerQueue \in Seq(Message)
        /\ followUpQueue \in Seq(Message) /\ nextTurnQueue \in Seq(Message)
        /\ session \in Seq(Entry)
    BY <1>1 DEF Init
  <1>4. /\ phase = "idle" /\ runAbortController = NoRun /\ runPromise = NoRun
        /\ aborted = {} /\ structural \in BOOLEAN /\ nextId = 1 /\ nextWrite = 1
        /\ dropped = {} /\ structurals = 0 /\ failures = 0
    BY DEF Init
  <1> QED
    BY <1>2, <1>3, <1>4 DEF Types

-----------------------------------------------------------------------------
\* The owner of the harness

ownerVars == <<pc, phase, runAbortController, runPromise, structural>>

LEMMA OwnerStays ==
    ASSUME OwnerInv, UNCHANGED ownerVars
    PROVE  OwnerInv'
  BY DEF OwnerInv, SoleInv, PhaseInv, FieldInv, PhaseGuardsLoop, Over, ownerVars

\* A run goes on: it does not come back to an earlier part of its life.
LEMMA OwnerGoesOn ==
    ASSUME Types, OwnerInv, NEW r \in Runs, NEW point \in Points, ~Over(r),
           pc' = [pc EXCEPT ![r] = point],
           UNCHANGED <<phase, runAbortController, runPromise, structural>>,
           point \notin {"unused", "done"},
           point \in StartPoints => pc[r] \in StartPoints,
           point \in LoopPoints => pc[r] \in LoopPoints,
           point \in IdlePoints => pc[r] \in IdlePoints
    PROVE  OwnerInv'
  <1>1. /\ pc'[r] = point
        /\ \A q \in Runs : q # r => pc'[q] = pc[q]
        /\ \A q \in Runs : Over(q)' <=> Over(q)
        /\ \A q \in Runs : pc'[q] = "unused" <=> pc[q] = "unused"
    BY DEF Types, Over
  <1>2. SoleInv'
    BY <1>1 DEF OwnerInv, SoleInv
  <1>3. PhaseInv'
    BY <1>1 DEF OwnerInv, PhaseInv, PhaseGuardsLoop
  <1>4. FieldInv'
    BY <1>1 DEF OwnerInv, FieldInv
  <1> QED
    BY <1>2, <1>3, <1>4 DEF OwnerInv

\* The one run under way ends: nothing is left of it.
LEMMA OwnerEnds ==
    ASSUME Types, OwnerInv, NEW r \in Runs, ~Over(r),
           pc' = [pc EXCEPT ![r] = "done"], phase' = "idle", runPromise' = NoRun,
           runAbortController' = NoRun, UNCHANGED structural
    PROVE  OwnerInv'
  <1>1. /\ \A q \in Runs : Over(q)'
        /\ \A q \in Runs : pc'[q] = "unused" <=> pc[q] = "unused"
    BY DEF Types, Over, OwnerInv, SoleInv
  <1>2. ~structural
    BY DEF OwnerInv, SoleInv
  <1>3. \A q \in Runs : pc'[q] \notin StartPoints \union LoopPoints
    BY <1>1 DEF Over, StartPoints, LoopPoints
  <1>4. SoleInv'
    BY <1>1 DEF OwnerInv, SoleInv
  <1>5. PhaseInv'
    BY <1>2, <1>3 DEF PhaseInv, PhaseGuardsLoop
  <1>6. FieldInv'
    BY <1>1, <1>3 DEF FieldInv
  <1> QED
    BY <1>4, <1>5, <1>6 DEF OwnerInv

\* The points by the part of its life a run is in.
LEMMA NotOver ==
    ASSUME NEW r \in Runs
    PROVE  /\ pc[r] \in StartPoints => ~Over(r)
           /\ pc[r] \in LoopPoints => ~Over(r)
           /\ pc[r] \in FailurePoints => ~Over(r)
           /\ pc[r] \in TailPoints => ~Over(r)
           /\ pc[r] \in FlushPoints => ~Over(r)
           /\ pc[r] \in HandingPoints => ~Over(r)
           /\ pc[r] \in FollowingPoints => ~Over(r)
  BY DEF Over, StartPoints, LoopPoints, FailurePoints, TailPoints, FlushPoints,
         HandingPoints, FollowingPoints

\* Nobody else is at work beside a run that is not over.
LEMMA Alone ==
    ASSUME OwnerInv, NEW r \in Runs, ~Over(r)
    PROVE  /\ ~structural
           /\ phase \notin {"compaction", "branch_summary"}
           /\ \A q \in Runs : q # r => Over(q)
  BY DEF OwnerInv, SoleInv, PhaseInv

\* The phase is given back before a run is in its last steps.
LEMMA IdleAtTail ==
    ASSUME Types, OwnerInv, NEW r \in Runs, pc[r] \in IdlePoints
    PROVE  phase = "idle"
  <1>1. ~Over(r)
    BY DEF IdlePoints, Over
  <1>2. phase # "turn"
    BY <1>1, Alone DEF OwnerInv, PhaseInv
  <1> QED
    BY <1>1, <1>2, Alone DEF Types

LEMMA OwnerPrompt ==
    ASSUME ~EarlyPrompts, Types, OwnerInv, NEW r \in Runs, Prompt(r)
    PROVE  OwnerInv'
  <1>1. /\ pc[r] = "unused" /\ phase = "idle"
        /\ \A q \in 1..(r - 1) : pc[q] # "unused" /\ Over(q)
    BY DEF Prompt
  <1>2. \A q \in Runs : q < r => q \in 1..(r - 1)
    BY HarnessAssumption DEF Runs
  <1>3. \A q \in Runs : q # r => q < r \/ r < q
    BY HarnessAssumption DEF Runs
  <1>4. \A q \in Runs : Over(q)
    BY <1>1, <1>2, <1>3 DEF OwnerInv, SoleInv, Over
  <1>5. ~structural /\ runAbortController = NoRun
    BY <1>1, <1>4 DEF OwnerInv, PhaseInv, FieldInv
  <1>6. /\ pc'[r] = "snapshot" /\ \A q \in Runs : q # r => pc'[q] = pc[q]
        /\ phase' = "turn" /\ runPromise' = r
        /\ UNCHANGED <<runAbortController, structural>>
    BY DEF Prompt, Go, Types
  <1>7. /\ ~Over(r)' /\ \A q \in Runs : q # r => Over(q)'
    BY <1>4, <1>6 DEF Over
  <1>8. SoleInv'
    BY <1>1, <1>2, <1>3, <1>5, <1>6, <1>7 DEF OwnerInv, SoleInv
  <1>9. PhaseInv'
    BY <1>5, <1>6, <1>7 DEF PhaseInv, PhaseGuardsLoop, IdlePoints
  <1>10. FieldInv'
    <2>1. \A q \in Runs : pc'[q] \notin LoopPoints
      BY <1>6, <1>7 DEF Over, LoopPoints
    <2> QED
      BY <1>5, <1>6, <1>7, <2>1 DEF FieldInv
  <1> QED
    BY <1>8, <1>9, <1>10 DEF OwnerInv

LEMMA OwnerStartLoop ==
    ASSUME Types, OwnerInv, NEW r \in Runs, StartLoop(r)
    PROVE  OwnerInv'
  <1>1. pc[r] = "hook" /\ ~Over(r) /\ pc[r] \in StartPoints
    BY DEF StartLoop, Over, StartPoints
  <1>2. /\ pc'[r] = "prompts" /\ \A q \in Runs : q # r => pc'[q] = pc[q]
        /\ runAbortController' = r /\ UNCHANGED <<phase, runPromise, structural>>
    BY DEF StartLoop, Go, Types
  <1>3. \A q \in Runs : q # r => Over(q) /\ Over(q)'
    BY <1>1, <1>2, Alone DEF Over
  <1>4. ~Over(r)' /\ pc'[r] \in LoopPoints /\ pc'[r] \notin StartPoints
        /\ pc'[r] \notin IdlePoints
    BY <1>2 DEF Over, LoopPoints, StartPoints, IdlePoints
  <1>5. SoleInv'
    BY <1>1, <1>2, <1>3, <1>4 DEF OwnerInv, SoleInv, Over
  <1>6. PhaseInv'
    <2>1. phase = "turn"
      BY <1>1 DEF OwnerInv, PhaseInv, PhaseGuardsLoop
    <2> QED
      BY <1>2, <1>4, <2>1 DEF OwnerInv, PhaseInv, PhaseGuardsLoop
  <1>7. FieldInv'
    <2>1. \A q \in Runs : q # r => pc'[q] \notin LoopPoints \union StartPoints
      BY <1>3 DEF Over, LoopPoints, StartPoints
    <2>2. runPromise = r
      BY <1>1 DEF OwnerInv, FieldInv
    <2> QED
      BY <1>2, <1>3, <1>4, <2>1, <2>2 DEF FieldInv
  <1> QED
    BY <1>5, <1>6, <1>7 DEF OwnerInv

LEMMA OwnerAgentEnd ==
    ASSUME Types, OwnerInv, NEW r \in Runs, AgentEnd(r)
    PROVE  OwnerInv'
  <1>1. pc[r] \in {"endFlush", "failEndFlush"} /\ ~Over(r) /\ phase' = "idle"
        /\ UNCHANGED <<runAbortController, runPromise, structural>>
    BY DEF AgentEnd, Over
  <1>2. /\ pc'[r] \in {"settling", "settlingFailed"}
        /\ \A q \in Runs : q # r => pc'[q] = pc[q]
    BY DEF AgentEnd, Go, Types
  <1>3. /\ ~structural /\ \A q \in Runs : q # r => Over(q) /\ Over(q)'
    BY <1>1, <1>2, Alone DEF Over
  <1>4. ~Over(r)' /\ pc'[r] \notin StartPoints \union LoopPoints
    BY <1>2 DEF Over, StartPoints, LoopPoints
  <1>5. \A q \in Runs : pc'[q] \notin StartPoints \union LoopPoints
    BY <1>3, <1>4 DEF Over, StartPoints, LoopPoints
  <1>6. SoleInv'
    BY <1>1, <1>2, <1>3, <1>4 DEF OwnerInv, SoleInv, Over
  <1>7. PhaseInv'
    BY <1>1, <1>3, <1>5 DEF PhaseInv, PhaseGuardsLoop
  <1>8. FieldInv'
    BY <1>1, <1>3, <1>4, <1>5 DEF OwnerInv, FieldInv
  <1> QED
    BY <1>6, <1>7, <1>8 DEF OwnerInv

LEMMA OwnerRunStep ==
    ASSUME ~EarlyPrompts, Types, OwnerInv, NEW r \in Runs, RunStep(r)
    PROVE  OwnerInv'
  <1> USE DEF Go, Over, StartPoints, LoopPoints, FailurePoints, TailPoints, IdlePoints, Points
  <1>1. CASE TakeSnapshot(r)
    <2>1. PICK point \in {"hook", "announce"} : pc' = [pc EXCEPT ![r] = point]
      BY <1>1 DEF TakeSnapshot
    <2> QED
      BY <1>1, <2>1, OwnerGoesOn DEF TakeSnapshot
  <1>2. CASE AnnounceNextTurn(r)
    BY <1>2, OwnerGoesOn DEF AnnounceNextTurn
  <1>3. CASE StartLoop(r)
    BY <1>3, OwnerStartLoop
  <1>4. CASE EmitMessage(r)
    BY <1>4, OwnerStays DEF EmitMessage, ownerVars
  <1>5. CASE PollSteering(r)
    <2>1. pc[r] \in {"prompts", "poll"} /\ pc' = [pc EXCEPT ![r] = "turn"]
      BY <1>5 DEF PollSteering
    <2> QED
      BY <1>5, <2>1, OwnerGoesOn, ZenonT(60) DEF PollSteering
  <1>6. CASE PollFollowUps(r)
    <2>1. PICK point \in {"endFlush", "turn"} : pc' = [pc EXCEPT ![r] = point]
      BY <1>6 DEF PollFollowUps
    <2> QED
      BY <1>6, <2>1, OwnerGoesOn DEF PollFollowUps
  <1>7. CASE RequestReply(r)
    BY <1>7, OwnerGoesOn DEF RequestReply
  <1>8. CASE ReplyArrives(r)
    <2>1. PICK point \in {"results", "turnEnd", "lastTurnEnd"} : pc' = [pc EXCEPT ![r] = point]
      BY <1>8 DEF ReplyArrives
    <2>2. pc[r] = "request" /\ UNCHANGED <<phase, runAbortController, runPromise, structural>>
      BY <1>8 DEF ReplyArrives
    <2> QED
      BY <2>1, <2>2, OwnerGoesOn
  <1>9. CASE ResultsArrive(r)
    <2>1. /\ pc[r] = "results" /\ pc' = [pc EXCEPT ![r] = "turnEnd"]
          /\ UNCHANGED <<phase, runAbortController, runPromise, structural>>
      BY <1>9 DEF ResultsArrive
    <2> QED
      BY <2>1, OwnerGoesOn
  <1>10. CASE TurnEnd(r)
    <2>1. PICK point \in {"turnFlush", "lastFlush"} : pc' = [pc EXCEPT ![r] = point]
      BY <1>10 DEF TurnEnd
    <2> QED
      BY <1>10, <2>1, OwnerGoesOn DEF TurnEnd
  <1>11. CASE FlushStart(r)
    BY <1>11, OwnerStays DEF FlushStart, ownerVars
  <1>12. CASE FlushDone(r)
    BY <1>12, OwnerStays DEF FlushDone, ownerVars
  <1>13. CASE LeaveTurnFlush(r)
    <2>1. UNCHANGED <<phase, runAbortController, runPromise, structural>>
      BY <1>13 DEF LeaveTurnFlush
    <2>2. CASE pc[r] = "failFlush" /\ pc' = [pc EXCEPT ![r] = "failEndFlush"]
      BY <2>1, <2>2, OwnerGoesOn
    <2>3. CASE pc[r] \in LoopPoints /\ \E point \in {"refresh", "failed", "endFlush"} :
                    pc' = [pc EXCEPT ![r] = point]
      BY <2>1, <2>3, OwnerGoesOn
    <2> QED
      BY <1>13, <2>2, <2>3 DEF LeaveTurnFlush
  <1>14. CASE RefreshContext(r)
    BY <1>14, OwnerGoesOn DEF RefreshContext
  <1>15. CASE AgentEnd(r)
    BY <1>15, OwnerAgentEnd
  <1>16. CASE Settle(r)
    BY <1>16, OwnerGoesOn DEF Settle
  <1>17. CASE Finish(r)
    <2>1. pc[r] \in {"tail", "tailReject"} /\ ~Over(r)
      BY <1>17 DEF Finish
    <2>2. phase' = "idle"
      BY <1>17, <2>1, IdleAtTail DEF Finish
    <2> QED
      BY <1>17, <2>1, <2>2, OwnerEnds DEF Finish
  <1>18. CASE FailureMessage(r)
    BY <1>18, OwnerGoesOn DEF FailureMessage
  <1> QED
    BY <1>1, <1>2, <1>3, <1>4, <1>5, <1>6, <1>7, <1>8, <1>9, <1>10, <1>11, <1>12, <1>13,
       <1>14, <1>15, <1>16, <1>17, <1>18 DEF RunStep

LEMMA OwnerRunFails ==
    ASSUME Types, OwnerInv, NEW r \in Runs, RunFails(r)
    PROVE  OwnerInv'
  <1> USE DEF Go, Over, StartPoints, LoopPoints, FailurePoints, TailPoints, IdlePoints, Points
  <1>1. CASE StartFails(r)
    <2>1. pc[r] \in StartPoints /\ ~Over(r)
      BY <1>1 DEF StartFails
    <2>2. runAbortController = NoRun
      BY <2>1 DEF OwnerInv, FieldInv
    <2> QED
      BY <1>1, <2>1, <2>2, OwnerEnds DEF StartFails, Reject
  <1>2. CASE LoopFails(r)
    <2>1. \/ pc[r] \in LoopPoints
          \/ pc[r] = "settling" /\ pc' = [pc EXCEPT ![r] = "failed"]
      BY <1>2 DEF LoopFails
    <2>2. PICK point \in {"turnRethrow", "failed"} : pc' = [pc EXCEPT ![r] = point]
      BY <1>2 DEF LoopFails
    <2> QED
      BY <1>2, <2>1, <2>2, OwnerGoesOn DEF LoopFails
  <1>3. CASE FailureFails(r)
    BY <1>3, OwnerGoesOn, ZenonT(60) DEF FailureFails
  <1>4. CASE TailFails(r)
    BY <1>4, OwnerEnds DEF TailFails, Reject
  <1> QED
    BY <1>1, <1>2, <1>3, <1>4 DEF RunFails

LEMMA OwnerClient ==
    ASSUME ~EarlyPrompts, Types, OwnerInv, ClientCall \/ EndStructural
    PROVE  OwnerInv'
  <1>1. CASE Enqueue
    BY <1>1, OwnerStays DEF Enqueue, ownerVars
  <1>2. CASE RequestWrite
    BY <1>2, OwnerStays DEF RequestWrite, ownerVars
  <1>3. CASE Abort
    BY <1>3, OwnerStays DEF Abort, ownerVars
  <1>4. CASE StartStructural
    <2>1. /\ \A r \in Runs : Over(r)
          /\ structural' /\ phase' \in {"compaction", "branch_summary"}
          /\ UNCHANGED <<pc, runAbortController, runPromise>>
      BY <1>4 DEF StartStructural
    <2>2. \A r \in Runs : pc[r] \notin StartPoints \union LoopPoints
      BY <2>1 DEF Over, StartPoints, LoopPoints
    <2>3. \A r \in Runs : Over(r)'
      BY <2>1 DEF Over
    <2>4. SoleInv'
      BY <2>1, <2>3 DEF OwnerInv, SoleInv
    <2>5. PhaseInv'
      BY <2>1, <2>2 DEF PhaseInv, PhaseGuardsLoop
    <2>6. FieldInv'
      BY <2>1, <2>2, <2>3 DEF OwnerInv, FieldInv
    <2> QED
      BY <2>4, <2>5, <2>6 DEF OwnerInv
  <1>5. CASE EndStructural
    <2>1. /\ structural /\ ~structural' /\ phase' = "idle"
          /\ UNCHANGED <<pc, runAbortController, runPromise>>
      BY <1>5 DEF EndStructural
    <2>2. \A r \in Runs : Over(r) /\ Over(r)'
      BY <2>1 DEF OwnerInv, SoleInv, Over
    <2>3. \A r \in Runs : pc[r] \notin StartPoints \union LoopPoints
      BY <2>2 DEF Over, StartPoints, LoopPoints
    <2>4. SoleInv'
      BY <2>1, <2>2 DEF OwnerInv, SoleInv
    <2>5. PhaseInv'
      BY <2>1, <2>3 DEF PhaseInv, PhaseGuardsLoop
    <2>6. FieldInv'
      BY <2>1, <2>2, <2>3 DEF OwnerInv, FieldInv
    <2> QED
      BY <2>4, <2>5, <2>6 DEF OwnerInv
  <1> QED
    BY <1>1, <1>2, <1>3, <1>4, <1>5 DEF ClientCall

LEMMA OwnerInit == Init => OwnerInv
  <1> SUFFICES ASSUME Init  PROVE  OwnerInv
    OBVIOUS
  <1>1. \A r \in Runs : pc[r] = "unused"
    BY DEF Init
  <1>2. SoleInv
    BY <1>1 DEF Init, SoleInv, Over
  <1>3. PhaseInv
    BY <1>1 DEF Init, PhaseInv, PhaseGuardsLoop, StartPoints, LoopPoints
  <1>4. FieldInv
    BY <1>1 DEF Init, FieldInv, Over, StartPoints, LoopPoints
  <1> QED
    BY <1>2, <1>3, <1>4 DEF OwnerInv

-----------------------------------------------------------------------------
\* The queued messages

Steering == <<"steer", NoRun>>
FollowUps == <<"followUp", NoRun>>
NextTurns == <<"nextTurn", NoRun>>
Seen == <<"seen", NoRun>>
Dropped == <<"dropped", NoRun>>
Of(r) == <<"run", r>>

LEMMA PlacesAre ==
    /\ {Steering, FollowUps, NextTurns, Seen, Dropped} \subseteq Place
    /\ \A r \in Runs : Of(r) \in Place
    /\ \A p \in Place : \/ p \in {Steering, FollowUps, NextTurns, Seen, Dropped}
                        \/ \E r \in Runs : p = Of(r)
    /\ \A r \in Runs : Of(r) \notin {Steering, FollowUps, NextTurns, Seen, Dropped}
    /\ \A q, r \in Runs : Of(q) = Of(r) => q = r
    /\ Steering # FollowUps /\ Steering # NextTurns /\ Steering # Seen /\ Steering # Dropped
    /\ FollowUps # NextTurns /\ FollowUps # Seen /\ FollowUps # Dropped
    /\ NextTurns # Seen /\ NextTurns # Dropped /\ Seen # Dropped
  BY DEF Place, Steering, FollowUps, NextTurns, Seen, Dropped, Of

LEMMA WhereIs ==
    /\ Where(Steering) = QueuedIds(steerQueue)
    /\ Where(FollowUps) = QueuedIds(followUpQueue)
    /\ Where(NextTurns) = QueuedIds(nextTurnQueue)
    /\ Where(Seen) = QueuedIds(session)
    /\ Where(Dropped) = dropped
    /\ \A r \in Runs : Where(Of(r)) = QueuedIds(unsent[r])
  BY DEF Where, Steering, FollowUps, NextTurns, Seen, Dropped, Of

LEMMA WhereWillBe ==
    /\ Where(Steering)' = QueuedIds(steerQueue')
    /\ Where(FollowUps)' = QueuedIds(followUpQueue')
    /\ Where(NextTurns)' = QueuedIds(nextTurnQueue')
    /\ Where(Seen)' = QueuedIds(session')
    /\ Where(Dropped)' = dropped'
    /\ \A r \in Runs : Where(Of(r))' = QueuedIds(unsent'[r])
  BY DEF Where, Steering, FollowUps, NextTurns, Seen, Dropped, Of

\* Messages X leave the places P for the place q.
LEMMA PlacesMove ==
    ASSUME PlaceInv, nextId' = nextId,
           NEW P \in SUBSET Place, NEW q \in Place, q \notin P, NEW X,
           \A n \in X : \E p \in P : n \in Where(p),
           \A p \in P : Where(p)' = Where(p) \ X,
           Where(q)' = Where(q) \union X,
           \A p \in Place : p \notin P /\ p # q => Where(p)' = Where(p)
    PROVE  PlaceInv'
  <1>1. ASSUME NEW p \in Place  PROVE  Where(p)' \subseteq 1..(nextId' - 1)
    BY DEF PlaceInv
  <1>2. ASSUME NEW n \in 1..(nextId' - 1)  PROVE  \E p \in Place : n \in Where(p)'
    <2>1. CASE n \in X
      BY <2>1
    <2>2. CASE n \notin X
      <3>1. PICK p \in Place : n \in Where(p)
        BY DEF PlaceInv
      <3>2. n \in Where(p)'
        BY <2>2, <3>1
      <3> QED
        BY <3>2
    <2> QED
      BY <2>1, <2>2
  <1>3. ASSUME NEW a \in Place, NEW b \in Place, a # b, NEW n, n \in Where(a)', n \in Where(b)'
        PROVE  FALSE
    <2>1. \A p \in Place : p # q => (n \in Where(p)' => n \in Where(p) /\ (p \in P => n \notin X))
      OBVIOUS
    <2>2. CASE n \in X
      <3>1. PICK p \in P : n \in Where(p)
        BY <2>2
      <3>2. \A c \in Place : c # p => n \notin Where(c)
        BY <3>1 DEF PlaceInv
      <3>3. \A c \in Place : c # q => n \notin Where(c)'
        BY <2>1, <2>2, <3>2
      <3> QED
        BY <1>3, <3>3
    <2>3. CASE n \notin X
      <3>1. n \in Where(a) /\ n \in Where(b)
        BY <1>3, <2>1, <2>3
      <3> QED
        BY <1>3, <3>1 DEF PlaceInv
    <2> QED
      BY <2>2, <2>3
  <1> QED
    BY <1>1, <1>2, <1>3 DEF PlaceInv

\* Nothing moves.
LEMMA PlacesStay ==
    ASSUME PlaceInv, nextId' = nextId, \A p \in Place : Where(p)' = Where(p)
    PROVE  PlaceInv'
  BY DEF PlaceInv

\* A new message goes to the place q.
LEMMA PlacesGrow ==
    ASSUME PlaceInv, nextId \in Nat \ {0}, nextId' = nextId + 1, NEW q \in Place,
           Where(q)' = Where(q) \union {nextId},
           \A p \in Place : p # q => Where(p)' = Where(p)
    PROVE  PlaceInv'
  <1>1. 1..(nextId' - 1) = (1..(nextId - 1)) \union {nextId} /\ nextId \notin 1..(nextId - 1)
    OBVIOUS
  <1>2. \A p \in Place : nextId \notin Where(p)
    BY <1>1 DEF PlaceInv
  <1>3. ASSUME NEW p \in Place  PROVE  Where(p)' \subseteq 1..(nextId' - 1)
    BY <1>1 DEF PlaceInv
  <1>4. ASSUME NEW n \in 1..(nextId' - 1)  PROVE  \E p \in Place : n \in Where(p)'
    <2>1. CASE n = nextId
      BY <2>1
    <2>2. CASE n # nextId
      <3>1. PICK p \in Place : n \in Where(p)
        BY <1>1, <2>2 DEF PlaceInv
      <3>2. n \in Where(p)'
        BY <3>1
      <3> QED
        BY <3>2
    <2> QED
      BY <2>1, <2>2
  <1>5. ASSUME NEW a \in Place, NEW b \in Place, a # b
        PROVE  Where(a)' \intersect Where(b)' = {}
    BY <1>2, <1>5 DEF PlaceInv
  <1> QED
    BY <1>3, <1>4, <1>5 DEF PlaceInv

LEMMA DrainSplits ==
    ASSUME NEW q \in Seq(Message), Distinct(q, "queued")
    PROVE  /\ QueuedIds(q) = QueuedIds(Drained(q)) \union QueuedIds(AfterDrain(q))
           /\ QueuedIds(AfterDrain(q)) = QueuedIds(q) \ QueuedIds(Drained(q))
           /\ Distinct(Drained(q), "queued")
           /\ Distinct(AfterDrain(q), "queued")
  <1> DEFINE h == Head(q)
  <1>1. CASE OneAtATime /\ q # <<>>
    <2>1. /\ Drained(q) = <<h>> /\ AfterDrain(q) = Tail(q)
      BY <1>1 DEF Drained, AfterDrain
    <2>2. /\ Ids(q, "queued") = Ids(Tail(q), "queued")
                \union (IF h.kind = "queued" THEN {h.id} ELSE {})
          /\ h.kind = "queued" => h.id \notin Ids(Tail(q), "queued")
          /\ Distinct(Tail(q), "queued")
      BY <1>1, IdsOfTail, DistinctTail
    <2>3. /\ Ids(<<h>>, "queued") = (IF h.kind = "queued" THEN {h.id} ELSE {})
          /\ Distinct(<<h>>, "queued")
      BY DEF Ids, Distinct
    <2> QED
      BY <2>1, <2>2, <2>3 DEF QueuedIds
  <1>2. CASE ~(OneAtATime /\ q # <<>>)
    <2>1. Drained(q) = q /\ AfterDrain(q) = <<>>
      BY <1>2 DEF Drained, AfterDrain
    <2>2. Distinct(<<>>, "queued")
      BY DEF Distinct
    <2> QED
      BY <2>1, <2>2, IdsOfEmpty DEF QueuedIds
  <1> QED
    BY <1>1, <1>2

\* Steps that leave the messages where they are.
LEMMA QueueStays ==
    ASSUME Types, QueueInv, UNCHANGED <<queues, dropped, nextId>>,
           QueuedIds(session') = QueuedIds(session),
           \A r \in Runs : /\ QueuedIds(unsent'[r]) = QueuedIds(unsent[r])
                           /\ Distinct(unsent'[r], "queued"),
           \A r \in Runs : pc'[r] \notin HandingPoints => unsent'[r] = <<>>
    PROVE  QueueInv'
  <1>1. \A p \in Place : Where(p)' = Where(p)
    BY PlacesAre, WhereIs, WhereWillBe
  <1>2. PlaceInv'
    BY <1>1, PlacesStay DEF QueueInv
  <1>3. ListInv'
    BY DEF QueueInv, ListInv
  <1> QED
    BY <1>2, <1>3 DEF QueueInv

\* The usual case of it.
LEMMA QueueUntouched ==
    ASSUME Types, QueueInv, UNCHANGED <<queues, dropped, nextId, unsent>>,
           QueuedIds(session') = QueuedIds(session),
           \A r \in Runs : pc'[r] \notin HandingPoints =>
                pc[r] \notin HandingPoints \/ unsent[r] = <<>>
    PROVE  QueueInv'
  <1>1. \A r \in Runs : /\ QueuedIds(unsent'[r]) = QueuedIds(unsent[r])
                        /\ Distinct(unsent'[r], "queued")
    BY DEF QueueInv, ListInv
  <1>2. \A r \in Runs : pc'[r] \notin HandingPoints => unsent'[r] = <<>>
    BY DEF QueueInv, ListInv
  <1> QED
    BY <1>1, <1>2, QueueStays

\* An entry of another kind in the session.
LEMMA OtherEntry ==
    ASSUME Types, NEW e \in Entry, e.kind # "queued", session' = Append(session, e)
    PROVE  QueuedIds(session') = QueuedIds(session)
  <1>1. session \in Seq(Entry)
    BY DEF Types
  <1>2. Ids(Append(session, e), "queued") = Ids(session, "queued")
                \union (IF e.kind = "queued" THEN {e.id} ELSE {})
    BY <1>1, IdsOfAppend
  <1> QED
    BY <1>2 DEF QueuedIds

LEMMA QueueTakeSnapshot ==
    ASSUME Types, QueueInv, NEW r \in Runs, TakeSnapshot(r)
    PROVE  QueueInv'
  <1>1. /\ pc[r] = "snapshot" /\ unsent' = [unsent EXCEPT ![r] = nextTurnQueue]
        /\ nextTurnQueue' = <<>>
        /\ UNCHANGED <<steerQueue, followUpQueue, session, dropped, nextId>>
    BY DEF TakeSnapshot
  <1>2. /\ unsent'[r] = nextTurnQueue /\ \A q \in Runs : q # r => unsent'[q] = unsent[q]
    BY <1>1 DEF Types
  <1>3. pc'[r] \in HandingPoints /\ \A q \in Runs : q # r => pc'[q] = pc[q]
    BY DEF TakeSnapshot, Go, Types, HandingPoints
  <1>4. unsent[r] = <<>>
    BY <1>1 DEF QueueInv, ListInv, HandingPoints
  <1>5. QueuedIds(<<>>) = {} /\ Distinct(<<>>, "queued")
    BY IdsOfEmpty DEF QueuedIds, Distinct
  <1>6. PlaceInv'
    <2> DEFINE X == QueuedIds(nextTurnQueue)
    <2>1. /\ Where(NextTurns) = X /\ Where(NextTurns)' = {}
          /\ Where(Of(r)) = {} /\ Where(Of(r))' = X
      BY <1>1, <1>2, <1>4, <1>5, WhereIs, WhereWillBe
    <2>2. \A p \in Place : p # NextTurns /\ p # Of(r) => Where(p)' = Where(p)
      BY <1>1, <1>2, WhereIs, WhereWillBe, PlacesAre
    <2>3. {NextTurns} \in SUBSET Place /\ Of(r) \in Place /\ Of(r) \notin {NextTurns}
      BY PlacesAre
    <2> HIDE DEF X
    <2>4. /\ \A n \in X : \E p \in {NextTurns} : n \in Where(p)
          /\ \A p \in {NextTurns} : Where(p)' = Where(p) \ X
          /\ Where(Of(r))' = Where(Of(r)) \union X
          /\ \A p \in Place : p \notin {NextTurns} /\ p # Of(r) => Where(p)' = Where(p)
      BY <2>1, <2>2
    <2> QED
      BY <1>1, <2>3, <2>4, PlacesMove DEF QueueInv
  <1>7. ListInv'
    BY <1>1, <1>2, <1>3, <1>5 DEF QueueInv, ListInv
  <1> QED
    BY <1>6, <1>7 DEF QueueInv

LEMMA QueueEmitMessage ==
    ASSUME Types, QueueInv, NEW r \in Runs, EmitMessage(r)
    PROVE  QueueInv'
  <1> DEFINE h == Head(unsent[r])
             X == IF h.kind = "queued" THEN {h.id} ELSE {}
  <1>1. /\ pc[r] \in HandingPoints /\ unsent[r] # <<>> /\ session' = Append(session, h)
        /\ unsent' = [unsent EXCEPT ![r] = Tail(@)]
        /\ UNCHANGED <<pc, queues, dropped, nextId>>
    BY DEF EmitMessage, HandingPoints
  <1>2. /\ unsent'[r] = Tail(unsent[r]) /\ \A q \in Runs : q # r => unsent'[q] = unsent[q]
        /\ unsent[r] \in Seq(Message)
    BY <1>1 DEF Types
  <1>3. h \in Entry /\ session \in Seq(Entry)
    BY <1>1, <1>2, TailIs, SubEntries DEF Types
  <1>4. QueuedIds(session') = QueuedIds(session) \union X
    BY <1>1, <1>3, IdsOfAppend DEF QueuedIds
  <1>5. /\ QueuedIds(unsent[r]) = QueuedIds(unsent'[r]) \union X
        /\ QueuedIds(unsent'[r]) \intersect X = {}
        /\ Distinct(unsent'[r], "queued")
    <2>1. Distinct(unsent[r], "queued")
      BY DEF QueueInv, ListInv
    <2> QED
      BY <1>1, <1>2, <2>1, IdsOfTail, DistinctTail DEF QueuedIds
  <1> HIDE DEF h, X
  <1>6. PlaceInv'
    <2>1. /\ Where(Of(r)) = QueuedIds(unsent[r]) /\ Where(Of(r))' = QueuedIds(unsent'[r])
          /\ Where(Seen)' = Where(Seen) \union X
      BY <1>4, WhereIs, WhereWillBe
    <2>2. \A p \in Place : p # Seen /\ p # Of(r) => Where(p)' = Where(p)
      BY <1>1, <1>2, WhereIs, WhereWillBe, PlacesAre
    <2>3. {Of(r)} \in SUBSET Place /\ Seen \in Place /\ Seen \notin {Of(r)}
      BY PlacesAre
    <2>4. /\ \A n \in X : \E p \in {Of(r)} : n \in Where(p)
          /\ \A p \in {Of(r)} : Where(p)' = Where(p) \ X
          /\ Where(Seen)' = Where(Seen) \union X
          /\ \A p \in Place : p \notin {Of(r)} /\ p # Seen => Where(p)' = Where(p)
      BY <1>5, <2>1, <2>2
    <2>5. PlaceInv /\ nextId' = nextId
      BY <1>1 DEF QueueInv
    <2> QED
      BY <2>3, <2>4, <2>5, PlacesMove, ZenonT(60)
  <1>7. ListInv'
    BY <1>1, <1>2, <1>5 DEF QueueInv, ListInv
  <1> QED
    BY <1>6, <1>7 DEF QueueInv

LEMMA QueuePollSteering ==
    ASSUME Types, QueueInv, NEW r \in Runs, PollSteering(r)
    PROVE  QueueInv'
  <1> DEFINE X == QueuedIds(Drained(steerQueue))
  <1>1. /\ unsent' = [unsent EXCEPT ![r] = Drained(steerQueue)]
        /\ steerQueue' = AfterDrain(steerQueue)
        /\ UNCHANGED <<followUpQueue, nextTurnQueue, session, dropped, nextId>>
    BY DEF PollSteering
  <1>2. /\ unsent'[r] = Drained(steerQueue)
        /\ \A q \in Runs : q # r => unsent'[q] = unsent[q]
    BY <1>1 DEF Types
  <1>3. pc'[r] \in HandingPoints /\ \A q \in Runs : q # r => pc'[q] = pc[q]
    BY DEF PollSteering, Go, Types, HandingPoints
  <1>4. unsent[r] = <<>>
    BY DEF PollSteering, QueueInv, ListInv, HandingPoints
  <1>5. /\ X \subseteq QueuedIds(steerQueue)
        /\ QueuedIds(steerQueue') = QueuedIds(steerQueue) \ X
        /\ Distinct(unsent'[r], "queued") /\ Distinct(steerQueue', "queued")
    BY <1>1, <1>2, DrainSplits DEF Types, QueueInv, ListInv
  <1>6. QueuedIds(<<>>) = {}
    BY IdsOfEmpty DEF QueuedIds
  <1>7. PlaceInv'
    <2>1. /\ Where(Of(r)) = {} /\ Where(Of(r))' = X
          /\ Where(Steering) = QueuedIds(steerQueue)
          /\ Where(Steering)' = QueuedIds(steerQueue')
      BY <1>2, <1>4, <1>6, WhereIs, WhereWillBe
    <2>2. \A p \in Place : p # Steering /\ p # Of(r) => Where(p)' = Where(p)
      BY <1>1, <1>2, WhereIs, WhereWillBe, PlacesAre
    <2>3. {Steering} \in SUBSET Place /\ Of(r) \in Place /\ Of(r) \notin {Steering}
      BY PlacesAre
    <2> HIDE DEF X
    <2>4. /\ \A n \in X : \E p \in {Steering} : n \in Where(p)
          /\ \A p \in {Steering} : Where(p)' = Where(p) \ X
          /\ Where(Of(r))' = Where(Of(r)) \union X
          /\ \A p \in Place : p \notin {Steering} /\ p # Of(r) => Where(p)' = Where(p)
      BY <1>5, <2>1, <2>2
    <2>5. PlaceInv /\ nextId' = nextId
      BY <1>1 DEF QueueInv
    <2> QED
      BY <2>3, <2>4, <2>5, PlacesMove, ZenonT(60)
  <1>8. ListInv'
    BY <1>1, <1>2, <1>3, <1>5 DEF QueueInv, ListInv
  <1> QED
    BY <1>7, <1>8 DEF QueueInv

LEMMA QueuePollFollowUps ==
    ASSUME Types, QueueInv, NEW r \in Runs, PollFollowUps(r)
    PROVE  QueueInv'
  <1> DEFINE X == QueuedIds(Drained(followUpQueue))
  <1>1. /\ unsent' = [unsent EXCEPT ![r] = Drained(followUpQueue)]
        /\ followUpQueue' = AfterDrain(followUpQueue)
        /\ UNCHANGED <<steerQueue, nextTurnQueue, session, dropped, nextId>>
    BY DEF PollFollowUps
  <1>2. /\ unsent'[r] = Drained(followUpQueue)
        /\ \A q \in Runs : q # r => unsent'[q] = unsent[q]
    BY <1>1 DEF Types
  <1>3. /\ pc'[r] \in HandingPoints \/ unsent'[r] = <<>>
        /\ \A q \in Runs : q # r => pc'[q] = pc[q]
    <2>1. followUpQueue = <<>> => Drained(followUpQueue) = <<>>
      BY DEF Drained
    <2> QED
      BY <1>2, <2>1 DEF PollFollowUps, Go, Types, HandingPoints
  <1>4. unsent[r] = <<>>
    BY DEF PollFollowUps, QueueInv, ListInv, HandingPoints
  <1>5. /\ X \subseteq QueuedIds(followUpQueue)
        /\ QueuedIds(followUpQueue') = QueuedIds(followUpQueue) \ X
        /\ Distinct(unsent'[r], "queued") /\ Distinct(followUpQueue', "queued")
    BY <1>1, <1>2, DrainSplits DEF Types, QueueInv, ListInv
  <1>6. QueuedIds(<<>>) = {}
    BY IdsOfEmpty DEF QueuedIds
  <1>7. PlaceInv'
    <2>1. /\ Where(Of(r)) = {} /\ Where(Of(r))' = X
          /\ Where(FollowUps) = QueuedIds(followUpQueue)
          /\ Where(FollowUps)' = QueuedIds(followUpQueue')
      BY <1>2, <1>4, <1>6, WhereIs, WhereWillBe
    <2>2. \A p \in Place : p # FollowUps /\ p # Of(r) => Where(p)' = Where(p)
      BY <1>1, <1>2, WhereIs, WhereWillBe, PlacesAre
    <2>3. {FollowUps} \in SUBSET Place /\ Of(r) \in Place /\ Of(r) \notin {FollowUps}
      BY PlacesAre
    <2> HIDE DEF X
    <2>4. /\ \A n \in X : \E p \in {FollowUps} : n \in Where(p)
          /\ \A p \in {FollowUps} : Where(p)' = Where(p) \ X
          /\ Where(Of(r))' = Where(Of(r)) \union X
          /\ \A p \in Place : p \notin {FollowUps} /\ p # Of(r) => Where(p)' = Where(p)
      BY <1>5, <2>1, <2>2
    <2>5. PlaceInv /\ nextId' = nextId
      BY <1>1 DEF QueueInv
    <2> QED
      BY <2>3, <2>4, <2>5, PlacesMove, ZenonT(60)
  <1>8. ListInv'
    BY <1>1, <1>2, <1>3, <1>5 DEF QueueInv, ListInv
  <1> QED
    BY <1>7, <1>8 DEF QueueInv

\* A run that fails before its loop: back into the queue, dropped, or nothing.
LEMMA QueueStartFails ==
    ASSUME Types, QueueInv, NEW r \in Runs, StartFails(r)
    PROVE  QueueInv'
  <1> DEFINE X == QueuedIds(unsent[r])
  <1>1. /\ unsent' = [unsent EXCEPT ![r] = <<>>] /\ pc' = [pc EXCEPT ![r] = "done"]
        /\ nextTurnQueue' = IF pc[r] = "announce" THEN unsent[r] \o nextTurnQueue
                                                  ELSE nextTurnQueue
        /\ dropped' = IF pc[r] = "hook" THEN dropped \union X ELSE dropped
        /\ UNCHANGED <<steerQueue, followUpQueue, session, nextId>>
        /\ pc[r] \in {"snapshot", "announce", "hook"}
    BY DEF StartFails, Reject, Go, StartPoints
  <1>2. /\ unsent'[r] = <<>> /\ \A q \in Runs : q # r => unsent'[q] = unsent[q]
    BY <1>1 DEF Types
  <1>3. QueuedIds(<<>>) = {} /\ Distinct(<<>>, "queued")
    BY IdsOfEmpty DEF QueuedIds, Distinct
  <1>4. /\ Where(Of(r)) = X /\ Where(Of(r))' = {}
    BY <1>2, <1>3, WhereIs, WhereWillBe
  <1>5. /\ QueuedIds(unsent[r] \o nextTurnQueue) = X \union QueuedIds(nextTurnQueue)
        /\ Distinct(unsent[r] \o nextTurnQueue, "queued")
    <2>1. unsent[r] \in Seq(Message) /\ nextTurnQueue \in Seq(Message)
      BY DEF Types
    <2>2. X \intersect QueuedIds(nextTurnQueue) = {}
      BY WhereIs, PlacesAre DEF QueueInv, PlaceInv
    <2>3. Distinct(unsent[r], "queued") /\ Distinct(nextTurnQueue, "queued")
      BY DEF QueueInv, ListInv
    <2> QED
      BY <2>1, <2>2, <2>3, IdsOfConcat, DistinctConcat DEF QueuedIds
  <1>6. pc[r] = "snapshot" => X = {}
    BY <1>3 DEF QueueInv, ListInv, HandingPoints
  <1> HIDE DEF X
  <1>7. PlaceInv /\ nextId' = nextId
    BY <1>1 DEF QueueInv
  <1>8. \A p \in Place : p \notin {Of(r), NextTurns, Dropped} => Where(p)' = Where(p)
    BY <1>1, <1>2, WhereIs, WhereWillBe, PlacesAre
  <1>9. /\ pc[r] = "announce" => Where(NextTurns)' = Where(NextTurns) \union X
        /\ pc[r] # "announce" => Where(NextTurns)' = Where(NextTurns)
        /\ pc[r] = "hook" => Where(Dropped)' = Where(Dropped) \union X
        /\ pc[r] # "hook" => Where(Dropped)' = Where(Dropped)
    BY <1>1, <1>5, WhereIs, WhereWillBe
  <1>10. /\ {Of(r)} \in SUBSET Place /\ NextTurns \in Place /\ Dropped \in Place
         /\ NextTurns \notin {Of(r)} /\ Dropped \notin {Of(r)} /\ NextTurns # Dropped
    BY PlacesAre
  <1>11. /\ \A n \in X : \E p \in {Of(r)} : n \in Where(p)
         /\ \A p \in {Of(r)} : Where(p)' = Where(p) \ X
    BY <1>4
  <1>12. PlaceInv'
    <2>1. CASE pc[r] = "snapshot"
      <3>1. \A p \in Place : Where(p)' = Where(p)
        <4>1. \A p \in {Of(r)} : Where(p)' = Where(p)
          BY <1>4, <1>6, <2>1
        <4>2. \A p \in {NextTurns, Dropped} : Where(p)' = Where(p)
          BY <1>9, <2>1
        <4> QED
          BY <1>8, <4>1, <4>2
      <3> QED
        BY <1>7, <3>1, PlacesStay
    <2>2. CASE pc[r] = "announce"
      <3>1. /\ Where(NextTurns)' = Where(NextTurns) \union X
            /\ \A p \in Place : p \notin {Of(r)} /\ p # NextTurns => Where(p)' = Where(p)
        BY <1>8, <1>9, <2>2
      <3> QED
        BY <1>7, <1>10, <1>11, <3>1, PlacesMove, ZenonT(60)
    <2>3. CASE pc[r] = "hook"
      <3>1. /\ Where(Dropped)' = Where(Dropped) \union X
            /\ \A p \in Place : p \notin {Of(r)} /\ p # Dropped => Where(p)' = Where(p)
        BY <1>8, <1>9, <2>3
      <3>2. /\ {Of(r)} \in SUBSET Place /\ Dropped \in Place /\ Dropped \notin {Of(r)}
            /\ PlaceInv /\ nextId' = nextId
        BY <1>7, <1>10
      <3> QED
        BY <1>11, <3>1, <3>2, PlacesMove, ZenonT(60)
    <2> QED
      BY <1>1, <2>1, <2>2, <2>3
  <1>13. ListInv'
    <2>1. \A q \in Runs : q # r => pc'[q] = pc[q]
      BY <1>1 DEF Types
    <2> QED
      BY <1>1, <1>2, <1>3, <1>5, <2>1 DEF QueueInv, ListInv
  <1> QED
    BY <1>12, <1>13 DEF QueueInv

LEMMA QueueLoopFails ==
    ASSUME Types, QueueInv, NEW r \in Runs, LoopFails(r)
    PROVE  QueueInv'
  <1> DEFINE X == QueuedIds(unsent[r])
  <1>1. /\ unsent' = [unsent EXCEPT ![r] = <<>>] /\ dropped' = dropped \union X
        /\ UNCHANGED <<queues, session, nextId>>
    BY DEF LoopFails
  <1>2. /\ unsent'[r] = <<>> /\ \A q \in Runs : q # r => unsent'[q] = unsent[q]
        /\ \A q \in Runs : q # r => pc'[q] = pc[q]
    BY <1>1 DEF Types, LoopFails, Go
  <1>3. QueuedIds(<<>>) = {} /\ Distinct(<<>>, "queued")
    BY IdsOfEmpty DEF QueuedIds, Distinct
  <1>4. /\ Where(Of(r)) = X /\ Where(Of(r))' = {}
        /\ Where(Dropped)' = Where(Dropped) \union X
    BY <1>1, <1>2, <1>3, WhereIs, WhereWillBe
  <1>5. \A p \in Place : p # Dropped /\ p # Of(r) => Where(p)' = Where(p)
    BY <1>1, <1>2, WhereIs, WhereWillBe, PlacesAre
  <1>6. {Of(r)} \in SUBSET Place /\ Dropped \in Place /\ Dropped \notin {Of(r)}
    BY PlacesAre
  <1> HIDE DEF X
  <1>7. /\ \A n \in X : \E p \in {Of(r)} : n \in Where(p)
        /\ \A p \in {Of(r)} : Where(p)' = Where(p) \ X
        /\ Where(Dropped)' = Where(Dropped) \union X
        /\ \A p \in Place : p \notin {Of(r)} /\ p # Dropped => Where(p)' = Where(p)
    BY <1>4, <1>5
  <1>8. PlaceInv /\ nextId' = nextId
    BY <1>1 DEF QueueInv
  <1>9. PlaceInv'
    BY <1>6, <1>7, <1>8, PlacesMove, ZenonT(60)
  <1>10. ListInv'
    BY <1>1, <1>2, <1>3 DEF QueueInv, ListInv
  <1> QED
    BY <1>9, <1>10 DEF QueueInv

LEMMA QueueRunStep ==
    ASSUME Types, QueueInv, NEW r \in Runs, RunStep(r)
    PROVE  QueueInv'
  <1> USE DEF HandingPoints, Go
  <1>1. CASE TakeSnapshot(r)
    BY <1>1, QueueTakeSnapshot
  <1>2. CASE AnnounceNextTurn(r)
    <2>1. /\ pc[r] = "announce" /\ pc' = [pc EXCEPT ![r] = "hook"]
          /\ UNCHANGED <<queues, dropped, nextId, unsent, session>>
      BY <1>2 DEF AnnounceNextTurn
    <2>2. pc'[r] = "hook" /\ \A q \in Runs : q # r => pc'[q] = pc[q]
      BY <2>1 DEF Types
    <2> QED
      BY <2>1, <2>2, QueueUntouched
  <1>3. CASE StartLoop(r)
    <2>1. /\ unsent' = [unsent EXCEPT ![r] = Append(@, PromptEntry(r))]
          /\ UNCHANGED <<queues, dropped, nextId, session>>
          /\ pc' = [pc EXCEPT ![r] = "prompts"]
      BY <1>3 DEF StartLoop
    <2>2. /\ unsent'[r] = Append(unsent[r], PromptEntry(r)) /\ pc'[r] = "prompts"
          /\ \A q \in Runs : q # r => unsent'[q] = unsent[q] /\ pc'[q] = pc[q]
          /\ unsent[r] \in Seq(Message)
      BY <2>1 DEF Types
    <2>3. PromptEntry(r) \in Message /\ PromptEntry(r).kind # "queued"
      BY EntryTypes
    <2>4. Ids(unsent'[r], "queued") = Ids(unsent[r], "queued")
                \union (IF PromptEntry(r).kind = "queued" THEN {PromptEntry(r).id} ELSE {})
      BY <2>2, <2>3, IdsOfAppend
    <2>5. Distinct(unsent'[r], "queued")
      BY <2>2, <2>3, DistinctAppend DEF QueueInv, ListInv
    <2>6. \A q \in Runs : /\ QueuedIds(unsent'[q]) = QueuedIds(unsent[q])
                          /\ Distinct(unsent'[q], "queued")
      BY <2>2, <2>3, <2>4, <2>5 DEF QueuedIds, QueueInv, ListInv
    <2>7. \A q \in Runs : pc'[q] \notin HandingPoints => unsent'[q] = <<>>
      BY <2>2 DEF QueueInv, ListInv
    <2> QED
      BY <2>1, <2>6, <2>7, QueueStays
  <1>4. CASE EmitMessage(r)
    BY <1>4, QueueEmitMessage
  <1>5. CASE PollSteering(r)
    BY <1>5, QueuePollSteering
  <1>6. CASE PollFollowUps(r)
    BY <1>6, QueuePollFollowUps
  <1>7. CASE RequestReply(r)
    <2>1. /\ unsent[r] = <<>> /\ \A q \in Runs : q # r => pc'[q] = pc[q]
          /\ UNCHANGED <<queues, dropped, nextId, unsent, session>>
      BY <1>7 DEF RequestReply, Types
    <2> QED
      BY <2>1, QueueUntouched
  <1>8. CASE ReplyArrives(r)
    <2>1. /\ pc[r] = "request" /\ session' = Append(session, ReplyEntry(r))
          /\ UNCHANGED <<queues, dropped, nextId, unsent>>
          /\ \E point \in {"results", "turnEnd", "lastTurnEnd"} : pc' = [pc EXCEPT ![r] = point]
      BY <1>8 DEF ReplyArrives
    <2>2. \A q \in Runs : q # r => pc'[q] = pc[q]
      BY <2>1 DEF Types
    <2>3. QueuedIds(session') = QueuedIds(session)
      BY <2>1, EntryTypes, OtherEntry
    <2> QED
      BY <2>1, <2>2, <2>3, QueueUntouched
  <1>9. CASE ResultsArrive(r)
    <2>1. /\ pc[r] = "results" /\ session' = Append(session, ResultEntry(r))
          /\ UNCHANGED <<queues, dropped, nextId, unsent>>
          /\ \A q \in Runs : q # r => pc'[q] = pc[q]
      BY <1>9 DEF ResultsArrive, Types
    <2>2. QueuedIds(session') = QueuedIds(session)
      BY <2>1, EntryTypes, OtherEntry
    <2> QED
      BY <2>1, <2>2, QueueUntouched
  <1>10. CASE FlushDone(r)
    <2>1. /\ writing[r] \in Write /\ session' = Append(session, writing[r])
          /\ UNCHANGED <<queues, dropped, nextId, unsent, pc>>
      BY <1>10 DEF FlushDone, Types
    <2>2. writing[r] \in Entry /\ writing[r].kind # "queued"
      BY <2>1, SubEntries DEF Write
    <2>3. QueuedIds(session') = QueuedIds(session)
      BY <2>1, <2>2, OtherEntry
    <2> QED
      BY <2>1, <2>3, QueueUntouched
  <1>11. CASE FailureMessage(r)
    <2>1. /\ pc[r] = "failed" /\ session' = Append(session, ReplyEntry(r))
          /\ UNCHANGED <<queues, dropped, nextId, unsent>>
          /\ \A q \in Runs : q # r => pc'[q] = pc[q]
      BY <1>11 DEF FailureMessage, Types
    <2>2. QueuedIds(session') = QueuedIds(session)
      BY <2>1, EntryTypes, OtherEntry
    <2> QED
      BY <2>1, <2>2, QueueUntouched
  <1>12. ASSUME UNCHANGED <<queues, dropped, nextId, unsent, session>>,
                pc[r] \notin HandingPoints, \A q \in Runs : q # r => pc'[q] = pc[q]
         PROVE  QueueInv'
    BY <1>12, QueueUntouched
  <1>13. CASE TurnEnd(r)
    BY <1>12, <1>13 DEF TurnEnd, Types
  <1>14. CASE FlushStart(r)
    BY <1>14, QueueUntouched DEF FlushStart
  <1>15. CASE LeaveTurnFlush(r)
    <2>1. /\ pc[r] \notin HandingPoints
          /\ UNCHANGED <<queues, dropped, nextId, unsent, session>>
          /\ \E point \in {"refresh", "failed", "endFlush", "failEndFlush"} :
                pc' = [pc EXCEPT ![r] = point]
      BY <1>15 DEF LeaveTurnFlush
    <2> QED
      BY <1>12, <2>1 DEF Types
  <1>16. CASE RefreshContext(r)
    BY <1>12, <1>16 DEF RefreshContext, Types
  <1>17. CASE AgentEnd(r)
    BY <1>12, <1>17 DEF AgentEnd, Types
  <1>18. CASE Settle(r)
    BY <1>12, <1>18 DEF Settle, Types
  <1>19. CASE Finish(r)
    BY <1>12, <1>19 DEF Finish, Types
  <1> QED
    BY <1>1, <1>2, <1>3, <1>4, <1>5, <1>6, <1>7, <1>8, <1>9, <1>10, <1>11, <1>13,
       <1>14, <1>15, <1>16, <1>17, <1>18, <1>19 DEF RunStep

LEMMA QueueRun ==
    ASSUME Types, QueueInv, NEW r \in Runs, Prompt(r) \/ RunStep(r) \/ RunFails(r)
    PROVE  QueueInv'
  <1>1. CASE Prompt(r)
    <2>1. /\ pc[r] = "unused" /\ UNCHANGED <<queues, dropped, nextId, unsent, session>>
          /\ \A q \in Runs : q # r => pc'[q] = pc[q]
      BY <1>1 DEF Prompt, Go, Types
    <2> QED
      BY <2>1, QueueUntouched DEF HandingPoints
  <1>2. CASE RunStep(r)
    BY <1>2, QueueRunStep
  <1>3. CASE StartFails(r)
    BY <1>3, QueueStartFails
  <1>4. CASE LoopFails(r)
    BY <1>4, QueueLoopFails
  <1>5. CASE FailureFails(r)
    <2>1. /\ pc[r] \notin HandingPoints
          /\ UNCHANGED <<queues, dropped, nextId, unsent, session>>
          /\ \A q \in Runs : q # r => pc'[q] = pc[q]
      BY <1>5 DEF FailureFails, Go, Types, FailurePoints, HandingPoints
    <2> QED
      BY <2>1, QueueUntouched
  <1>6. CASE TailFails(r)
    <2>1. /\ pc[r] \notin HandingPoints
          /\ UNCHANGED <<queues, dropped, nextId, session>>
          /\ unsent' = [unsent EXCEPT ![r] = <<>>]
          /\ \A q \in Runs : q # r => pc'[q] = pc[q]
      BY <1>6 DEF TailFails, Reject, Go, Types, HandingPoints
    <2>2. unsent[r] = <<>> /\ unsent' = unsent
      BY <2>1 DEF QueueInv, ListInv, Types
    <2> QED
      BY <2>1, <2>2, QueueUntouched
  <1> QED
    BY <1>1, <1>2, <1>3, <1>4, <1>5, <1>6 DEF RunFails

\* A new message in one of the queues.
LEMMA QueueEnqueue ==
    ASSUME Types, QueueInv, Enqueue
    PROVE  QueueInv'
  <1> DEFINE e == QueuedEntry(nextId)
  <1>1. /\ UNCHANGED <<pc, unsent, session, dropped>> /\ nextId' = nextId + 1
    BY DEF Enqueue, Steer, FollowUp, NextTurn, Queued
  <1>2. nextId \in Nat \ {0} /\ e \in Message /\ e.kind = "queued" /\ e.id = nextId
    BY EntryTypes DEF Types
  <1>3. \A p \in Place : nextId \notin Where(p)
    BY <1>2 DEF QueueInv, PlaceInv
  <1>4. ASSUME NEW s \in Seq(Message), NEW p \in Place, Where(p) = QueuedIds(s),
               Distinct(s, "queued")
        PROVE  /\ QueuedIds(Append(s, e)) = QueuedIds(s) \union {nextId}
               /\ Distinct(Append(s, e), "queued")
    <2>1. Ids(Append(s, e), "queued") = Ids(s, "queued")
                \union (IF e.kind = "queued" THEN {e.id} ELSE {})
      BY <1>2, IdsOfAppend
    <2>2. e.id \notin Ids(s, "queued")
      BY <1>2, <1>3, <1>4 DEF QueuedIds
    <2>3. Distinct(Append(s, e), "queued")
      BY <1>2, <1>4, <2>2, DistinctAppend
    <2> QED
      BY <1>2, <2>1, <2>3 DEF QueuedIds
  <1> HIDE DEF e
  <1>5. CASE steerQueue' = Append(steerQueue, e) /\ UNCHANGED <<followUpQueue, nextTurnQueue>>
    <2>1. /\ QueuedIds(steerQueue') = QueuedIds(steerQueue) \union {nextId}
          /\ Distinct(steerQueue', "queued")
      BY <1>4, <1>5, WhereIs, PlacesAre DEF Types, QueueInv, ListInv
    <2>2. /\ Where(Steering)' = Where(Steering) \union {nextId}
          /\ \A p \in Place : p # Steering => Where(p)' = Where(p)
      BY <1>1, <1>5, <2>1, WhereIs, WhereWillBe, PlacesAre
    <2>3. PlaceInv'
      BY <1>1, <1>2, <2>2, PlacesGrow, PlacesAre DEF QueueInv
    <2> QED
      BY <1>1, <1>5, <2>1, <2>3 DEF QueueInv, ListInv
  <1>6. CASE followUpQueue' = Append(followUpQueue, e)
             /\ UNCHANGED <<steerQueue, nextTurnQueue>>
    <2>1. /\ QueuedIds(followUpQueue') = QueuedIds(followUpQueue) \union {nextId}
          /\ Distinct(followUpQueue', "queued")
      BY <1>4, <1>6, WhereIs, PlacesAre DEF Types, QueueInv, ListInv
    <2>2. /\ Where(FollowUps)' = Where(FollowUps) \union {nextId}
          /\ \A p \in Place : p # FollowUps => Where(p)' = Where(p)
      BY <1>1, <1>6, <2>1, WhereIs, WhereWillBe, PlacesAre
    <2>3. PlaceInv'
      BY <1>1, <1>2, <2>2, PlacesGrow, PlacesAre DEF QueueInv
    <2> QED
      BY <1>1, <1>6, <2>1, <2>3 DEF QueueInv, ListInv
  <1>7. CASE nextTurnQueue' = Append(nextTurnQueue, e)
             /\ UNCHANGED <<steerQueue, followUpQueue>>
    <2>1. /\ QueuedIds(nextTurnQueue') = QueuedIds(nextTurnQueue) \union {nextId}
          /\ Distinct(nextTurnQueue', "queued")
      BY <1>4, <1>7, WhereIs, PlacesAre DEF Types, QueueInv, ListInv
    <2>2. /\ Where(NextTurns)' = Where(NextTurns) \union {nextId}
          /\ \A p \in Place : p # NextTurns => Where(p)' = Where(p)
      BY <1>1, <1>7, <2>1, WhereIs, WhereWillBe, PlacesAre
    <2>3. PlaceInv'
      BY <1>1, <1>2, <2>2, PlacesGrow, PlacesAre DEF QueueInv
    <2> QED
      BY <1>1, <1>7, <2>1, <2>3 DEF QueueInv, ListInv
  <1> QED
    BY <1>5, <1>6, <1>7 DEF Enqueue, Steer, FollowUp, NextTurn, e

\* Both queues of the run are cleared.
LEMMA QueueAbort ==
    ASSUME Types, QueueInv, Abort
    PROVE  QueueInv'
  <1> DEFINE X == QueuedIds(steerQueue \o followUpQueue)
             P == {Steering, FollowUps}
  <1>1. /\ steerQueue' = <<>> /\ followUpQueue' = <<>> /\ dropped' = dropped \union X
        /\ UNCHANGED <<pc, unsent, nextTurnQueue, session, nextId>>
    BY DEF Abort
  <1>2. QueuedIds(<<>>) = {} /\ Distinct(<<>>, "queued")
    BY IdsOfEmpty DEF QueuedIds, Distinct
  <1>3. X = QueuedIds(steerQueue) \union QueuedIds(followUpQueue)
    BY IdsOfConcat DEF Types, QueuedIds
  <1>4. X = Where(Steering) \union Where(FollowUps)
    BY <1>3, WhereIs
  <1>5. Where(Steering)' = {} /\ Where(FollowUps)' = {}
        /\ Where(Dropped)' = Where(Dropped) \union X
    BY <1>1, <1>2, WhereIs, WhereWillBe
  <1> HIDE DEF X
  <1>6. P \in SUBSET Place /\ Dropped \in Place /\ Dropped \notin P
    BY PlacesAre
  <1>7. /\ \A n \in X : \E p \in P : n \in Where(p)
        /\ \A p \in P : Where(p)' = Where(p) \ X
    BY <1>4, <1>5
  <1>8. \A p \in Place : p \notin P /\ p # Dropped => Where(p)' = Where(p)
    BY <1>1, WhereIs, WhereWillBe, PlacesAre
  <1> HIDE DEF P
  <1>9. PlaceInv /\ nextId' = nextId
    BY <1>1 DEF QueueInv
  <1>10. PlaceInv'
    BY <1>5, <1>6, <1>7, <1>8, <1>9, PlacesMove
  <1>11. ListInv'
    BY <1>1, <1>2 DEF QueueInv, ListInv
  <1> QED
    BY <1>10, <1>11 DEF QueueInv

LEMMA QueueClient ==
    ASSUME Types, QueueInv, ClientCall \/ EndStructural
    PROVE  QueueInv'
  <1>1. CASE Enqueue
    BY <1>1, QueueEnqueue
  <1>2. CASE RequestWrite
    <2>1. UNCHANGED <<queues, dropped, nextId, unsent, pc>>
          /\ session' \in {session, Append(session, WriteEntry(nextWrite))}
      BY <1>2 DEF RequestWrite
    <2>2. WriteEntry(nextWrite) \in Entry /\ WriteEntry(nextWrite).kind # "queued"
      BY EntryTypes DEF Types
    <2>3. QueuedIds(session') = QueuedIds(session)
      BY <2>1, <2>2, OtherEntry
    <2> QED
      BY <2>1, <2>3, QueueUntouched
  <1>3. CASE Abort
    BY <1>3, QueueAbort
  <1>4. CASE StartStructural
    BY <1>4, QueueUntouched DEF StartStructural
  <1>5. CASE EndStructural
    <2>1. UNCHANGED <<queues, dropped, nextId, unsent, pc>>
          /\ session' \in {session, Append(session, StructureEntry)}
      BY <1>5 DEF EndStructural
    <2>2. QueuedIds(session') = QueuedIds(session)
      BY <2>1, EntryTypes, OtherEntry
    <2> QED
      BY <2>1, <2>2, QueueUntouched
  <1> QED
    BY <1>1, <1>2, <1>3, <1>4, <1>5 DEF ClientCall

LEMMA QueueInit == Init => QueueInv
  <1> SUFFICES ASSUME Init  PROVE  QueueInv
    OBVIOUS
  <1>1. QueuedIds(<<>>) = {} /\ Distinct(<<>>, "queued")
    BY IdsOfEmpty DEF QueuedIds, Distinct
  <1>2. \A p \in Place : Where(p) = {}
    BY <1>1, WhereIs, PlacesAre DEF Init
  <1>3. PlaceInv
    BY <1>2 DEF Init, PlaceInv
  <1>4. ListInv
    BY <1>1 DEF Init, ListInv
  <1> QED
    BY <1>3, <1>4 DEF QueueInv

LEMMA PlacesTellAll ==
    ASSUME Types, QueueInv
    PROVE  QueuedAccountedFor
  <1> DEFINE held == UNION {QueuedIds(unsent[r]) : r \in Runs}
             queued == QueuedIds(steerQueue \o followUpQueue \o nextTurnQueue)
             seen == QueuedIds(session)
  <1>1. queued = Where(Steering) \union Where(FollowUps) \union Where(NextTurns)
    <2>1. /\ steerQueue \in Seq(Message) /\ followUpQueue \in Seq(Message)
          /\ nextTurnQueue \in Seq(Message)
      BY DEF Types
    <2>2. steerQueue \o followUpQueue \in Seq(Message)
      BY <2>1, ConcatIs
    <2>3. QueuedIds(steerQueue \o followUpQueue)
            = QueuedIds(steerQueue) \union QueuedIds(followUpQueue)
      BY <2>1, IdsOfConcat DEF QueuedIds
    <2>4. ASSUME NEW s \in Seq(Message)
          PROVE  QueuedIds(s \o nextTurnQueue) = QueuedIds(s) \union QueuedIds(nextTurnQueue)
      BY <2>1, IdsOfConcat DEF QueuedIds
    <2>5. queued = QueuedIds(steerQueue \o followUpQueue) \union QueuedIds(nextTurnQueue)
      BY <2>2, <2>4
    <2> QED
      BY <2>3, <2>5, WhereIs
  <1>2. seen = Where(Seen) /\ dropped = Where(Dropped)
    BY WhereIs
  <1>3. \A n : n \in held <=> \E r \in Runs : n \in Where(Of(r))
    BY WhereIs
  <1> HIDE DEF held, queued, seen
  <1>4. \A n \in 1..(nextId - 1) : n \in held \union queued \union seen \union dropped
    BY <1>1, <1>2, <1>3, PlacesAre DEF QueueInv, PlaceInv
  <1>5. held \union queued \union seen \union dropped \subseteq 1..(nextId - 1)
    BY <1>1, <1>2, <1>3, PlacesAre DEF QueueInv, PlaceInv
  <1>6. /\ seen \intersect (held \union queued \union dropped) = {}
        /\ queued \intersect (held \union dropped) = {}
        /\ held \intersect dropped = {}
    BY <1>1, <1>2, <1>3, PlacesAre DEF QueueInv, PlaceInv
  <1> QED
    BY <1>4, <1>5, <1>6 DEF QueuedAccountedFor, held, queued, seen

-----------------------------------------------------------------------------
\* The session

\* Points and kinds that the invariants speak of.
LEMMA PointFacts ==
    /\ FollowingPoints \subseteq StartPoints \union LoopPoints
    /\ "results" \in LoopPoints /\ "results" \notin FlushPoints
    /\ FollowingPoints \intersect FlushPoints = {}
    /\ AfterFailure \subseteq LoopPoints \union FailurePoints \union TailPoints
    /\ FlushPoints \subseteq LoopPoints \union FailurePoints \union TailPoints
  BY DEF FollowingPoints, StartPoints, LoopPoints, FlushPoints, AfterFailure, FailurePoints,
         TailPoints

\* Runs that are over are at none of these points.
LEMMA OverIsNowhere ==
    ASSUME NEW q \in Runs, Over(q)
    PROVE  /\ pc[q] \notin FollowingPoints /\ pc[q] \notin FlushPoints
           /\ pc[q] # "results" /\ pc[q] \notin AfterFailure
  BY DEF Over, FollowingPoints, FlushPoints, AfterFailure, FailurePoints

\* One run moves, the others are over and stay so.
LEMMA OthersStay ==
    ASSUME OwnerInv, NEW r \in Runs, ~Over(r), \A q \in Runs : q # r => pc'[q] = pc[q]
    PROVE  \A q \in Runs : q # r =>
                /\ pc'[q] \notin FollowingPoints /\ pc'[q] \notin FlushPoints
                /\ pc'[q] # "results" /\ pc'[q] \notin AfterFailure
                /\ pc[q] \notin FlushPoints
  BY Alone, OverIsNowhere

LEMMA LastOfAppend ==
    ASSUME NEW s \in Seq(Entry), NEW e \in Entry,
           \A i \in 2..Len(s) : s[i].kind = "result" => s[i - 1].kind = "reply",
           e.kind = "result" => Len(s) > 0 /\ s[Len(s)].kind = "reply"
    PROVE  /\ \A i \in 2..Len(Append(s, e)) :
                  Append(s, e)[i].kind = "result" => Append(s, e)[i - 1].kind = "reply"
           /\ Len(Append(s, e)) > 0 /\ Append(s, e)[Len(Append(s, e))] = e
  <1> DEFINE u == Append(s, e)
  <1>1. /\ Len(u) = Len(s) + 1 /\ Len(s) \in Nat
        /\ \A i \in 1..Len(s) : u[i] = s[i]
        /\ u[Len(s) + 1] = e
    BY AppendIs
  <1> HIDE DEF u
  <1>2. ASSUME NEW i \in 2..Len(u), u[i].kind = "result"
        PROVE  u[i - 1].kind = "reply"
    <2>1. CASE i \in 2..Len(s)
      <3>1. u[i] = s[i] /\ u[i - 1] = s[i - 1]
        BY <1>1, <2>1
      <3> QED
        BY <1>2, <2>1, <3>1
    <2>2. CASE i = Len(s) + 1
      <3>1. u[i] = e /\ Len(s) \in 1..Len(s) /\ u[Len(s)] = s[Len(s)] /\ i - 1 = Len(s)
        BY <1>1, <2>2
      <3> QED
        BY <1>2, <3>1
    <2> QED
      BY <1>1, <2>1, <2>2
  <1> QED
    BY <1>1, <1>2 DEF u

LEMMA SortedAppend ==
    ASSUME NEW S, NEW s \in Seq(S), NEW e \in S, Sorted(s),
           e.kind = "write" => \A n \in Ids(s, "write") : n < e.id
    PROVE  Sorted(Append(s, e))
  <1> DEFINE u == Append(s, e)
  <1>1. /\ Len(s) \in Nat
        /\ DOMAIN s = 1..Len(s) /\ DOMAIN u = 1..(Len(s) + 1)
        /\ \A i \in 1..Len(s) : u[i] = s[i]
        /\ u[Len(s) + 1] = e
    BY AppendIs
  <1> HIDE DEF u
  <1>2. ASSUME NEW i \in DOMAIN u, NEW j \in DOMAIN u, i < j,
               u[i].kind = "write", u[j].kind = "write"
        PROVE  u[i].id < u[j].id
    <2>1. CASE j \in DOMAIN s
      BY <1>1, <1>2, <2>1 DEF Sorted
    <2>2. CASE j \notin DOMAIN s
      <3>1. u[j] = e /\ i \in DOMAIN s /\ u[i] = s[i]
        BY <1>1, <1>2, <2>2
      <3>2. s[i].id \in Ids(s, "write")
        BY <1>2, <3>1, IdsAre
      <3> QED
        BY <1>2, <3>1, <3>2
    <2> QED
      BY <2>1, <2>2
  <1> QED
    BY <1>2 DEF Sorted, u

LEMMA SortedTail ==
    ASSUME NEW S, NEW s \in Seq(S), s # <<>>, Sorted(s)
    PROVE  /\ Sorted(Tail(s))
           /\ Head(s).kind = "write" => \A n \in Ids(Tail(s), "write") : Head(s).id < n
  <1> DEFINE t == Tail(s)
  <1>1. /\ Len(s) \in Nat /\ Len(s) > 0 /\ s[1] = Head(s)
        /\ DOMAIN s = 1..Len(s) /\ DOMAIN t = 1..(Len(s) - 1)
        /\ \A i \in 1..(Len(s) - 1) : t[i] = s[i + 1]
    BY TailIs
  <1> HIDE DEF t
  <1>2. ASSUME NEW i \in DOMAIN t
        PROVE  i + 1 \in DOMAIN s /\ 1 < i + 1 /\ t[i] = s[i + 1] /\ i \in Nat /\ 1 \in DOMAIN s
    BY <1>1
  <1>3. Sorted(t)
    <2> SUFFICES ASSUME NEW i \in DOMAIN t, NEW j \in DOMAIN t, i < j,
                        t[i].kind = "write", t[j].kind = "write"
                 PROVE  t[i].id < t[j].id
      BY DEF Sorted
    <2>1. i + 1 < j + 1
      BY <1>2
    <2> QED
      BY <1>2, <2>1 DEF Sorted
  <1>4. ASSUME Head(s).kind = "write", NEW n \in Ids(t, "write")
        PROVE  Head(s).id < n
    <2>1. PICK i \in DOMAIN t : t[i].kind = "write" /\ t[i].id = n
      BY IdsAre
    <2> QED
      BY <1>1, <1>2, <1>4, <2>1 DEF Sorted
  <1> QED
    BY <1>3, <1>4 DEF t

\* A step of the run that owns the harness, or of nobody, over the same entries.
LEMMA DataQuiet ==
    ASSUME Types, OwnerInv, DataInv, NEW r \in Runs, ~Over(r),
           \A q \in Runs : q # r => pc'[q] = pc[q] /\ writing'[q] = writing[q],
           UNCHANGED <<session, pendingSessionWrites, nextWrite, structural, structurals>>,
           pc'[r] \in FollowingPoints => context'[r] = session,
           writing'[r] # NoWrite =>
                /\ pc'[r] \in FlushPoints
                /\ pendingSessionWrites # <<>>
                /\ writing'[r] = Head(pendingSessionWrites),
           pc'[r] # "results",
           failures' \in {failures, failures + 1},
           failures' = 0 => pc'[r] \notin AfterFailure,
           failures' = 0 /\ structurals = 0 /\ phase' = "idle" =>
                phase = "idle" \/ pendingSessionWrites = <<>>
    PROVE  DataInv'
  <1>1. \A q \in Runs : q # r =>
            /\ pc'[q] \notin FollowingPoints /\ pc'[q] \notin FlushPoints
            /\ pc'[q] # "results" /\ pc'[q] \notin AfterFailure
            /\ pc[q] \notin FlushPoints
    BY OthersStay
  <1>2. ContextInv'
    BY <1>1 DEF ContextInv
  <1>3. FlushInv'
    BY <1>1 DEF DataInv, FlushInv
  <1>4. LogInv'
    BY DEF DataInv, LogInv
  <1>5. ResultInv'
    BY <1>1 DEF DataInv, ResultInv, WritesAtSavePoints
  <1>6. OrderInv'
    <2>1. failures \in Nat /\ (failures' = 0 => failures = 0)
      BY DEF Types
    <2> QED
      BY <1>1, <2>1 DEF DataInv, OrderInv
  <1> QED
    BY <1>2, <1>3, <1>4, <1>5, <1>6 DEF DataInv

\* The run that owns the harness appends an entry that is not a client's write.
LEMMA DataAppend ==
    ASSUME Types, OwnerInv, DataInv, NEW r \in Runs, ~Over(r), NEW e \in Entry,
           e.kind # "write", session' = Append(session, e),
           \A q \in Runs : q # r => pc'[q] = pc[q],
           UNCHANGED <<pendingSessionWrites, nextWrite, structural, structurals, writing,
                       failures, phase>>,
           pc'[r] \in FollowingPoints => context'[r] = session',
           pc[r] \notin FlushPoints,
           e.kind = "result" => pc[r] = "results",
           pc'[r] = "results" => e.kind = "reply",
           failures = 0 => pc'[r] \notin AfterFailure
    PROVE  DataInv'
  <1>1. \A q \in Runs : q # r =>
            /\ pc'[q] \notin FollowingPoints /\ pc'[q] \notin FlushPoints
            /\ pc'[q] # "results" /\ pc'[q] \notin AfterFailure
            /\ pc[q] \notin FlushPoints
    BY OthersStay
  <1>2. session \in Seq(Entry)
    BY DEF Types
  <1>3. Ids(session', "write") = Ids(session, "write")
    <2>1. Ids(Append(session, e), "write") = Ids(session, "write")
                \union (IF e.kind = "write" THEN {e.id} ELSE {})
      BY <1>2, IdsOfAppend
    <2> QED
      BY <2>1
  <1>4. ContextInv'
    BY <1>1 DEF ContextInv
  <1>5. FlushInv'
    BY <1>1 DEF DataInv, FlushInv
  <1>6. LogInv'
    <2>1. Distinct(session', "write")
      BY <1>2, DistinctAppend DEF DataInv, LogInv
    <2> QED
      BY <1>3, <2>1 DEF DataInv, LogInv
  <1>7. ResultInv'
    <2>1. e.kind = "result" => Len(session) > 0 /\ session[Len(session)].kind = "reply"
      BY DEF DataInv, ResultInv
    <2>2. /\ \A i \in 2..Len(session') :
                session'[i].kind = "result" => session'[i - 1].kind = "reply"
          /\ Len(session') > 0 /\ session'[Len(session')] = e
      BY <1>2, <2>1, LastOfAppend DEF DataInv, ResultInv, WritesAtSavePoints
    <2> QED
      BY <1>1, <2>2 DEF ResultInv, WritesAtSavePoints
  <1>8. OrderInv'
    <2>1. failures = 0 /\ structurals = 0 => Sorted(session')
      BY <1>2, SortedAppend DEF DataInv, OrderInv
    <2> QED
      BY <1>1, <1>3, <2>1 DEF DataInv, OrderInv
  <1> QED
    BY <1>4, <1>5, <1>6, <1>7, <1>8 DEF DataInv

\* A write goes from the head of the pending ones to the session.
LEMMA DataFlushDone ==
    ASSUME Types, OwnerInv, DataInv, NEW r \in Runs, FlushDone(r)
    PROVE  DataInv'
  <1> DEFINE h == Head(pendingSessionWrites)
             rest == Tail(pendingSessionWrites)
  <1>1. /\ pc[r] \in FlushPoints /\ pendingSessionWrites # <<>> /\ writing[r] = h
    BY DEF FlushDone, DataInv, FlushInv
  <1>2. /\ session' = Append(session, h) /\ pendingSessionWrites' = rest
        /\ writing' = [writing EXCEPT ![r] = NoWrite]
        /\ UNCHANGED <<pc, context, nextWrite, phase, structural, structurals, failures>>
    BY <1>1 DEF FlushDone, AfterShift
  <1>3. ~Over(r)
    BY <1>1, NotOver
  <1>4. \A q \in Runs : q # r =>
            /\ pc'[q] \notin FollowingPoints /\ pc'[q] \notin FlushPoints
            /\ pc'[q] # "results" /\ pc'[q] \notin AfterFailure
            /\ pc[q] \notin FlushPoints
    BY <1>2, <1>3, OthersStay
  <1>5. /\ pendingSessionWrites \in Seq(Write) /\ session \in Seq(Entry)
        /\ rest \in Seq(Write) /\ h \in Write /\ h \in Entry /\ h.kind = "write"
        /\ h.id \in Nat
    <2>1. pendingSessionWrites \in Seq(Write) /\ session \in Seq(Entry)
      BY DEF Types
    <2>2. rest \in Seq(Write) /\ h \in Write
      BY <1>1, <2>1, TailIs
    <2> QED
      BY <2>1, <2>2, SubEntries DEF Write
  <1>6. /\ Ids(pendingSessionWrites, "write") = Ids(rest, "write") \union {h.id}
        /\ h.id \notin Ids(rest, "write") /\ Distinct(rest, "write")
    <2>1. Distinct(pendingSessionWrites, "write")
      BY DEF DataInv, LogInv
    <2>2. Ids(pendingSessionWrites, "write") = Ids(rest, "write")
                \union (IF h.kind = "write" THEN {h.id} ELSE {})
      BY <1>1, <1>5, IdsOfTail
    <2>3. /\ h.kind = "write" => h.id \notin Ids(rest, "write")
          /\ Distinct(rest, "write")
      BY <1>1, <1>5, <2>1, DistinctTail
    <2> QED
      BY <1>5, <2>2, <2>3
  <1>7. Ids(session', "write") = Ids(session, "write") \union {h.id}
    <2>1. Ids(Append(session, h), "write") = Ids(session, "write")
                \union (IF h.kind = "write" THEN {h.id} ELSE {})
      BY <1>5, IdsOfAppend
    <2> QED
      BY <1>2, <1>5, <2>1
  <1>8. h.id \notin Ids(session, "write")
    BY <1>6 DEF DataInv, LogInv
  <1> HIDE DEF h, rest
  <1>9. ContextInv'
    BY <1>1, <1>2, <1>4, PointFacts DEF ContextInv
  <1>10. FlushInv'
    <2>1. writing'[r] = NoWrite /\ \A q \in Runs : q # r => writing'[q] = writing[q]
      BY <1>2 DEF Types
    <2> QED
      BY <1>4, <2>1 DEF DataInv, FlushInv
  <1>11. LogInv'
    <2>1. Distinct(session', "write")
      BY <1>2, <1>5, <1>8, DistinctAppend DEF DataInv, LogInv
    <2> QED
      BY <1>2, <1>6, <1>7, <2>1 DEF DataInv, LogInv
  <1>12. ResultInv'
    <2>1. \A i \in 2..Len(session') :
                session'[i].kind = "result" => session'[i - 1].kind = "reply"
      BY <1>2, <1>5, LastOfAppend DEF DataInv, ResultInv, WritesAtSavePoints
    <2> QED
      BY <1>1, <1>2, <1>4, <2>1, PointFacts DEF ResultInv, WritesAtSavePoints
  <1>13. OrderInv'
    <2>1. ASSUME failures = 0, structurals = 0
          PROVE  /\ Sorted(session') /\ Sorted(rest)
                 /\ \A v \in Ids(session', "write"), w \in Ids(rest, "write") : v < w
      <3>1. /\ Sorted(session) /\ Sorted(pendingSessionWrites)
            /\ \A v \in Ids(session, "write"), w \in Ids(pendingSessionWrites, "write") : v < w
        BY <2>1 DEF DataInv, OrderInv
      <3>2. \A v \in Ids(session, "write") : v < h.id
        BY <1>6, <3>1
      <3>3. Sorted(session')
        BY <1>2, <1>5, <3>1, <3>2, SortedAppend
      <3>4. Sorted(rest) /\ \A w \in Ids(rest, "write") : h.id < w
        BY <1>1, <1>5, <3>1, SortedTail DEF h, rest
      <3> QED
        BY <1>6, <1>7, <3>1, <3>3, <3>4
    <2>2. failures = 0 /\ structurals = 0 /\ phase = "idle" => FALSE
      BY <1>1 DEF DataInv, OrderInv
    <2> QED
      BY <1>2, <1>4, <2>1, <2>2 DEF DataInv, OrderInv
  <1> QED
    BY <1>9, <1>10, <1>11, <1>12, <1>13 DEF DataInv

LEMMA DataPrompt ==
    ASSUME ~EarlyPrompts, Types, OwnerInv, DataInv, NEW r \in Runs, Prompt(r)
    PROVE  DataInv'
  <1>1. /\ pc[r] = "unused" /\ phase = "idle" /\ phase' = "turn"
        /\ UNCHANGED <<session, context, writing, pendingSessionWrites, nextWrite,
                       structural, structurals, failures>>
        /\ pc'[r] = "snapshot" /\ \A q \in Runs : q # r => pc'[q] = pc[q]
    BY DEF Prompt, Go, Types
  <1>2. /\ pc'[r] \notin FollowingPoints /\ pc'[r] \notin FlushPoints /\ pc'[r] # "results"
        /\ pc'[r] \notin AfterFailure /\ pc[r] \notin FlushPoints
    BY <1>1 DEF FollowingPoints, FlushPoints, AfterFailure, FailurePoints
  <1>3. ContextInv'
    BY <1>1, <1>2 DEF DataInv, ContextInv
  <1>4. FlushInv'
    BY <1>1, <1>2 DEF DataInv, FlushInv
  <1>5. LogInv'
    BY <1>1 DEF DataInv, LogInv
  <1>6. ResultInv'
    BY <1>1, <1>2 DEF DataInv, ResultInv, WritesAtSavePoints
  <1>7. OrderInv'
    BY <1>1, <1>2 DEF DataInv, OrderInv
  <1> QED
    BY <1>3, <1>4, <1>5, <1>6, <1>7 DEF DataInv

LEMMA DataRunStep ==
    ASSUME Types, OwnerInv, DataInv, NEW r \in Runs, RunStep(r)
    PROVE  DataInv'
  <1> USE DEF Go
  <1>1. /\ pc[r] \notin FlushPoints => writing[r] = NoWrite
        /\ pc[r] \in FollowingPoints => context[r] = session
        /\ writing[r] # NoWrite =>
                pendingSessionWrites # <<>> /\ writing[r] = Head(pendingSessionWrites)
    BY DEF DataInv, ContextInv, FlushInv
  <1>2. failures = 0 => pc[r] \notin AfterFailure
    BY DEF DataInv, OrderInv
  \* Steps that change the point and the context of the run only.
  <1>3. ASSUME ~Over(r), \A q \in Runs : q # r => pc'[q] = pc[q],
               UNCHANGED <<session, pendingSessionWrites, nextWrite, structural,
                           structurals, writing, failures>>,
               pc'[r] \in FollowingPoints => context'[r] = session,
               writing[r] # NoWrite => pc'[r] \in FlushPoints,
               pc'[r] # "results",
               failures = 0 => pc'[r] \notin AfterFailure,
               failures = 0 /\ phase' = "idle" => phase = "idle" \/ pendingSessionWrites = <<>>
        PROVE  DataInv'
    BY <1>1, <1>3, DataQuiet
  <1>4. CASE TakeSnapshot(r)
    <2>1. /\ pc[r] = "snapshot" /\ ~Over(r) /\ pc'[r] \in {"hook", "announce"}
          /\ \A q \in Runs : q # r => pc'[q] = pc[q]
          /\ context'[r] = session
          /\ UNCHANGED <<session, pendingSessionWrites, nextWrite, structural,
                         structurals, writing, failures, phase>>
      BY <1>4 DEF TakeSnapshot, Types, Over
    <2>2. pc[r] \notin FlushPoints /\ pc'[r] # "results" /\ pc'[r] \notin AfterFailure
      BY <2>1 DEF FlushPoints, AfterFailure, FailurePoints
    <2> QED
      BY <1>1, <1>3, <2>1, <2>2
  <1>5. CASE AnnounceNextTurn(r) \/ StartLoop(r) \/ PollSteering(r) \/ RequestReply(r)
    <2>1. /\ pc[r] \in FollowingPoints /\ pc[r] \notin FlushPoints /\ ~Over(r)
      BY <1>5 DEF AnnounceNextTurn, StartLoop, PollSteering, RequestReply, FollowingPoints,
                  FlushPoints, Over
    <2>2. /\ pc'[r] \in {"hook", "prompts", "turn", "request"}
          /\ \A q \in Runs : q # r => pc'[q] = pc[q]
          /\ UNCHANGED <<session, pendingSessionWrites, nextWrite, structural,
                         structurals, writing, failures, phase, context>>
      BY <1>5 DEF AnnounceNextTurn, StartLoop, PollSteering, RequestReply, Types
    <2>3. pc'[r] # "results" /\ pc'[r] \notin AfterFailure
      BY <2>2 DEF AfterFailure, FailurePoints
    <2> QED
      BY <1>1, <1>3, <2>1, <2>2, <2>3
  <1>6. CASE PollFollowUps(r) \/ TurnEnd(r)
    <2>1. /\ pc[r] \in FollowingPoints /\ pc[r] \notin FlushPoints /\ ~Over(r)
      BY <1>6 DEF PollFollowUps, TurnEnd, FollowingPoints, FlushPoints, Over
    <2>2. /\ pc'[r] \in {"endFlush", "turn", "turnFlush", "lastFlush"}
          /\ \A q \in Runs : q # r => pc'[q] = pc[q]
          /\ UNCHANGED <<session, pendingSessionWrites, nextWrite, structural,
                         structurals, writing, failures, phase, context>>
      BY <1>6 DEF PollFollowUps, TurnEnd, Types
    <2>3. pc'[r] # "results" /\ pc'[r] \notin AfterFailure
      BY <2>2 DEF AfterFailure, FailurePoints
    <2> QED
      BY <1>1, <1>3, <2>1, <2>2, <2>3
  <1>7. CASE EmitMessage(r)
    <2> DEFINE e == Head(unsent[r])
    <2>1. unsent[r] \in Seq(Message) /\ unsent[r] # <<>>
      BY <1>7 DEF EmitMessage, Types
    <2>2. e \in Message
      BY <2>1, TailIs
    <2>3. e \in Entry /\ e.kind \notin {"write", "result"}
      BY <2>2, SubEntries DEF Message
    <2>4. /\ pc[r] \in {"prompts", "turn"} /\ session' = Append(session, e)
          /\ context' = Appended(r, e)
          /\ UNCHANGED <<pendingSessionWrites, nextWrite, structural, structurals,
                         writing, failures, phase, pc>>
      BY <1>7 DEF EmitMessage
    <2> HIDE DEF e
    <2>5. /\ pc[r] \in FollowingPoints /\ pc[r] \notin FlushPoints /\ ~Over(r)
          /\ pc[r] # "results" /\ pc[r] \notin AfterFailure
      BY <2>4 DEF FollowingPoints, FlushPoints, Over, AfterFailure, FailurePoints
    <2>6. context'[r] = session'
      BY <1>1, <2>4, <2>5 DEF Appended, Types
    <2> QED
      BY <2>3, <2>4, <2>5, <2>6, DataAppend
  <1>8. CASE ReplyArrives(r)
    <2> DEFINE e == ReplyEntry(r)
    <2>1. e \in Entry /\ e.kind = "reply"
      BY EntryTypes
    <2>2. /\ pc[r] = "request" /\ session' = Append(session, e)
          /\ context' = Appended(r, e)
          /\ \E point \in {"results", "turnEnd", "lastTurnEnd"} : pc' = [pc EXCEPT ![r] = point]
          /\ UNCHANGED <<pendingSessionWrites, nextWrite, structural, structurals,
                         writing, failures, phase>>
      BY <1>8 DEF ReplyArrives
    <2> HIDE DEF e
    <2>3. /\ pc[r] \in FollowingPoints /\ pc[r] \notin FlushPoints /\ ~Over(r)
      BY <2>2 DEF FollowingPoints, FlushPoints, Over
    <2>4. /\ pc'[r] \in {"results", "turnEnd", "lastTurnEnd"}
          /\ \A q \in Runs : q # r => pc'[q] = pc[q]
      BY <2>2 DEF Types
    <2>5. pc'[r] \notin AfterFailure
      BY <2>4 DEF AfterFailure, FailurePoints
    <2>6. context'[r] = session'
      BY <1>1, <2>2, <2>3 DEF Appended, Types
    <2> QED
      BY <2>1, <2>2, <2>3, <2>4, <2>5, <2>6, DataAppend
  <1>9. CASE ResultsArrive(r)
    <2> DEFINE e == ResultEntry(r)
    <2>1. e \in Entry /\ e.kind = "result"
      BY EntryTypes
    <2>2. /\ pc[r] = "results" /\ session' = Append(session, e)
          /\ context' = Appended(r, e) /\ pc' = [pc EXCEPT ![r] = "turnEnd"]
          /\ UNCHANGED <<pendingSessionWrites, nextWrite, structural, structurals,
                         writing, failures, phase>>
      BY <1>9 DEF ResultsArrive
    <2> HIDE DEF e
    <2>3. /\ pc[r] \in FollowingPoints /\ pc[r] \notin FlushPoints /\ ~Over(r)
      BY <2>2 DEF FollowingPoints, FlushPoints, Over
    <2>4. /\ pc'[r] = "turnEnd" /\ \A q \in Runs : q # r => pc'[q] = pc[q]
      BY <2>2 DEF Types
    <2>5. pc'[r] \notin AfterFailure
      BY <2>4 DEF AfterFailure, FailurePoints
    <2>6. context'[r] = session'
      BY <1>1, <2>2, <2>3 DEF Appended, Types
    <2> QED
      BY <2>1, <2>2, <2>3, <2>4, <2>5, <2>6, DataAppend
  <1>10. CASE FailureMessage(r)
    <2> DEFINE e == ReplyEntry(r)
    <2>1. e \in Entry /\ e.kind = "reply"
      BY EntryTypes
    <2>2. /\ pc[r] = "failed" /\ session' = Append(session, e)
          /\ pc' = [pc EXCEPT ![r] = "failFlush"]
          /\ UNCHANGED <<pendingSessionWrites, nextWrite, structural, structurals,
                         writing, failures, phase>>
      BY <1>10 DEF FailureMessage
    <2> HIDE DEF e
    <2>3. /\ pc[r] \notin FlushPoints /\ ~Over(r) /\ pc[r] \in AfterFailure
      BY <2>2 DEF FlushPoints, Over, AfterFailure, FailurePoints
    <2>4. /\ pc'[r] = "failFlush" /\ \A q \in Runs : q # r => pc'[q] = pc[q]
      BY <2>2 DEF Types
    <2>5. pc'[r] \notin FollowingPoints
      BY <2>4 DEF FollowingPoints
    <2> QED
      BY <1>2, <2>1, <2>2, <2>3, <2>4, <2>5, DataAppend
  <1>11. CASE FlushStart(r)
    <2>1. /\ pc[r] \in FlushPoints /\ pendingSessionWrites # <<>> /\ ~Over(r)
          /\ writing' = [writing EXCEPT ![r] = Head(pendingSessionWrites)]
          /\ UNCHANGED <<session, pendingSessionWrites, nextWrite, structural,
                         structurals, failures, phase, context, pc>>
      BY <1>11, NotOver DEF FlushStart
    <2>2. /\ writing'[r] = Head(pendingSessionWrites)
          /\ \A q \in Runs : q # r => writing'[q] = writing[q]
      BY <2>1 DEF Types
    <2>3. pc[r] \notin FollowingPoints /\ pc[r] # "results"
      BY <2>1, PointFacts
    <2> QED
      BY <1>2, <2>1, <2>2, <2>3, DataQuiet
  <1>12. CASE FlushDone(r)
    BY <1>12, DataFlushDone
  <1>13. CASE LeaveTurnFlush(r)
    <2>1. /\ writing[r] = NoWrite
          /\ UNCHANGED <<session, pendingSessionWrites, nextWrite, structural,
                         structurals, writing, failures, phase, context>>
          /\ \/ pc[r] \in {"turnFlush", "lastFlush"}
                /\ \E point \in {"refresh", "endFlush"} : pc' = [pc EXCEPT ![r] = point]
             \/ pc[r] \in {"turnRethrow", "failFlush"}
                /\ \E point \in {"failed", "failEndFlush"} : pc' = [pc EXCEPT ![r] = point]
      BY <1>13 DEF LeaveTurnFlush, Flushed
    <2>2. ~Over(r) /\ \A q \in Runs : q # r => pc'[q] = pc[q]
      BY <2>1 DEF Over, Types
    <2>3. /\ pc'[r] \notin FollowingPoints /\ pc'[r] # "results"
      BY <2>1 DEF FollowingPoints, Types
    <2>4. failures = 0 => pc'[r] \notin AfterFailure
      BY <1>2, <2>1 DEF AfterFailure, FailurePoints, Types
    <2> QED
      BY <1>3, <2>1, <2>2, <2>3, <2>4
  <1>14. CASE RefreshContext(r)
    <2>1. /\ writing[r] = NoWrite /\ pc[r] = "refresh" /\ ~Over(r)
          /\ UNCHANGED <<session, pendingSessionWrites, nextWrite, structural,
                         structurals, writing, failures, phase>>
          /\ pc'[r] = "poll" /\ context'[r] = session
          /\ \A q \in Runs : q # r => pc'[q] = pc[q]
      BY <1>14 DEF RefreshContext, Flushed, Types, Over
    <2>2. pc'[r] \notin AfterFailure
      BY <2>1 DEF AfterFailure, FailurePoints
    <2> QED
      BY <1>3, <2>1, <2>2
  <1>15. CASE AgentEnd(r)
    <2>1. /\ writing[r] = NoWrite /\ pendingSessionWrites = <<>>
          /\ UNCHANGED <<session, pendingSessionWrites, nextWrite, structural,
                         structurals, writing, failures>>
          /\ \/ pc[r] = "endFlush" /\ pc'[r] = "settling"
             \/ pc[r] = "failEndFlush" /\ pc'[r] = "settlingFailed"
          /\ \A q \in Runs : q # r => pc'[q] = pc[q]
      BY <1>15 DEF AgentEnd, Flushed, Types
    <2>2. ~Over(r) /\ pc'[r] \notin FollowingPoints /\ pc'[r] # "results"
      BY <2>1 DEF Over, FollowingPoints
    <2>3. failures = 0 => pc'[r] \notin AfterFailure
      BY <1>2, <2>1 DEF AfterFailure, FailurePoints
    <2> QED
      BY <1>3, <2>1, <2>2, <2>3
  <1>16. CASE Settle(r)
    <2>1. /\ pc[r] \in {"settling", "settlingFailed"} /\ ~Over(r)
          /\ UNCHANGED <<session, pendingSessionWrites, nextWrite, structural,
                         structurals, writing, failures, phase>>
          /\ pc'[r] = "tail" /\ \A q \in Runs : q # r => pc'[q] = pc[q]
      BY <1>16 DEF Settle, Types, Over
    <2>2. /\ pc'[r] \notin FollowingPoints /\ pc'[r] # "results" /\ pc'[r] \notin AfterFailure
          /\ pc'[r] \in FlushPoints
      BY <2>1 DEF FollowingPoints, AfterFailure, FailurePoints, FlushPoints
    <2> QED
      BY <1>3, <2>1, <2>2
  <1>17. CASE Finish(r)
    <2>1. /\ pc[r] \in {"tail", "tailReject"} /\ ~Over(r)
          /\ writing[r] = NoWrite /\ pendingSessionWrites = <<>>
          /\ UNCHANGED <<session, pendingSessionWrites, nextWrite, structural,
                         structurals, writing, failures>>
          /\ pc'[r] = "done" /\ \A q \in Runs : q # r => pc'[q] = pc[q]
      BY <1>17 DEF Finish, Flushed, Types, Over
    <2>2. /\ pc'[r] \notin FollowingPoints /\ pc'[r] # "results" /\ pc'[r] \notin AfterFailure
      BY <2>1 DEF FollowingPoints, AfterFailure, FailurePoints
    <2> QED
      BY <1>3, <2>1, <2>2
  <1> QED
    BY <1>4, <1>5, <1>6, <1>7, <1>8, <1>9, <1>10, <1>11, <1>12, <1>13, <1>14, <1>15,
       <1>16, <1>17 DEF RunStep

LEMMA DataRunFails ==
    ASSUME Types, OwnerInv, DataInv, NEW r \in Runs, RunFails(r)
    PROVE  DataInv'
  <1> USE DEF Go
  <1>1. /\ pc[r] \notin FlushPoints => writing[r] = NoWrite
        /\ failures \in Nat
    BY DEF DataInv, FlushInv, Types
  \* A counted failure.
  <1>2. ASSUME ~Over(r), \A q \in Runs : q # r => pc'[q] = pc[q] /\ writing'[q] = writing[q],
               UNCHANGED <<session, pendingSessionWrites, nextWrite, structural, structurals>>,
               failures' = failures + 1, writing'[r] = NoWrite,
               pc'[r] \notin FollowingPoints, pc'[r] # "results"
        PROVE  DataInv'
    <2>1. failures' # 0
      BY <1>1, <1>2
    <2> QED
      BY <1>2, <2>1, DataQuiet
  <1>3. CASE StartFails(r)
    <2>1. /\ pc[r] \in StartPoints /\ pc'[r] = "done" /\ failures' = failures + 1
          /\ \A q \in Runs : q # r => pc'[q] = pc[q]
          /\ UNCHANGED <<session, pendingSessionWrites, nextWrite, structural, structurals,
                         writing>>
      BY <1>3 DEF StartFails, Reject, CountFailure, Types
    <2>2. ~Over(r) /\ pc[r] \notin FlushPoints
      BY <2>1 DEF StartPoints, Over, FlushPoints
    <2>3. pc'[r] \notin FollowingPoints
      BY <2>1 DEF FollowingPoints
    <2> QED
      BY <1>1, <1>2, <2>1, <2>2, <2>3
  <1>4. CASE LoopFails(r)
    <2>1. /\ pc[r] \in LoopPoints \union {"settling"} /\ pc'[r] \in {"failed", "turnRethrow"}
          /\ failures' = failures + 1 /\ writing'[r] = NoWrite
          /\ \A q \in Runs : q # r => pc'[q] = pc[q] /\ writing'[q] = writing[q]
          /\ UNCHANGED <<session, pendingSessionWrites, nextWrite, structural, structurals>>
      BY <1>4 DEF LoopFails, CountFailure, Types
    <2>2. ~Over(r)
      BY <2>1 DEF LoopPoints, Over
    <2>3. pc'[r] \notin FollowingPoints /\ pc'[r] # "results"
      BY <2>1 DEF FollowingPoints
    <2> QED
      BY <1>2, <2>1, <2>2, <2>3
  <1>5. CASE FailureFails(r)
    <2>1. /\ pc[r] \in FailurePoints \union {"settlingFailed"} /\ pc'[r] = "tailReject"
          /\ failures' = failures + 1 /\ writing'[r] = NoWrite
          /\ \A q \in Runs : q # r => pc'[q] = pc[q] /\ writing'[q] = writing[q]
          /\ UNCHANGED <<session, pendingSessionWrites, nextWrite, structural, structurals>>
      BY <1>5 DEF FailureFails, CountFailure, Types
    <2>2. ~Over(r)
      BY <2>1 DEF FailurePoints, Over
    <2>3. pc'[r] \notin FollowingPoints /\ pc'[r] # "results"
      BY <2>1 DEF FollowingPoints
    <2> QED
      BY <1>2, <2>1, <2>2, <2>3
  \* The one failure that is not counted: only a failure leads to "tailReject".
  <1>6. CASE TailFails(r)
    <2>1. /\ pc[r] \in {"tail", "tailReject"} /\ pc'[r] = "done"
          /\ failures' = failures /\ writing'[r] = NoWrite
          /\ \A q \in Runs : q # r => pc'[q] = pc[q] /\ writing'[q] = writing[q]
          /\ UNCHANGED <<session, pendingSessionWrites, nextWrite, structural, structurals>>
      BY <1>6 DEF TailFails, Reject, Types
    <2>2. ~Over(r)
      BY <2>1 DEF Over
    <2>3. pc'[r] \notin FollowingPoints /\ pc'[r] # "results" /\ pc'[r] \notin AfterFailure
      BY <2>1 DEF FollowingPoints, AfterFailure, FailurePoints
    <2>4. failures = 0 => phase = "idle"
      <3>1. CASE pc[r] = "tail"
        BY <3>1, IdleAtTail DEF IdlePoints
      <3>2. CASE pc[r] = "tailReject"
        BY <3>2 DEF DataInv, OrderInv, AfterFailure
      <3> QED
        BY <2>1, <3>1, <3>2
    <2> QED
      BY <2>1, <2>2, <2>3, <2>4, DataQuiet
  <1> QED
    BY <1>3, <1>4, <1>5, <1>6 DEF RunFails

\* At an idle phase no run follows the session or waits for results.
LEMMA IdleFollowsNone ==
    ASSUME OwnerInv, phase # "turn", NEW r \in Runs
    PROVE  pc[r] \notin FollowingPoints /\ pc[r] # "results"
  BY PointFacts DEF OwnerInv, PhaseInv, PhaseGuardsLoop

\* A client's write: to the session when the phase is idle, else to the end of
\* the pending ones.
LEMMA DataRequestWrite ==
    ASSUME Types, OwnerInv, DataInv, RequestWrite
    PROVE  DataInv'
  <1> DEFINE e == WriteEntry(nextWrite)
  <1>1. /\ e \in Write /\ e \in Entry /\ e.kind = "write" /\ e.id = nextWrite
        /\ nextWrite \in Nat \ {0}
        /\ session \in Seq(Entry) /\ pendingSessionWrites \in Seq(Write)
    BY SubEntries DEF Types, Write, WriteEntry
  <1>2. /\ nextWrite' = nextWrite + 1
        /\ UNCHANGED <<phase, pc, context, writing, structural, structurals, failures>>
        /\ \/ /\ phase = "idle" /\ session' = Append(session, e)
              /\ pendingSessionWrites' = pendingSessionWrites
           \/ /\ phase # "idle" /\ session' = session
              /\ pendingSessionWrites' = Append(pendingSessionWrites, e)
    BY DEF RequestWrite
  <1>3. /\ Ids(Append(session, e), "write") = Ids(session, "write") \union {nextWrite}
        /\ Ids(Append(pendingSessionWrites, e), "write")
                = Ids(pendingSessionWrites, "write") \union {nextWrite}
    <2>1. Ids(Append(session, e), "write") = Ids(session, "write")
                \union (IF e.kind = "write" THEN {e.id} ELSE {})
      BY <1>1, IdsOfAppend
    <2>2. Ids(Append(pendingSessionWrites, e), "write") = Ids(pendingSessionWrites, "write")
                \union (IF e.kind = "write" THEN {e.id} ELSE {})
      BY <1>1, IdsOfAppend
    <2> QED
      BY <1>1, <2>1, <2>2
  <1>4. /\ nextWrite \notin Ids(session, "write")
        /\ nextWrite \notin Ids(pendingSessionWrites, "write")
        /\ \A n \in Ids(session, "write") : n < nextWrite
        /\ \A n \in Ids(pendingSessionWrites, "write") : n < nextWrite
    <2>1. \A n \in 1..(nextWrite - 1) : n < nextWrite /\ n # nextWrite
      BY <1>1
    <2>2. Ids(session, "write") \union Ids(pendingSessionWrites, "write") = 1..(nextWrite - 1)
      BY DEF DataInv, LogInv
    <2> QED
      BY <2>1, <2>2
  <1>5. 1..(nextWrite' - 1) = 1..(nextWrite - 1) \union {nextWrite}
    BY <1>1, <1>2
  <1> HIDE DEF e
  <1>6. /\ phase = "idle" => ContextInv' /\ FlushInv'
        /\ phase # "idle" => ContextInv'
    BY <1>2, IdleFollowsNone DEF DataInv, ContextInv, FlushInv
  <1>7. phase # "idle" => FlushInv'
    <2>1. pendingSessionWrites # <<>> =>
                Head(Append(pendingSessionWrites, e)) = Head(pendingSessionWrites)
      BY <1>1
    <2>2. Append(pendingSessionWrites, e) # <<>>
      BY <1>1
    <2> QED
      BY <1>2, <2>1, <2>2 DEF DataInv, FlushInv
  <1>8. LogInv'
    <2>1. /\ Ids(session, "write") \union Ids(pendingSessionWrites, "write")
                    = 1..(nextWrite - 1)
          /\ Ids(session, "write") \intersect Ids(pendingSessionWrites, "write") = {}
          /\ Distinct(session, "write") /\ Distinct(pendingSessionWrites, "write")
      BY DEF DataInv, LogInv
    <2>2. Distinct(Append(session, e), "write")
      BY <1>1, <1>4, <2>1, DistinctAppend
    <2>3. Distinct(Append(pendingSessionWrites, e), "write")
      BY <1>1, <1>4, <2>1, DistinctAppend
    <2>4. CASE phase = "idle"
      BY <1>2, <1>3, <1>4, <1>5, <2>1, <2>2, <2>4 DEF LogInv
    <2>5. CASE phase # "idle"
      BY <1>2, <1>3, <1>4, <1>5, <2>1, <2>3, <2>5 DEF LogInv
    <2> QED
      BY <2>4, <2>5
  <1>9. ResultInv'
    <2>1. CASE phase = "idle"
      <3>1. \A q \in Runs : pc'[q] # "results"
        BY <1>2, <2>1, IdleFollowsNone
      <3>2. \A i \in 2..Len(session) :
                session[i].kind = "result" => session[i - 1].kind = "reply"
        BY DEF DataInv, ResultInv, WritesAtSavePoints
      <3>3. e.kind # "result"
        BY <1>1
      <3>4. \A i \in 2..Len(Append(session, e)) :
                Append(session, e)[i].kind = "result" => Append(session, e)[i - 1].kind = "reply"
        BY <1>1, <3>2, <3>3, LastOfAppend
      <3>5. session' = Append(session, e)
        BY <1>2, <2>1
      <3> QED
        BY <3>1, <3>4, <3>5 DEF ResultInv, WritesAtSavePoints
    <2>2. CASE phase # "idle"
      BY <1>2, <2>2 DEF DataInv, ResultInv, WritesAtSavePoints
    <2> QED
      BY <2>1, <2>2
  <1>10. OrderInv'
    <2>1. /\ failures = 0 => \A q \in Runs : pc[q] \notin AfterFailure
          /\ structurals = 0 => ~structural
      BY DEF DataInv, OrderInv
    <2>2. ASSUME failures = 0, structurals = 0
          PROVE  /\ phase = "idle" => pendingSessionWrites' = <<>>
                 /\ Sorted(session') /\ Sorted(pendingSessionWrites')
                 /\ \A v \in Ids(session', "write"), w \in Ids(pendingSessionWrites', "write") :
                        v < w
      <3>1. /\ phase = "idle" => pendingSessionWrites = <<>>
            /\ Sorted(session) /\ Sorted(pendingSessionWrites)
            /\ \A v \in Ids(session, "write"), w \in Ids(pendingSessionWrites, "write") : v < w
        BY <2>2 DEF DataInv, OrderInv
      <3>2. Sorted(Append(session, e)) /\ Sorted(Append(pendingSessionWrites, e))
        BY <1>1, <1>4, <3>1, SortedAppend
      <3>3. CASE phase = "idle"
        <4>1. Ids(pendingSessionWrites', "write") = {}
          BY <1>2, <3>1, <3>3, IdsOfEmpty
        <4> QED
          BY <1>2, <3>1, <3>2, <3>3, <4>1
      <3>4. CASE phase # "idle"
        BY <1>2, <1>3, <1>4, <3>1, <3>2, <3>4
      <3> QED
        BY <3>3, <3>4
    <2> QED
      BY <1>2, <2>1, <2>2 DEF OrderInv
  <1> QED
    BY <1>6, <1>7, <1>8, <1>9, <1>10 DEF DataInv

\* A call that leaves the entries and the runs alone.
LEMMA DataStays ==
    ASSUME DataInv, UNCHANGED <<session, pendingSessionWrites, pc, context, writing,
                                nextWrite, phase, structural, structurals, failures>>
    PROVE  DataInv'
  BY DEF DataInv, ContextInv, FlushInv, LogInv, ResultInv, WritesAtSavePoints, OrderInv

\* The end of compact() or navigateTree() may append an entry.
LEMMA DataEndStructural ==
    ASSUME Types, OwnerInv, DataInv, EndStructural
    PROVE  DataInv'
  <1> DEFINE e == StructureEntry
  <1>1. /\ e \in Entry /\ e.kind = "structure" /\ session \in Seq(Entry)
    BY DEF Types, Entry, StructureEntry
  <1>2. /\ structural /\ structural' = FALSE /\ phase' = "idle"
        /\ session' = session \/ session' = Append(session, e)
        /\ UNCHANGED <<pendingSessionWrites, pc, context, writing, nextWrite, structurals,
                       failures>>
    BY DEF EndStructural
  <1>3. \A q \in Runs : pc[q] \notin FollowingPoints /\ pc[q] # "results"
                        /\ pc[q] \notin AfterFailure
    BY <1>2, OverIsNowhere DEF OwnerInv, SoleInv
  <1>4. structurals # 0
    BY <1>2 DEF DataInv, OrderInv
  <1> HIDE DEF e
  <1>5. Ids(session', "write") = Ids(session, "write") /\ Distinct(session', "write")
    <2>1. Distinct(session, "write")
      BY DEF DataInv, LogInv
    <2>2. Ids(Append(session, e), "write") = Ids(session, "write")
      <3>1. e \in Entry /\ session \in Seq(Entry)
        BY <1>1
      <3>2. Ids(Append(session, e), "write") = Ids(session, "write")
                \union (IF e.kind = "write" THEN {e.id} ELSE {})
        BY <3>1, IdsOfAppend
      <3> QED
        BY <1>1, <3>2
    <2>3. Distinct(Append(session, e), "write")
      BY <1>1, <2>1, DistinctAppend
    <2> QED
      BY <1>1, <1>2, <2>1, <2>2, <2>3
  <1>6. \A i \in 2..Len(session') :
            session'[i].kind = "result" => session'[i - 1].kind = "reply"
    <2>1. \A i \in 2..Len(session) :
              session[i].kind = "result" => session[i - 1].kind = "reply"
      BY DEF DataInv, ResultInv, WritesAtSavePoints
    <2>2. e.kind # "result"
      BY <1>1
    <2>3. \A i \in 2..Len(Append(session, e)) :
              Append(session, e)[i].kind = "result" => Append(session, e)[i - 1].kind = "reply"
      BY <1>1, <2>1, <2>2, LastOfAppend
    <2> QED
      BY <1>2, <2>1, <2>3
  <1>7. ContextInv' /\ FlushInv'
    BY <1>2, <1>3 DEF DataInv, ContextInv, FlushInv
  <1>8. LogInv'
    BY <1>2, <1>5 DEF DataInv, LogInv
  <1>9. ResultInv'
    BY <1>2, <1>3, <1>6 DEF ResultInv, WritesAtSavePoints
  <1>10. OrderInv'
    BY <1>2, <1>3, <1>4 DEF OrderInv
  <1> QED
    BY <1>7, <1>8, <1>9, <1>10 DEF DataInv

LEMMA DataClient ==
    ASSUME Types, OwnerInv, DataInv, ClientCall \/ EndStructural
    PROVE  DataInv'
  <1>1. CASE Enqueue
    <2>1. UNCHANGED <<session, pendingSessionWrites, pc, context, writing,
                      nextWrite, phase, structural, structurals, failures>>
      BY <1>1 DEF Enqueue
    <2> QED
      BY <2>1, DataStays
  <1>2. CASE RequestWrite
    BY <1>2, DataRequestWrite
  <1>3. CASE Abort
    <2>1. UNCHANGED <<session, pendingSessionWrites, pc, context, writing,
                      nextWrite, phase, structural, structurals, failures>>
      BY <1>3 DEF Abort
    <2> QED
      BY <2>1, DataStays
  <1>4. CASE StartStructural
    <2>1. /\ structurals' = structurals + 1 /\ structurals \in Nat
          /\ UNCHANGED <<session, pendingSessionWrites, pc, context, writing, nextWrite,
                         failures>>
      BY <1>4 DEF StartStructural, Types
    <2>2. structurals' # 0
      BY <2>1
    <2>3. ContextInv' /\ FlushInv' /\ LogInv' /\ ResultInv'
      BY <2>1 DEF DataInv, ContextInv, FlushInv, LogInv, ResultInv, WritesAtSavePoints
    <2>4. OrderInv'
      BY <2>1, <2>2 DEF DataInv, OrderInv
    <2> QED
      BY <2>3, <2>4 DEF DataInv
  <1>5. CASE EndStructural
    BY <1>5, DataEndStructural
  <1> QED
    BY <1>1, <1>2, <1>3, <1>4, <1>5 DEF ClientCall

LEMMA DataInit == Init => DataInv
  <1> SUFFICES ASSUME Init  PROVE  DataInv
    OBVIOUS
  <1>1. /\ session = <<>> /\ pendingSessionWrites = <<>> /\ nextWrite = 1
        /\ \A r \in Runs : pc[r] = "unused" /\ writing[r] = NoWrite
        /\ ~structural
    BY DEF Init
  <1>2. \A r \in Runs : pc[r] \notin FollowingPoints /\ pc[r] # "results"
                        /\ pc[r] \notin AfterFailure
    BY <1>1 DEF FollowingPoints, AfterFailure, FailurePoints
  <1>3. Len(session) = 0 /\ DOMAIN session = {}
    BY <1>1
  <1>4. Ids(session, "write") = {} /\ Ids(pendingSessionWrites, "write") = {}
    BY <1>1, IdsOfEmpty
  <1>5. ContextInv /\ FlushInv
    BY <1>1, <1>2 DEF ContextInv, FlushInv
  <1>6. LogInv
    <2>1. 1..(nextWrite - 1) = {}
      BY <1>1
    <2>2. Distinct(session, "write") /\ Distinct(pendingSessionWrites, "write")
      BY <1>1, <1>3 DEF Distinct
    <2> QED
      BY <1>4, <2>1, <2>2 DEF LogInv
  <1>7. ResultInv
    BY <1>2, <1>3 DEF ResultInv, WritesAtSavePoints
  <1>8. OrderInv
    <2>1. Sorted(session) /\ Sorted(pendingSessionWrites)
      BY <1>1, <1>3 DEF Sorted
    <2> QED
      BY <1>1, <1>2, <1>4, <2>1 DEF OrderInv
  <1> QED
    BY <1>5, <1>6, <1>7, <1>8 DEF DataInv

-----------------------------------------------------------------------------
\* The invariant, and what it says

LEMMA HarnessStep ==
    ASSUME HarnessInv, [Next]_vars
    PROVE  HarnessInv'
  <1>1. Types /\ QueueInv
    BY DEF HarnessInv
  <1>2. CASE UNCHANGED vars
    <2>1. Types'
      BY <1>1, <1>2 DEF Types
    <2>2. QueueInv'
      BY <1>1, <1>2, QueueUntouched
    <2>3. ~EarlyPrompts => OwnerInv' /\ DataInv'
      BY <1>2, OwnerStays, DataStays DEF HarnessInv, ownerVars
    <2> QED
      BY <2>1, <2>2, <2>3 DEF HarnessInv
  <1>3. ASSUME NEW r \in Runs, Prompt(r) \/ RunStep(r) \/ RunFails(r)
        PROVE  HarnessInv'
    <2>1. Types' /\ QueueInv'
      BY <1>1, <1>3, TypesRun, QueueRun
    <2>2. ASSUME ~EarlyPrompts
          PROVE  OwnerInv' /\ DataInv'
      <3>1. OwnerInv /\ DataInv
        BY <2>2 DEF HarnessInv
      <3>2. CASE Prompt(r)
        BY <1>1, <2>2, <3>1, <3>2, OwnerPrompt, DataPrompt
      <3>3. CASE RunStep(r)
        BY <1>1, <2>2, <3>1, <3>3, OwnerRunStep, DataRunStep
      <3>4. CASE RunFails(r)
        BY <1>1, <2>2, <3>1, <3>4, OwnerRunFails, DataRunFails
      <3> QED
        BY <1>3, <3>2, <3>3, <3>4
    <2> QED
      BY <2>1, <2>2 DEF HarnessInv
  <1>4. CASE ClientCall \/ EndStructural
    <2>1. Types' /\ QueueInv'
      BY <1>1, <1>4, TypesClient, QueueClient
    <2>2. ASSUME ~EarlyPrompts
          PROVE  OwnerInv' /\ DataInv'
      <3>1. OwnerInv /\ DataInv
        BY <2>2 DEF HarnessInv
      <3> QED
        BY <1>1, <1>4, <2>2, <3>1, OwnerClient, DataClient
    <2> QED
      BY <2>1, <2>2 DEF HarnessInv
  <1> QED
    BY <1>2, <1>3, <1>4 DEF Next

LEMMA HarnessInvariant == Spec => []HarnessInv
  <1>1. Init => HarnessInv
    BY TypesInit, QueueInit, OwnerInit, DataInit DEF HarnessInv
  <1>2. HarnessInv /\ [Next]_vars => HarnessInv'
    BY HarnessStep
  <1> QED
    BY <1>1, <1>2, PTL DEF Spec

\* A queued message is in one place: its queue, one run's hands, the session,
\* or among those an abort or a failed run dropped.  Whatever clients do, and
\* however many runs overlap (steer, followUp, nextTurn, abort and the polls of
\* executeTurn).
THEOREM QueuedInOnePlace == Spec => []QueuedAccountedFor
  <1>1. HarnessInv => QueuedAccountedFor
    BY PlacesTellAll DEF HarnessInv
  <1> QED
    BY <1>1, HarnessInvariant, PTL

\* The phase is taken while a run's loop may be under way, and the harness is
\* idle and holds no controller and no promise when every operation is over,
\* however it ended.
THEOREM PhaseFollows == ~EarlyPrompts => (Spec => []PhaseFollowsRuns)
  <1> SUFFICES ASSUME ~EarlyPrompts  PROVE  Spec => []PhaseFollowsRuns
    OBVIOUS
  <1>1. ASSUME HarnessInv  PROVE  PhaseFollowsRuns
    <2>1. Types /\ OwnerInv
      BY <1>1 DEF HarnessInv
    <2>2. ReleasedWhenOver
      BY <2>1 DEF ReleasedWhenOver, AllOver, OwnerInv, PhaseInv, FieldInv, Types
    <2> QED
      BY <2>1, <2>2, TypesImplyTypeOK DEF PhaseFollowsRuns, OwnerInv, PhaseInv
  <1> QED
    BY <1>1, HarnessInvariant, PTL

\* What a request sends is what the session holds.
THEOREM RequestsSendSession == ~EarlyPrompts => (Spec => []ContextIsSession)
  <1> SUFFICES ASSUME ~EarlyPrompts  PROVE  Spec => []ContextIsSession
    OBVIOUS
  <1>1. ASSUME HarnessInv  PROVE  ContextIsSession
    BY <1>1 DEF HarnessInv, DataInv, ContextInv, ContextIsSession, FollowingPoints
  <1> QED
    BY <1>1, HarnessInvariant, PTL

\* Every client write is persisted or pending, once, whatever fails.
THEOREM WritesSurvive == ~EarlyPrompts => (Spec => []NoWriteLost)
  <1> SUFFICES ASSUME ~EarlyPrompts  PROVE  Spec => []NoWriteLost
    OBVIOUS
  <1>1. ASSUME HarnessInv  PROVE  NoWriteLost
    <2>1. /\ session \in Seq(Entry) /\ pendingSessionWrites \in Seq(Entry)
      BY <1>1, ListTypes DEF HarnessInv, Types
    <2>2. LogInv
      BY <1>1 DEF HarnessInv, DataInv
    <2>3. Ids(Log, "write") = Ids(session, "write") \union Ids(pendingSessionWrites, "write")
      BY <2>1, IdsOfConcat DEF Log
    <2>4. Distinct(Log, "write")
      BY <2>1, <2>2, DistinctConcat DEF Log, LogInv
    <2> QED
      BY <2>2, <2>3, <2>4 DEF NoWriteLost, LogInv, Distinct
  <1> QED
    BY <1>1, HarnessInvariant, PTL

\* Deferred writes are persisted in the order of the requests, never between a
\* reply and the results of its tools, and before the harness is idle.
THEOREM WritesDeferred == ~EarlyPrompts => (Spec => []DeferredWrites)
  <1> SUFFICES ASSUME ~EarlyPrompts  PROVE  Spec => []DeferredWrites
    OBVIOUS
  <1>1. ASSUME HarnessInv  PROVE  DeferredWrites
    <2>1. /\ Types /\ OwnerInv /\ DataInv
          /\ session \in Seq(Entry) /\ pendingSessionWrites \in Seq(Entry)
      BY <1>1, ListTypes DEF HarnessInv, Types
    <2>2. WritesInOrder
      <3>1. SUFFICES ASSUME failures = 0, structurals = 0,
                            NEW i \in DOMAIN Log, NEW j \in DOMAIN Log, i < j,
                            Log[i].kind = "write", Log[j].kind = "write"
                     PROVE  Log[i].id < Log[j].id
        BY DEF WritesInOrder
      <3> DEFINE s == session
                 t == pendingSessionWrites
                 u == Log
      <3>2. /\ Len(s) \in Nat /\ Len(t) \in Nat
            /\ DOMAIN s = 1..Len(s) /\ DOMAIN t = 1..Len(t)
            /\ DOMAIN u = 1..(Len(s) + Len(t))
            /\ \A k \in 1..Len(s) : u[k] = s[k]
            /\ \A k \in 1..Len(t) : u[Len(s) + k] = t[k]
        BY <2>1, ConcatIs DEF Log
      <3>3. /\ Sorted(s) /\ Sorted(t)
            /\ \A v \in Ids(s, "write"), w \in Ids(t, "write") : v < w
        BY <2>1, <3>1 DEF DataInv, OrderInv
      <3> HIDE DEF s, t, u
      <3>4. ASSUME NEW k \in DOMAIN u, k > Len(s)
            PROVE  k - Len(s) \in DOMAIN t /\ u[k] = t[k - Len(s)]
        <4>1. k - Len(s) \in 1..Len(t) /\ Len(s) + (k - Len(s)) = k
          BY <3>2, <3>4
        <4> QED
          BY <3>2, <4>1
      <3>5. i \in DOMAIN u /\ j \in DOMAIN u /\ i \in Nat /\ j \in Nat
            /\ u[i].kind = "write" /\ u[j].kind = "write"
        BY <3>1, <3>2 DEF u
      <3>6. CASE j <= Len(s)
        <4>1. i \in DOMAIN s /\ j \in DOMAIN s /\ u[i] = s[i] /\ u[j] = s[j]
          BY <3>1, <3>2, <3>5, <3>6
        <4> QED
          BY <3>1, <3>3, <3>5, <4>1 DEF Sorted, u
      <3>7. CASE i <= Len(s) /\ j > Len(s)
        <4>1. i \in DOMAIN s /\ u[i] = s[i]
          BY <3>2, <3>5, <3>7
        <4>2. j - Len(s) \in DOMAIN t /\ u[j] = t[j - Len(s)]
          BY <3>4, <3>5, <3>7
        <4>3. u[i].id \in Ids(s, "write") /\ u[j].id \in Ids(t, "write")
          BY <3>5, <4>1, <4>2, IdsAre
        <4> QED
          BY <3>3, <4>3 DEF u
      <3>8. CASE i > Len(s)
        <4>1. /\ i - Len(s) \in DOMAIN t /\ u[i] = t[i - Len(s)]
              /\ j - Len(s) \in DOMAIN t /\ u[j] = t[j - Len(s)]
              /\ i - Len(s) < j - Len(s)
          <5>1. j > Len(s) /\ i - Len(s) < j - Len(s)
            BY <3>1, <3>2, <3>5, <3>8
          <5> QED
            BY <3>4, <3>5, <3>8, <5>1
        <4> QED
          BY <3>3, <3>5, <4>1 DEF Sorted, u
      <3> QED
        BY <3>2, <3>5, <3>6, <3>7, <3>8
    <2>3. WritesAtSavePoints
      BY <2>1 DEF DataInv, ResultInv
    <2>4. SettledIsFlushed
      BY <2>1 DEF SettledIsFlushed, AllOver, DataInv, OrderInv, OwnerInv, PhaseInv, Types
    <2> QED
      BY <2>2, <2>3, <2>4 DEF DeferredWrites
  <1> QED
    BY <1>1, HarnessInvariant, PTL
=============================================================================
