--------------------------- MODULE RpcModeProofs ----------------------------
(***************************************************************************)
(* Proofs about RpcMode: every command is answered once, and the tabs      *)
(* agree with the sessions whenever no commands overlap, for any number    *)
(* of commands, tabs and sessions.                                         *)
(*                                                                         *)
(* The answers need to know where a command is (AnswerInv): each sent id   *)
(* is in one place, unread in the pipe, in a handler that waits, or        *)
(* answered.  That new ids stay in their sets is a count: a session and a  *)
(* tab are made on behalf of a command, and once (CountInv).  TabsAgree    *)
(* says nothing while a command changes tabs, so the induction has the     *)
(* tabs in the middle of each command (TabInv): what is not subscribed,    *)
(* which session is disposed and still shown, and which tab is to come.    *)
(***************************************************************************)
EXTENDS RpcMode, FiniteSetTheorems, TLAPS

USE DEF vars, clientVars, outside, tabVars, makeVars, dialogVars, runVars, None

WorkRecord == [at : Awaits, tab : MaybeTab, object : MaybeObject,
               wasActive : BOOLEAN, run : Requests \union {None},
               stage : Stages \union {"none"}]
RunRecord == [at : Stages \union {"none", "resumed", "over"}, object : MaybeObject]
Lines == Command \union {DialogAnswer(r) : r \in Requests}

-----------------------------------------------------------------------------
\* The inductive invariant

ChangeSteps == {"creating", "closing", "leaving", "replacing", "forking"}
Changes(r) == work[r].at \in ChangeSteps
Unread(r) == \E i \in DOMAIN inbox : inbox[i].id = r /\ inbox[i].kind \in Kinds
Shown == Range(tabs)

\* Nothing is known of a command that was not sent.
SendInv ==
    \A r \in Requests : r > requestId =>
        /\ answers[r] = 0 /\ promise[r] = "unsent" /\ work[r] = NoWork
        /\ r \notin pendingRequests

PromiseInv ==
    \A r \in Requests :
        /\ answers[r] \in 0..1
        /\ promise[r] = "answered" => answers[r] = 1
        /\ r \in outbox => answers[r] = 1
        /\ started => (r \in pendingRequests <=> promise[r] = "waiting")

\* A command is in the pipe once.
InboxInv ==
    /\ \A i \in DOMAIN inbox : inbox[i].kind \in Kinds => inbox[i].id \in 1..requestId
    /\ \A i, j \in DOMAIN inbox :
            /\ inbox[i].kind \in Kinds /\ inbox[j].kind \in Kinds
            /\ inbox[i].id = inbox[j].id
            => i = j

HandlerInv ==
    /\ \A r \in Requests : Unread(r) => work[r].at = "none"
    /\ \A r \in Requests : r <= requestId /\ up =>
            (answers[r] = 0 <=> Unread(r) \/ work[r].at # "none")
    /\ ~up => inbox = <<>> /\ \A r \in Requests : work[r] = NoWork

AnswerInv == SendInv /\ PromiseInv /\ InboxInv /\ HandlerInv

Answered == {r \in Requests : answers[r] = 1}
Creating == {r \in Requests : work[r].at = "creating"}

\* A command makes at most one session, with its answer, and opens one tab.
CountInv ==
    /\ made <= 1 + Cardinality(Answered)
    /\ sessionCounter <= 1 + Cardinality(Answered \union Creating)

\* The tabs whose events nobody hears, and the session that is disposed while
\* its tab still shows it.
Detached(t) == \E r \in Requests : work[r].at \in {"closing", "forking"} /\ work[r].tab = t
Gone(o) ==
    \E r \in Requests : \/ work[r].at = "forking" /\ o = sessions[work[r].tab]
                        \/ work[r].at = "replacing" /\ o = hostSession

MapInv ==
    /\ \A i, j \in DOMAIN tabs : tabs[i] = tabs[j] => i = j
    /\ \A t \in Tabs : sessions[t] # None <=> t \in Shown
    /\ activeSessionId \in Shown
    /\ \A s, t \in Shown : sessions[s] = sessions[t] => s = t
    /\ \A t \in Tabs : sessionSubscriptions[t] = IF Detached(t) THEN None ELSE sessions[t]

LiveInv ==
    /\ \A t \in Shown : sessions[t] <= made
    /\ hostSession <= made
    /\ \A o \in disposed : o <= made
    /\ \A o \in 1..made :
          o \notin disposed <=> (\E t \in Shown : sessions[t] = o) /\ ~Gone(o)

\* One command at a time, and what each of them relies on.
StepInv ==
    /\ \A r, q \in Requests : Changes(r) /\ Changes(q) => r = q
    /\ \A r \in Requests : work[r].at = "creating" =>
            work[r].tab \in Tabs \ Shown /\ work[r].tab <= sessionCounter
    /\ \A r \in Requests : work[r].at = "closing" =>
            /\ work[r].tab \in Shown /\ work[r].object = sessions[work[r].tab]
            /\ Len(tabs) > 1
            /\ work[r].wasActive <=> activeSessionId = work[r].tab
    /\ \A r \in Requests : work[r].at = "forking" => work[r].tab \in Shown
    /\ \A t \in Shown : t <= sessionCounter

TabInv == up /\ ~disturbed => MapInv /\ LiveInv /\ StepInv

\* What a command that waits has in hand, also when commands overlap.
WorkInv ==
    \A r \in Requests :
        /\ work[r].at \in {"creating", "closing", "forking"} => work[r].tab \in Tabs
        /\ work[r].at = "closing" => work[r].object \in Objects

RpcInv == TypeOK /\ AnswerInv /\ CountInv /\ WorkInv /\ TabInv

-----------------------------------------------------------------------------
\* Types, in the groups that the actions change

ClientTypes ==
    /\ requestId \in 0..MaxRequests
    /\ pendingRequests \subseteq Requests
    /\ promise \in [Requests -> Promises]
FlagTypes == started \in BOOLEAN /\ up \in BOOLEAN /\ disturbed \in BOOLEAN
HandlerTypes ==
    /\ inbox \in Seq(Lines)
    /\ outbox \subseteq Requests
    /\ work \in [Requests -> WorkRecord]
    /\ answers \in [Requests -> Nat]
TabTypes ==
    /\ tabs \in Seq(Tabs)
    /\ sessions \in [Tabs -> MaybeObject]
    /\ sessionSubscriptions \in [Tabs -> MaybeObject]
    /\ activeSessionId \in MaybeTab
    /\ hostSession \in Objects
    /\ disposed \subseteq Objects
NumberTypes == sessionCounter \in Tabs /\ made \in Objects
RunTypes ==
    /\ runs \in [Requests -> RunRecord]
    /\ dialogs \in [Requests -> {"none", "shown", "answered"}]
    /\ pendingExtensionRequests \in [Requests -> {"none", "permission", "dialog"}]
    /\ aborted \subseteq Requests

Types == ClientTypes /\ FlagTypes /\ HandlerTypes /\ TabTypes /\ NumberTypes /\ RunTypes

LEMMA TypesAre == TypeOK <=> Types
BY Zenon DEF TypeOK, Types, ClientTypes, FlagTypes, HandlerTypes, TabTypes, NumberTypes,
             RunTypes, WorkRecord, RunRecord, Lines

LEMMA TypesArePrimed == TypeOK' <=> Types'
BY Zenon DEF TypeOK, Types, ClientTypes, FlagTypes, HandlerTypes, TabTypes, NumberTypes,
             RunTypes, WorkRecord, RunRecord, Lines

\* What every proof below needs of the constants.
LEMMA Numbers ==
    /\ MaxRequests \in Nat
    /\ Tabs = 1..(MaxRequests + 1) /\ Objects = 1..(MaxRequests + 1)
    /\ Requests = 1..MaxRequests /\ 0 \notin Tabs /\ 0 \notin Objects /\ 0 \notin Requests
    /\ 1 \in Tabs /\ 1 \in Objects
    /\ NoWork \in WorkRecord /\ NoWork.at = "none" /\ NoRun \in RunRecord
    /\ IsFiniteSet(Requests) /\ Cardinality(Requests) = MaxRequests
<1>1. MaxRequests \in Nat  BY RpcAssumption
<1>2. IsFiniteSet(1..MaxRequests) /\ Cardinality(1..MaxRequests) = MaxRequests
  BY <1>1, FS_Interval
<1>3. NoWork \in WorkRecord /\ NoWork.at = "none"
  BY DEF NoWork, WorkRecord, Awaits, MaybeTab, MaybeObject
<1>4. NoRun \in RunRecord  BY DEF NoRun, RunRecord, MaybeObject
<1> QED  BY <1>1, <1>2, <1>3, <1>4 DEF Tabs, Objects, Requests

LEMMA InitHolds == Init => RpcInv
<1> SUFFICES ASSUME Init PROVE RpcInv  OBVIOUS
<1>1. /\ started = TRUE /\ up = TRUE /\ disturbed = FALSE
      /\ requestId = 0 /\ pendingRequests = {} /\ outbox = {} /\ inbox = <<>>
      /\ promise = [r \in Requests |-> "unsent"] /\ answers = [r \in Requests |-> 0]
      /\ tabs = <<1>> /\ activeSessionId = 1 /\ sessionCounter = 1 /\ made = 1
      /\ sessions = FirstTab(1) /\ sessionSubscriptions = FirstTab(1)
      /\ hostSession = 1 /\ disposed = {} /\ aborted = {}
      /\ work = [r \in Requests |-> NoWork] /\ runs = [r \in Requests |-> NoRun]
      /\ dialogs = [r \in Requests |-> "none"]
      /\ pendingExtensionRequests = [r \in Requests |-> "none"]
  BY DEF Init
<1>2. FirstTab(1) \in [Tabs -> MaybeObject] /\ FirstTab(1)[1] = 1
      /\ \A t \in Tabs : FirstTab(1)[t] = 1 <=> t = 1
  BY Numbers DEF FirstTab, MaybeObject
<1>3. /\ \A r \in Requests : work[r] = NoWork /\ answers[r] = 0 /\ promise[r] = "unsent"
      /\ DOMAIN inbox = {} /\ DOMAIN tabs = {1} /\ tabs[1] = 1
  BY <1>1
<1>4. Types
  <2>1. ClientTypes  BY <1>1, Numbers DEF ClientTypes, Promises
  <2>2. FlagTypes  BY <1>1 DEF FlagTypes
  <2>3. HandlerTypes  BY <1>1, Numbers DEF HandlerTypes
  <2>4. TabTypes  BY <1>1, <1>2, Numbers DEF TabTypes, MaybeTab
  <2>5. NumberTypes  BY <1>1, Numbers DEF NumberTypes
  <2>6. RunTypes  BY <1>1, Numbers DEF RunTypes
  <2> QED  BY <2>1, <2>2, <2>3, <2>4, <2>5, <2>6 DEF Types
<1>5. AnswerInv
  BY <1>1, <1>3, Numbers DEF AnswerInv, SendInv, PromiseInv, InboxInv, HandlerInv, Unread
<1>6. CountInv
  <2>1. Answered = {} /\ Creating = {}
    BY <1>3, Numbers DEF Answered, Creating
  <2> QED  BY <1>1, <2>1, FS_EmptySet DEF CountInv
<1>7. TabInv
  <2>1. Shown = {1}  BY <1>1, <1>3 DEF Shown, Range
  <2>2. \A r \in Requests : work[r].at = "none"  BY <1>3, Numbers
  <2>3. MapInv
    BY <1>1, <1>2, <1>3, <2>1, <2>2, Numbers DEF MapInv, Detached, FirstTab
  <2>4. LiveInv
    BY <1>1, <1>2, <2>1, <2>2, Numbers DEF LiveInv, Gone
  <2>5. StepInv
    BY <1>1, <1>2, <2>1, <2>2, Numbers DEF StepInv, Changes, ChangeSteps
  <2> QED  BY <2>3, <2>4, <2>5 DEF TabInv
<1>8. WorkInv  BY <1>3, Numbers DEF WorkInv
<1> QED  BY <1>4, <1>5, <1>6, <1>7, <1>8, TypesAre DEF RpcInv

-----------------------------------------------------------------------------
\* The answers and the numbers.  A step of the process is one of six kinds for
\* them, whatever it does to tabs, sessions and runs.

AnswerSide == ClientTypes /\ HandlerTypes /\ NumberTypes /\ AnswerInv /\ CountInv

AnswersAtOnce(c) ==
    /\ up /\ c \in Heads /\ c.kind \in Kinds /\ inbox' = Tail(inbox)
    /\ Answer(c.id)
    /\ UNCHANGED <<outside, work, makeVars>>

StartsWork(c, w) ==
    /\ up /\ c \in Heads /\ c.kind \in Kinds /\ inbox' = Tail(inbox)
    /\ w \in WorkRecord /\ w.at # "none" /\ Await(c.id, w)
    /\ sessionCounter' = IF w.at = "creating" THEN sessionCounter + 1 ELSE sessionCounter
    /\ UNCHANGED <<outside, made>>

EndsWork(r) ==
    /\ up /\ work[r].at # "none"
    /\ Done(r)
    /\ made' \in {made, made + 1}
    /\ \/ sessionCounter' = sessionCounter
       \/ work[r].at # "creating" /\ sessionCounter' = sessionCounter + 1
    /\ UNCHANGED <<outside, inbox>>

GoesOn(r, w) ==
    /\ up /\ work[r].at \notin {"none", "creating"}
    /\ w \in WorkRecord /\ w.at \notin {"none", "creating"} /\ Await(r, w)
    /\ UNCHANGED <<outside, inbox, makeVars>>

ReadsDialog(c) ==
    /\ up /\ c \in Heads /\ c.kind \notin Kinds /\ inbox' = Tail(inbox)
    /\ UNCHANGED <<outside, outbox, work, answers, makeVars>>

Aside == UNCHANGED <<outside, inbox, outbox, work, answers, makeVars>>

LEMMA SideTypes ==
    ASSUME RpcInv
    PROVE  /\ AnswerSide /\ TabTypes /\ FlagTypes /\ RunTypes /\ WorkInv /\ TabInv
           /\ requestId \in 0..MaxRequests /\ pendingRequests \subseteq Requests
           /\ promise \in [Requests -> Promises]
           /\ inbox \in Seq(Lines) /\ outbox \subseteq Requests
           /\ work \in [Requests -> WorkRecord] /\ answers \in [Requests -> Nat]
           /\ sessionCounter \in Tabs /\ made \in Objects
BY TypesAre DEF RpcInv, Types, AnswerSide, ClientTypes, HandlerTypes, NumberTypes

\* The command that is read, and what is left in the pipe.
LEMMA HeadOfPipe ==
    ASSUME RpcInv, NEW c \in Heads
    PROVE  /\ c = inbox[1] /\ 1 \in DOMAIN inbox /\ c \in Lines /\ c.id \in Requests
           /\ c.kind \in Kinds => c \in Command
           /\ Tail(inbox) \in Seq(Lines)
           /\ \A i \in DOMAIN Tail(inbox) : /\ i + 1 \in DOMAIN inbox
                                            /\ Tail(inbox)[i] = inbox[i + 1]
           /\ \A i \in DOMAIN inbox : i # 1 => /\ i - 1 \in DOMAIN Tail(inbox)
                                               /\ Tail(inbox)[i - 1] = inbox[i]
           /\ DOMAIN inbox \subseteq Nat /\ DOMAIN Tail(inbox) \subseteq Nat
<1>1. inbox \in Seq(Lines) /\ inbox # <<>> /\ c = Head(inbox)
  BY SideTypes DEF Heads
<1>2. /\ Len(inbox) \in Nat \ {0} /\ DOMAIN inbox = 1..Len(inbox) /\ c = inbox[1]
      /\ Tail(inbox) \in Seq(Lines) /\ Len(Tail(inbox)) = Len(inbox) - 1
      /\ DOMAIN Tail(inbox) = 1..(Len(inbox) - 1)
      /\ \A i \in 1..(Len(inbox) - 1) : Tail(inbox)[i] = inbox[i + 1]
  BY <1>1
<1>3. c \in Lines  BY <1>1, <1>2
<1>4. c.id \in Requests /\ (c.kind \in Kinds => c \in Command)
  BY <1>3 DEF Lines, Command, DialogAnswer, Kinds, Structural
<1> QED  BY <1>2, <1>3, <1>4

\* When a command is read, no other line in the pipe has its id.
LEMMA ReadOnce ==
    ASSUME RpcInv, NEW c \in Heads, inbox' = Tail(inbox), requestId' = requestId
    PROVE  /\ InboxInv'
           /\ c.kind \in Kinds =>
                /\ Unread(c.id) /\ ~Unread(c.id)' /\ c.id \in 1..requestId
                /\ \A r \in Requests : r # c.id => (Unread(r)' <=> Unread(r))
           /\ c.kind \notin Kinds => \A r \in Requests : Unread(r)' <=> Unread(r)
<1>1. InboxInv  BY DEF RpcInv, AnswerInv
<1>2. InboxInv'
  <2>1. \A i, j \in DOMAIN inbox' : i + 1 = j + 1 => i = j  BY HeadOfPipe
  <2> QED  BY <1>1, <2>1, HeadOfPipe DEF InboxInv
<1>3. \A r \in Requests : Unread(r)' => Unread(r)
  BY HeadOfPipe DEF Unread
<1>4. ASSUME NEW r \in Requests, Unread(r), ~(c.kind \in Kinds /\ c.id = r)
      PROVE  Unread(r)'
  <2>1. PICK i \in DOMAIN inbox : inbox[i].id = r /\ inbox[i].kind \in Kinds
    BY <1>4 DEF Unread
  <2>2. i # 1  BY <1>4, <2>1, HeadOfPipe
  <2>3. i - 1 \in DOMAIN inbox' /\ inbox'[i - 1] = inbox[i]  BY <2>2, HeadOfPipe
  <2> QED  BY <2>1, <2>3 DEF Unread
<1>5. ASSUME c.kind \in Kinds
      PROVE  Unread(c.id) /\ ~Unread(c.id)' /\ c.id \in 1..requestId
  <2>1. Unread(c.id) /\ c.id \in 1..requestId
    BY <1>1, <1>5, HeadOfPipe DEF Unread, InboxInv
  <2>2. ASSUME Unread(c.id)' PROVE FALSE
    <3>1. PICK i \in DOMAIN inbox' : inbox'[i].id = c.id /\ inbox'[i].kind \in Kinds
      BY <2>2 DEF Unread
    <3>2. i + 1 \in DOMAIN inbox /\ inbox[i + 1] = inbox'[i] /\ i \in DOMAIN inbox' /\ i \in Nat
      BY <3>1, HeadOfPipe
    <3>3. i + 1 = 1 /\ 1..Len(inbox') = DOMAIN inbox'
      BY <1>1, <1>5, <3>1, <3>2, HeadOfPipe DEF InboxInv
    <3> QED  BY <3>2, <3>3
  <2> QED  BY <2>1, <2>2
<1> QED  BY <1>2, <1>3, <1>4, <1>5

\* One more command is answered, or one starts to make a tab.
LEMMA OneMore ==
    ASSUME NEW S, NEW T, S \subseteq Requests, T \subseteq Requests
    PROVE  /\ Cardinality(S) \in 0..MaxRequests
           /\ S \subseteq T => Cardinality(S) <= Cardinality(T)
           /\ \A r \in T \ S : S \subseteq T => Cardinality(S) + 1 <= Cardinality(T)
<1>1. /\ IsFiniteSet(S) /\ IsFiniteSet(T) /\ Cardinality(S) \in Nat /\ Cardinality(T) \in Nat
      /\ Cardinality(S) <= MaxRequests
  BY Numbers, FS_Subset, FS_CardinalityType
<1>2. ASSUME S \subseteq T PROVE Cardinality(S) <= Cardinality(T)
  BY <1>1, <1>2, FS_Subset
<1>3. ASSUME NEW r \in T \ S, S \subseteq T
      PROVE  Cardinality(S) + 1 <= Cardinality(T)
  <2>1. Cardinality(S \union {r}) = Cardinality(S) + 1  BY <1>1, <1>3, FS_AddElement
  <2>2. Cardinality(S \union {r}) <= Cardinality(T)
    <3>1. S \union {r} \in SUBSET T  BY <1>3
    <3> QED  BY <1>1, <3>1, FS_Subset
  <2> QED  BY <2>1, <2>2
<1> QED  BY <1>1, <1>2, <1>3, Numbers

LEMMA AnswerWritten ==
    ASSUME RpcInv, NEW r \in Requests, Answer(r)
    PROVE  /\ answers' \in [Requests -> Nat] /\ answers'[r] = answers[r] + 1
           /\ \A q \in Requests : q # r => answers'[q] = answers[q]
           /\ outbox' \subseteq Requests /\ outbox' \subseteq outbox \union {r}
BY SideTypes DEF Answer

LEMMA WorkWritten ==
    ASSUME RpcInv, NEW r \in Requests, NEW w \in WorkRecord, work' = [work EXCEPT ![r] = w]
    PROVE  /\ work' \in [Requests -> WorkRecord] /\ work'[r] = w
           /\ \A q \in Requests : q # r => work'[q] = work[q]
BY SideTypes

\* What AnswerInv asks of a step of the process.
LEMMA AnswerKept ==
    ASSUME RpcInv, up, UNCHANGED outside, InboxInv',
           \A r \in Requests :
              /\ answers'[r] \in 0..1 /\ (answers[r] = 1 => answers'[r] = 1)
              /\ r \in outbox' => r \in outbox \/ answers'[r] = 1
              /\ r > requestId => answers'[r] = answers[r] /\ work'[r] = work[r]
              /\ Unread(r)' => work'[r].at = "none"
              /\ r <= requestId => (answers'[r] = 0 <=> Unread(r)' \/ work'[r].at # "none")
    PROVE  AnswerInv'
<1>1. SendInv /\ PromiseInv /\ HandlerInv  BY DEF RpcInv, AnswerInv
<1>2. SendInv'  BY <1>1 DEF SendInv
<1>3. PromiseInv'  BY <1>1 DEF PromiseInv
<1>4. HandlerInv'  BY <1>1 DEF HandlerInv
<1> QED  BY <1>2, <1>3, <1>4 DEF AnswerInv

\* The numbers stay in their types as long as CountInv holds.
LEMMA NumbersStay ==
    ASSUME RpcInv, made' \in Nat \ {0}, sessionCounter' \in Nat \ {0}, CountInv'
    PROVE  NumberTypes'
<1>1. Answered' \subseteq Requests /\ Creating' \subseteq Requests
  BY DEF Answered, Creating
<1>2. /\ Cardinality(Answered') \in 0..MaxRequests
      /\ Cardinality(Answered' \union Creating') \in 0..MaxRequests
  BY <1>1, OneMore
<1> QED  BY <1>2, Numbers DEF CountInv, NumberTypes

\* Where a command is: the facts of RpcInv that the steps below use.
LEMMA Place ==
    ASSUME RpcInv, NEW r \in Requests
    PROVE  /\ answers[r] \in 0..1 /\ work[r] \in WorkRecord
           /\ r > requestId => answers[r] = 0 /\ work[r].at = "none" /\ ~Unread(r)
           /\ Unread(r) => work[r].at = "none"
           /\ up /\ r <= requestId => (answers[r] = 0 <=> Unread(r) \/ work[r].at # "none")
<1>1. SendInv /\ PromiseInv /\ InboxInv /\ HandlerInv  BY DEF RpcInv, AnswerInv
<1>2. answers[r] \in 0..1 /\ work[r] \in WorkRecord
  BY <1>1, SideTypes DEF PromiseInv
<1>3. r > requestId => answers[r] = 0 /\ work[r].at = "none"
  BY <1>1, Numbers DEF SendInv
<1>4. r > requestId => ~Unread(r)
  BY <1>1, SideTypes DEF InboxInv, Unread
<1> QED  BY <1>1, <1>2, <1>3, <1>4 DEF HandlerInv

LEMMA AtOnceKeeps ==
    ASSUME RpcInv, NEW c, AnswersAtOnce(c)
    PROVE  AnswerSide'
<1>1. /\ up /\ c \in Heads /\ c.kind \in Kinds /\ inbox' = Tail(inbox) /\ Answer(c.id)
      /\ work' = work /\ UNCHANGED outside /\ UNCHANGED makeVars
  BY DEF AnswersAtOnce
<1>2. c.id \in Requests /\ inbox' \in Seq(Lines)  BY <1>1, HeadOfPipe
<1>3. /\ InboxInv' /\ Unread(c.id) /\ ~Unread(c.id)' /\ c.id <= requestId
      /\ \A r \in Requests : r # c.id => (Unread(r)' <=> Unread(r))
  BY <1>1, <1>2, ReadOnce, SideTypes
<1>4. answers[c.id] = 0 /\ work[c.id].at = "none"
  BY <1>1, <1>2, <1>3, Place
<1>5. AnswerInv'
  BY <1>1, <1>2, <1>3, <1>4, AnswerWritten, AnswerKept, Place
<1>6. ClientTypes' /\ HandlerTypes'
  BY <1>1, <1>2, AnswerWritten, SideTypes DEF ClientTypes, HandlerTypes, AnswerSide
<1>7. CountInv'
  <2>1. Answered' = Answered \union {c.id} /\ Creating' = Creating
    BY <1>1, <1>2, <1>4, AnswerWritten DEF Answered, Creating
  <2>2. /\ Cardinality(Answered) <= Cardinality(Answered')
        /\ Cardinality(Answered \union Creating) <= Cardinality(Answered' \union Creating')
    BY <1>2, <2>1, OneMore DEF Answered, Creating
  <2>3. /\ Cardinality(Answered) \in Nat /\ Cardinality(Answered') \in Nat
        /\ Cardinality(Answered \union Creating) \in Nat
        /\ Cardinality(Answered' \union Creating') \in Nat
    BY <1>2, <2>1, OneMore DEF Answered, Creating
  <2>4. made <= 1 + Cardinality(Answered)
        /\ sessionCounter <= 1 + Cardinality(Answered \union Creating)
        /\ made \in Nat /\ sessionCounter \in Nat
    BY SideTypes, Numbers DEF AnswerSide, CountInv
  <2> QED  BY <1>1, <2>2, <2>3, <2>4 DEF CountInv
<1>8. NumberTypes'  BY <1>1, SideTypes DEF NumberTypes, AnswerSide
<1> QED  BY <1>5, <1>6, <1>7, <1>8 DEF AnswerSide

LEMMA StartsKeeps ==
    ASSUME RpcInv, NEW c, NEW w, StartsWork(c, w)
    PROVE  AnswerSide'
<1>1. /\ up /\ c \in Heads /\ c.kind \in Kinds /\ inbox' = Tail(inbox)
      /\ w \in WorkRecord /\ w.at # "none" /\ work' = [work EXCEPT ![c.id] = w]
      /\ outbox' = outbox /\ answers' = answers /\ made' = made /\ UNCHANGED outside
      /\ sessionCounter' = IF w.at = "creating" THEN sessionCounter + 1 ELSE sessionCounter
  BY DEF StartsWork, Await
<1>2. c.id \in Requests /\ inbox' \in Seq(Lines)  BY <1>1, HeadOfPipe
<1>3. /\ InboxInv' /\ Unread(c.id) /\ ~Unread(c.id)' /\ c.id <= requestId
      /\ \A r \in Requests : r # c.id => (Unread(r)' <=> Unread(r))
  BY <1>1, <1>2, ReadOnce, SideTypes
<1>4. answers[c.id] = 0 /\ work[c.id].at = "none"
  BY <1>1, <1>2, <1>3, Place
<1>5. /\ work' \in [Requests -> WorkRecord] /\ work'[c.id] = w
      /\ \A q \in Requests : q # c.id => work'[q] = work[q]
  BY <1>1, <1>2, WorkWritten
<1>6. AnswerInv'
  BY <1>1, <1>2, <1>3, <1>4, <1>5, AnswerKept, Place
<1>7. ClientTypes' /\ HandlerTypes'
  BY <1>1, <1>2, <1>5, SideTypes DEF ClientTypes, HandlerTypes, AnswerSide
<1>8. CountInv'
  <2>1. /\ Answered' = Answered
        /\ Creating' = IF w.at = "creating" THEN Creating \union {c.id} ELSE Creating
        /\ c.id \notin Answered \union Creating
    BY <1>1, <1>2, <1>4, <1>5 DEF Answered, Creating
  <2>2. /\ Cardinality(Answered \union Creating) \in Nat
        /\ Cardinality(Answered' \union Creating') \in Nat
        /\ Cardinality(Answered' \union Creating') >=
              IF w.at = "creating" THEN Cardinality(Answered \union Creating) + 1
              ELSE Cardinality(Answered \union Creating)
    <3>1. /\ Answered \union Creating \subseteq Requests
          /\ Answered' \union Creating' \subseteq Requests
          /\ Answered \union Creating \subseteq Answered' \union Creating'
      BY <1>2, <2>1 DEF Answered, Creating
    <3>2. /\ Cardinality(Answered \union Creating) \in 0..MaxRequests
          /\ Cardinality(Answered' \union Creating') \in 0..MaxRequests
          /\ Cardinality(Answered' \union Creating') >= Cardinality(Answered \union Creating)
      BY <3>1, OneMore
    <3>3. w.at = "creating" =>
            Cardinality(Answered' \union Creating') >= Cardinality(Answered \union Creating) + 1
      <4>1. w.at = "creating" =>
              c.id \in (Answered' \union Creating') \ (Answered \union Creating)
        BY <2>1
      <4> QED  BY <3>1, <3>2, <4>1, OneMore, Numbers
    <3> QED  BY <3>2, <3>3, Numbers
  <2>3. made <= 1 + Cardinality(Answered)
        /\ sessionCounter <= 1 + Cardinality(Answered \union Creating)
        /\ sessionCounter \in Nat
    BY SideTypes, Numbers DEF AnswerSide, CountInv
  <2>4. made' <= 1 + Cardinality(Answered')  BY <1>1, <2>1, <2>3
  <2>5. sessionCounter' <= 1 + Cardinality(Answered' \union Creating')
    BY <1>1, <2>2, <2>3
  <2> QED  BY <2>4, <2>5 DEF CountInv
<1>9. NumberTypes'
  <2>1. made' \in Nat \ {0} /\ sessionCounter' \in Nat \ {0}
    BY <1>1, SideTypes, Numbers
  <2> QED  BY <1>8, <2>1, NumbersStay
<1> QED  BY <1>6, <1>7, <1>8, <1>9 DEF AnswerSide

\* A handler that waited writes its answer.
LEMMA EndsKeeps ==
    ASSUME RpcInv, NEW r \in Requests, EndsWork(r)
    PROVE  AnswerSide'
<1>1. /\ up /\ work[r].at # "none" /\ work' = [work EXCEPT ![r] = NoWork] /\ Answer(r)
      /\ made' \in {made, made + 1} /\ inbox' = inbox /\ UNCHANGED outside
      /\ \/ sessionCounter' = sessionCounter
         \/ work[r].at # "creating" /\ sessionCounter' = sessionCounter + 1
  BY DEF EndsWork, Done
<1>2. r <= requestId /\ answers[r] = 0 /\ ~Unread(r)
  BY <1>1, Place, SideTypes, Numbers
<1>3. /\ work' \in [Requests -> WorkRecord] /\ work'[r] = NoWork
      /\ \A q \in Requests : q # r => work'[q] = work[q]
  BY <1>1, Numbers, WorkWritten
<1>4. /\ answers' \in [Requests -> Nat] /\ answers'[r] = 1
      /\ \A q \in Requests : q # r => answers'[q] = answers[q]
      /\ outbox' \subseteq Requests /\ outbox' \subseteq outbox \union {r}
  BY <1>1, <1>2, AnswerWritten
<1>5. InboxInv' /\ \A q \in Requests : Unread(q)' <=> Unread(q)
  BY <1>1 DEF InboxInv, Unread, RpcInv, AnswerInv
<1>6. AnswerInv'
  BY <1>1, <1>2, <1>3, <1>4, <1>5, AnswerKept, Place, Numbers
<1>7. ClientTypes' /\ HandlerTypes'
  BY <1>1, <1>3, <1>4, SideTypes DEF ClientTypes, HandlerTypes, AnswerSide
<1>8. CountInv'
  <2>1. /\ Answered' = Answered \union {r} /\ r \notin Answered
        /\ Creating' = Creating \ {r} /\ (r \in Creating <=> work[r].at = "creating")
    BY <1>2, <1>3, <1>4, Numbers DEF Answered, Creating
  <2>2. /\ Answered \subseteq Requests /\ Answered' \subseteq Requests
        /\ Answered \union Creating \subseteq Requests
        /\ Answered' \union Creating' \subseteq Requests
        /\ Answered \subseteq Answered' /\ r \in Answered' \ Answered
        /\ Answered \union Creating \subseteq Answered' \union Creating'
        /\ r \notin Creating => r \in (Answered' \union Creating') \ (Answered \union Creating)
    BY <2>1 DEF Answered, Creating
  <2>3. /\ Cardinality(Answered) \in 0..MaxRequests /\ Cardinality(Answered') \in 0..MaxRequests
        /\ Cardinality(Answered) + 1 <= Cardinality(Answered')
    BY <2>2, OneMore
  <2>4. /\ Cardinality(Answered \union Creating) \in 0..MaxRequests
        /\ Cardinality(Answered' \union Creating') \in 0..MaxRequests
        /\ Cardinality(Answered \union Creating) <= Cardinality(Answered' \union Creating')
    BY <2>2, OneMore
  <2>5. r \notin Creating =>
            Cardinality(Answered \union Creating) + 1 <= Cardinality(Answered' \union Creating')
    BY <2>2, OneMore
  <2>6. made <= 1 + Cardinality(Answered) /\ made \in Nat
        /\ sessionCounter <= 1 + Cardinality(Answered \union Creating) /\ sessionCounter \in Nat
    BY SideTypes, Numbers DEF AnswerSide, CountInv
  <2>7. made' <= 1 + Cardinality(Answered')  BY <1>1, <2>3, <2>6, Numbers
  <2>8. sessionCounter' <= 1 + Cardinality(Answered' \union Creating')
    BY <1>1, <2>1, <2>4, <2>5, <2>6, Numbers
  <2> QED  BY <2>7, <2>8 DEF CountInv
<1>9. NumberTypes'
  <2>1. made' \in Nat \ {0} /\ sessionCounter' \in Nat \ {0}
    BY <1>1, SideTypes, Numbers
  <2> QED  BY <1>8, <2>1, NumbersStay
<1> QED  BY <1>6, <1>7, <1>8, <1>9 DEF AnswerSide

\* Nothing is answered: a handler that goes on waiting, a dialog answer that is
\* read, a run, and whatever only changes tabs.
LEMMA CountUnchanged ==
    ASSUME RpcInv, UNCHANGED makeVars, Answered' = Answered, Creating' = Creating
    PROVE  CountInv' /\ NumberTypes'
BY SideTypes DEF CountInv, NumberTypes, AnswerSide

LEMMA GoesOnKeeps ==
    ASSUME RpcInv, NEW r \in Requests, NEW w, GoesOn(r, w)
    PROVE  AnswerSide'
<1>1. /\ up /\ work[r].at \notin {"none", "creating"} /\ work' = [work EXCEPT ![r] = w]
      /\ w \in WorkRecord /\ w.at \notin {"none", "creating"}
      /\ outbox' = outbox /\ answers' = answers
      /\ inbox' = inbox /\ UNCHANGED outside /\ UNCHANGED makeVars
  BY DEF GoesOn, Await
<1>2. r <= requestId /\ answers[r] = 0 /\ ~Unread(r)
  BY <1>1, Place, SideTypes, Numbers
<1>3. /\ work' \in [Requests -> WorkRecord] /\ work'[r] = w
      /\ \A q \in Requests : q # r => work'[q] = work[q]
  BY <1>1, WorkWritten
<1>4. InboxInv' /\ \A q \in Requests : Unread(q)' <=> Unread(q)
  BY <1>1 DEF InboxInv, Unread, RpcInv, AnswerInv
<1>5. AnswerInv'
  BY <1>1, <1>2, <1>3, <1>4, AnswerKept, Place
<1>6. ClientTypes' /\ HandlerTypes'
  BY <1>1, <1>3, SideTypes DEF ClientTypes, HandlerTypes, AnswerSide
<1>7. Answered' = Answered /\ Creating' = Creating
  BY <1>1, <1>3 DEF Answered, Creating
<1> QED  BY <1>1, <1>5, <1>6, <1>7, CountUnchanged DEF AnswerSide

LEMMA DialogKeeps ==
    ASSUME RpcInv, NEW c, ReadsDialog(c)
    PROVE  AnswerSide'
<1>1. /\ up /\ c \in Heads /\ c.kind \notin Kinds /\ inbox' = Tail(inbox)
      /\ outbox' = outbox /\ work' = work /\ answers' = answers
      /\ UNCHANGED outside /\ UNCHANGED makeVars
  BY DEF ReadsDialog
<1>2. inbox' \in Seq(Lines)  BY <1>1, HeadOfPipe
<1>3. InboxInv' /\ \A q \in Requests : Unread(q)' <=> Unread(q)
  BY <1>1, ReadOnce
<1>4. AnswerInv'
  BY <1>1, <1>3, AnswerKept, Place
<1>5. ClientTypes' /\ HandlerTypes'
  BY <1>1, <1>2, SideTypes DEF ClientTypes, HandlerTypes, AnswerSide
<1>6. Answered' = Answered /\ Creating' = Creating  BY <1>1 DEF Answered, Creating
<1> QED  BY <1>1, <1>4, <1>5, <1>6, CountUnchanged DEF AnswerSide

LEMMA AsideKeeps ==
    ASSUME RpcInv, Aside
    PROVE  AnswerSide'
<1>1. UNCHANGED <<outside, inbox, outbox, work, answers, makeVars>>  BY DEF Aside
<1>2. AnswerInv'
  BY <1>1 DEF RpcInv, AnswerInv, SendInv, PromiseInv, InboxInv, HandlerInv, Unread
<1>3. ClientTypes' /\ HandlerTypes'
  BY <1>1, SideTypes DEF ClientTypes, HandlerTypes, AnswerSide
<1>4. Answered' = Answered /\ Creating' = Creating  BY <1>1 DEF Answered, Creating
<1> QED  BY <1>1, <1>2, <1>3, <1>4, CountUnchanged DEF AnswerSide

-----------------------------------------------------------------------------
\* The client

\* A line is written to the pipe.
LEMMA PipeGrows ==
    ASSUME RpcInv, NEW line \in Lines, inbox' = Append(inbox, line)
    PROVE  /\ inbox' \in Seq(Lines)
           /\ \A i \in DOMAIN inbox : i \in DOMAIN inbox' /\ inbox'[i] = inbox[i]
           /\ \A i \in DOMAIN inbox' : i \notin DOMAIN inbox => inbox'[i] = line
           /\ \A i, j \in DOMAIN inbox' : i \notin DOMAIN inbox /\ j \notin DOMAIN inbox => i = j
           /\ \E i \in DOMAIN inbox' : inbox'[i] = line
<1>1. inbox \in Seq(Lines)  BY SideTypes
<1>2. /\ inbox' \in Seq(Lines) /\ Len(inbox) \in Nat
      /\ DOMAIN inbox = 1..Len(inbox) /\ DOMAIN inbox' = 1..(Len(inbox) + 1)
      /\ inbox'[Len(inbox) + 1] = line
      /\ \A i \in 1..Len(inbox) : inbox'[i] = inbox[i]
  BY <1>1
<1>3. \A i \in DOMAIN inbox' : i \notin DOMAIN inbox => i = Len(inbox) + 1
  BY <1>2
<1> QED  BY <1>2, <1>3

LEMMA SendKeeps ==
    ASSUME RpcInv, NEW kind \in Kinds, NEW tab \in Tabs \union {None}, Send(kind, tab)
    PROVE  AnswerSide'
<1> DEFINE r == requestId + 1
           line == [kind |-> kind, id |-> r, tab |-> tab]
<1>1. /\ started /\ requestId < MaxRequests /\ requestId' = r
      /\ pendingRequests' = pendingRequests \union {r}
      /\ promise' = [promise EXCEPT ![r] = "waiting"]
      /\ inbox' = IF up THEN Append(inbox, line) ELSE inbox
      /\ UNCHANGED <<started, outbox, up, makeVars, work, answers>>
  BY DEF Send
<1>2. r \in Requests /\ line \in Lines /\ line.id = r /\ line.kind \in Kinds /\ r > requestId
  BY <1>1, SideTypes, Numbers DEF Lines, Command
<1>3. /\ inbox' \in Seq(Lines)
      /\ \A i \in DOMAIN inbox' : i \in DOMAIN inbox => inbox'[i] = inbox[i]
      /\ \A i \in DOMAIN inbox' : i \notin DOMAIN inbox => inbox'[i] = line
      /\ \A i, j \in DOMAIN inbox' : i \notin DOMAIN inbox /\ j \notin DOMAIN inbox => i = j
      /\ DOMAIN inbox \subseteq DOMAIN inbox'
      /\ up => \E i \in DOMAIN inbox' : inbox'[i] = line
  BY <1>1, <1>2, PipeGrows, SideTypes
<1> HIDE DEF line
<1>4. SendInv /\ PromiseInv /\ InboxInv /\ HandlerInv  BY DEF RpcInv, AnswerInv
<1>5. ~Unread(r) /\ answers[r] = 0 /\ work[r].at = "none"  BY <1>2, Place
<1>6. InboxInv'
  <2>1. \A i \in DOMAIN inbox : inbox[i].kind \in Kinds =>
            inbox[i].id \in 1..requestId /\ inbox[i].id # r
    BY <1>2, <1>4, SideTypes DEF InboxInv
  <2>2. \A i \in DOMAIN inbox' : inbox'[i].kind \in Kinds => inbox'[i].id \in 1..requestId'
    <3>1. requestId \in Nat /\ requestId' = requestId + 1  BY <1>1, SideTypes
    <3> QED  BY <1>2, <1>3, <2>1, <3>1
  <2> QED  BY <1>2, <1>3, <1>4, <2>1, <2>2 DEF InboxInv
<1>7. \A q \in Requests : IF q = r THEN up => Unread(q)' ELSE Unread(q)' <=> Unread(q)
  BY <1>2, <1>3 DEF Unread
<1>8. /\ promise' \in [Requests -> Promises] /\ promise'[r] = "waiting"
      /\ \A q \in Requests : q # r => promise'[q] = promise[q]
      /\ pendingRequests' \subseteq Requests
      /\ requestId' \in 0..MaxRequests
  BY <1>1, <1>2, SideTypes, Numbers, SMTT(20) DEF Promises
<1>9. /\ \A q \in Requests : q > requestId' => q > requestId /\ q # r
      /\ \A q \in Requests : q <= requestId' /\ q # r => q <= requestId
  <2>1. requestId \in Nat /\ requestId' = requestId + 1 /\ Requests \subseteq Nat
    BY <1>1, SideTypes, Numbers
  <2> QED  BY <2>1
<1>10. SendInv'
  BY <1>1, <1>4, <1>8, <1>9 DEF SendInv
<1>11. PromiseInv'
  BY <1>1, <1>4, <1>5, <1>8 DEF PromiseInv
<1>12. HandlerInv'
  <2>1. \A q \in Requests : Unread(q)' => work'[q].at = "none"
    BY <1>1, <1>4, <1>5, <1>7 DEF HandlerInv
  <2>2. ASSUME NEW q \in Requests, q <= requestId', up
        PROVE  answers'[q] = 0 <=> Unread(q)' \/ work'[q].at # "none"
    BY <1>1, <1>4, <1>5, <1>7, <1>9, <2>2 DEF HandlerInv
  <2>3. ~up' => inbox' = <<>> /\ \A q \in Requests : work'[q] = NoWork
    BY <1>1, <1>4 DEF HandlerInv
  <2> QED  BY <1>1, <2>1, <2>2, <2>3 DEF HandlerInv
<1>13. ClientTypes' /\ HandlerTypes'
  BY <1>1, <1>3, <1>8, SideTypes DEF ClientTypes, HandlerTypes
<1>14. Answered' = Answered /\ Creating' = Creating  BY <1>1 DEF Answered, Creating
<1> QED
  BY <1>1, <1>6, <1>10, <1>11, <1>12, <1>13, <1>14, CountUnchanged DEF AnswerSide, AnswerInv

LEMMA AnswerDialogKeeps ==
    ASSUME RpcInv, NEW r \in Requests, AnswerDialog(r)
    PROVE  AnswerSide'
<1> DEFINE line == DialogAnswer(r)
<1>1. /\ up /\ inbox' = Append(inbox, line)
      /\ UNCHANGED <<clientVars, outbox, up, makeVars, work, answers>>
  BY DEF AnswerDialog
<1>2. line \in Lines /\ line.kind \notin Kinds
  BY DEF Lines, DialogAnswer, Kinds, Structural
<1> HIDE DEF line
<1>3. /\ inbox' \in Seq(Lines)
      /\ \A i \in DOMAIN inbox : i \in DOMAIN inbox' /\ inbox'[i] = inbox[i]
      /\ \A i \in DOMAIN inbox' : inbox'[i].kind \in Kinds => i \in DOMAIN inbox
  BY <1>1, <1>2, PipeGrows
<1>4. InboxInv'
  BY <1>1, <1>3 DEF InboxInv, RpcInv, AnswerInv
<1>5. \A q \in Requests : Unread(q)' <=> Unread(q)
  BY <1>3 DEF Unread
<1>6. AnswerInv'
  BY <1>1, <1>4, <1>5, AnswerKept, Place
<1>7. ClientTypes' /\ HandlerTypes'
  BY <1>1, <1>3, SideTypes DEF ClientTypes, HandlerTypes
<1>8. Answered' = Answered /\ Creating' = Creating  BY <1>1 DEF Answered, Creating
<1> QED  BY <1>1, <1>6, <1>7, <1>8, CountUnchanged DEF AnswerSide

\* Receive, Timeout and Stop change what the client waits for.
LEMMA ClientKeeps ==
    ASSUME RpcInv, Receive \/ Stop \/ \E r \in Requests : Timeout(r)
    PROVE  AnswerSide'
<1>1. UNCHANGED <<requestId, inbox, up, makeVars, work, answers>>
  BY DEF Receive, Stop, Timeout
<1>2. SendInv /\ PromiseInv /\ InboxInv /\ HandlerInv  BY DEF RpcInv, AnswerInv
<1>3. InboxInv' /\ HandlerInv'
  BY <1>1, <1>2 DEF InboxInv, HandlerInv, Unread
<1>4. Answered' = Answered /\ Creating' = Creating  BY <1>1 DEF Answered, Creating
<1>5. SUFFICES ASSUME TRUE
               PROVE  /\ promise' \in [Requests -> Promises]
                      /\ pendingRequests' \subseteq Requests /\ outbox' \subseteq outbox
                      /\ SendInv' /\ PromiseInv'
  <2>1. AnswerInv'  BY <1>3, <1>5 DEF AnswerInv
  <2>2. ClientTypes' /\ HandlerTypes'
    BY <1>1, <1>5, SideTypes DEF ClientTypes, HandlerTypes
  <2> QED  BY <1>1, <1>4, <2>1, <2>2, CountUnchanged DEF AnswerSide
<1>6. CASE Receive
  <2>1. PICK r \in outbox :
            /\ outbox' = outbox \ {r} /\ started' = started
            /\ IF r \in pendingRequests
               THEN /\ pendingRequests' = pendingRequests \ {r}
                    /\ promise' = [promise EXCEPT ![r] = "answered"]
               ELSE UNCHANGED <<pendingRequests, promise>>
    BY <1>6 DEF Receive
  <2>2. r \in Requests /\ answers[r] = 1  BY <1>2, <2>1, SideTypes DEF PromiseInv
  <2>3. r <= requestId  BY <2>2, Place, SideTypes, Numbers
  <2>4. CASE r \in pendingRequests
    <3>1. /\ pendingRequests' = pendingRequests \ {r}
          /\ promise' \in [Requests -> Promises] /\ promise'[r] = "answered"
          /\ \A q \in Requests : q # r => promise'[q] = promise[q]
      BY <2>1, <2>2, <2>4, SideTypes DEF Promises
    <3>2. SendInv'  BY <1>1, <1>2, <2>3, <3>1, SideTypes, Numbers DEF SendInv
    <3>3. PromiseInv'  BY <1>1, <1>2, <2>1, <2>2, <3>1 DEF PromiseInv
    <3> QED  BY <2>1, <3>1, <3>2, <3>3, SideTypes
  <2>5. CASE r \notin pendingRequests
    <3>1. SendInv' /\ PromiseInv'
      BY <1>1, <1>2, <2>1, <2>5 DEF SendInv, PromiseInv
    <3> QED  BY <2>1, <2>5, <3>1, SideTypes
  <2> QED  BY <2>4, <2>5
<1>7. CASE Stop
  <2>1. started' = FALSE /\ pendingRequests' = {} /\ outbox' = {} /\ promise' = promise
    BY <1>7 DEF Stop
  <2>2. SendInv' /\ PromiseInv'  BY <1>1, <1>2, <2>1 DEF SendInv, PromiseInv
  <2> QED  BY <2>1, <2>2, SideTypes
<1>8. ASSUME NEW r \in Requests, Timeout(r)
      PROVE  /\ promise' \in [Requests -> Promises]
             /\ pendingRequests' \subseteq Requests /\ outbox' \subseteq outbox
             /\ SendInv' /\ PromiseInv'
  <2>1. /\ promise[r] = "waiting" /\ pendingRequests' = pendingRequests \ {r}
        /\ promise' = [promise EXCEPT ![r] = "timedOut"]
        /\ started' = started /\ outbox' = outbox
    BY <1>8 DEF Timeout
  <2>2. /\ promise' \in [Requests -> Promises] /\ promise'[r] = "timedOut"
        /\ \A q \in Requests : q # r => promise'[q] = promise[q]
    BY <2>1, SideTypes DEF Promises
  <2>3. r <= requestId
    <3>1. ~(r > requestId)  BY <1>2, <2>1 DEF SendInv
    <3>2. r \in Nat /\ requestId \in Nat  BY SideTypes, Numbers
    <3> QED  BY <3>1, <3>2
  <2>4. SendInv'  BY <1>1, <1>2, <2>1, <2>2, <2>3, SideTypes, Numbers DEF SendInv
  <2>5. PromiseInv'  BY <1>1, <1>2, <2>1, <2>2 DEF PromiseInv
  <2> QED  BY <2>1, <2>2, <2>4, <2>5, SideTypes
<1> QED  BY <1>6, <1>7, <1>8

-----------------------------------------------------------------------------
\* Every step of the process is one of the six kinds

LEMMA Reading ==
    ASSUME RpcInv, NEW c \in Heads, up, c.kind \in Kinds
    PROVE  /\ c.id \in Requests /\ c.tab \in MaybeTab
           /\ answers[c.id] = 0 /\ work[c.id].at = "none"
<1>1. c \in Command /\ c.id \in Requests  BY HeadOfPipe
<1>2. Unread(c.id)  BY HeadOfPipe DEF Unread
<1>3. answers[c.id] = 0 /\ work[c.id].at = "none"
  BY <1>1, <1>2, Place, SideTypes, Numbers
<1> QED  BY <1>1, <1>3 DEF Command, MaybeTab

LEMMA FoundTab ==
    ASSUME RpcInv, NEW c \in Heads, up, c.kind \in Kinds, Found(c)
    PROVE  /\ Target(c) \in Tabs /\ sessions[Target(c)] \in Objects
           /\ ~disturbed => Target(c) \in Shown
<1>1. activeSessionId \in MaybeTab /\ sessions \in [Tabs -> MaybeObject]
  BY SideTypes DEF TabTypes
<1>2. Target(c) \in Tabs /\ sessions[Target(c)] # None
  BY <1>1, Reading DEF Found, Target, MaybeTab
<1>3. sessions[Target(c)] \in Objects  BY <1>1, <1>2 DEF MaybeObject
<1>4. ~disturbed => MapInv  BY SideTypes DEF TabInv
<1> QED  BY <1>2, <1>3, <1>4 DEF MapInv

\* A command that is not answered can still open a tab and make a session.
LEMMA Room ==
    ASSUME RpcInv, NEW r \in Requests, answers[r] = 0
    PROVE  /\ made + 1 \in Objects
           /\ work[r].at # "creating" => sessionCounter + 1 \in Tabs
<1>1. /\ made <= 1 + Cardinality(Answered) /\ made \in Nat
      /\ sessionCounter <= 1 + Cardinality(Answered \union Creating) /\ sessionCounter \in Nat
  BY SideTypes, Numbers DEF AnswerSide, CountInv
<1>2. /\ Answered \subseteq Requests /\ Answered \union Creating \subseteq Requests
      /\ r \in Requests \ Answered
      /\ work[r].at # "creating" => r \in Requests \ (Answered \union Creating)
  BY DEF Answered, Creating
<1>3. /\ Cardinality(Answered) \in 0..MaxRequests
      /\ Cardinality(Answered) + 1 <= Cardinality(Requests)
      /\ Cardinality(Answered \union Creating) \in 0..MaxRequests
  BY <1>2, OneMore
<1>4. work[r].at # "creating" =>
        Cardinality(Answered \union Creating) + 1 <= Cardinality(Requests)
  BY <1>2, OneMore
<1> QED  BY <1>1, <1>3, <1>4, Numbers

LEMMA CommandStarts ==
    ASSUME RpcInv, NEW c \in Heads,
           \/ CreateSession(c) \/ CloseSession(c) \/ NewSession(c) \/ Prompt(c)
           \/ Fork(c) /\ work' # work
           \/ Abort(c) /\ work' # work
    PROVE  AnswerSide'
<1>1. ASSUME NEW w, w \in WorkRecord, w.at # "none", up, c.kind \in Kinds,
             inbox' = Tail(inbox), Await(c.id, w),
             sessionCounter' = IF w.at = "creating" THEN sessionCounter + 1
                               ELSE sessionCounter,
             UNCHANGED <<outside, made>>
      PROVE  AnswerSide'
  <2>1. StartsWork(c, w)  BY <1>1 DEF StartsWork
  <2> QED  BY <2>1, StartsKeeps
<1>2. Structural \subseteq Kinds /\ {"prompt", "abort"} \subseteq Kinds
      /\ {"create_session", "close_session", "new_session", "fork"} \subseteq Kinds
  BY DEF Kinds, Structural
<1>3. CASE CreateSession(c)
  <2> DEFINE w == [NoWork EXCEPT !.at = "creating", !.tab = sessionCounter']
  <2>1. up /\ c.kind \in Kinds /\ inbox' = Tail(inbox) /\ Await(c.id, w)
        /\ sessionCounter' = sessionCounter + 1 /\ UNCHANGED <<outside, made>>
    BY <1>2, <1>3 DEF CreateSession, Read
  <2>2. sessionCounter' \in Tabs  BY <2>1, Reading, Room
  <2>3. w \in WorkRecord /\ w.at = "creating"
    BY <2>2 DEF NoWork, WorkRecord, Awaits, MaybeTab, MaybeObject
  <2> HIDE DEF w
  <2> QED  BY <1>1, <2>1, <2>3
<1>4. CASE CloseSession(c)
  <2> DEFINE w == [NoWork EXCEPT !.at = "closing", !.tab = Target(c),
                                 !.object = sessions[Target(c)],
                                 !.wasActive = (activeSessionId = Target(c))]
  <2>1. up /\ c.kind \in Kinds /\ inbox' = Tail(inbox) /\ Await(c.id, w) /\ Found(c)
        /\ sessionCounter' = sessionCounter /\ UNCHANGED <<outside, made>>
    BY <1>2, <1>4 DEF CloseSession, Read
  <2>2. Target(c) \in MaybeTab /\ sessions[Target(c)] \in MaybeObject
        /\ (activeSessionId = Target(c)) \in BOOLEAN
    BY <2>1, FoundTab DEF MaybeTab, MaybeObject
  <2>3. w \in WorkRecord /\ w.at = "closing"
    BY <2>2 DEF NoWork, WorkRecord, Awaits
  <2> HIDE DEF w
  <2> QED  BY <1>1, <2>1, <2>3
<1>5. CASE NewSession(c)
  <2> DEFINE w == [NoWork EXCEPT !.at = "leaving"]
  <2>1. up /\ c.kind \in Kinds /\ inbox' = Tail(inbox) /\ Await(c.id, w)
        /\ sessionCounter' = sessionCounter /\ UNCHANGED <<outside, made>>
    BY <1>2, <1>5 DEF NewSession, Read
  <2>2. w \in WorkRecord /\ w.at = "leaving"
    BY DEF NoWork, WorkRecord, Awaits, MaybeTab, MaybeObject
  <2> HIDE DEF w
  <2> QED  BY <1>1, <2>1, <2>2
<1>6. CASE Prompt(c)
  <2> DEFINE w == [NoWork EXCEPT !.at = "preflight", !.object = sessions[Target(c)]]
  <2>1. up /\ c.kind \in Kinds /\ inbox' = Tail(inbox) /\ Await(c.id, w) /\ Found(c)
        /\ sessionCounter' = sessionCounter /\ UNCHANGED <<outside, made>>
    BY <1>2, <1>6 DEF Prompt, Read
  <2>2. sessions[Target(c)] \in MaybeObject  BY <2>1, FoundTab DEF MaybeObject
  <2>3. w \in WorkRecord /\ w.at = "preflight"
    BY <2>2 DEF NoWork, WorkRecord, Awaits, MaybeTab
  <2> HIDE DEF w
  <2> QED  BY <1>1, <2>1, <2>3
<1>7. CASE Fork(c) /\ work' # work
  <2> DEFINE w == [NoWork EXCEPT !.at = "forking", !.tab = Target(c)]
  <2>1. up /\ c.kind \in Kinds /\ inbox' = Tail(inbox) /\ Await(c.id, w) /\ Found(c)
        /\ sessionCounter' = sessionCounter /\ UNCHANGED <<outside, made>>
    BY <1>2, <1>7 DEF Fork, Read
  <2>2. Target(c) \in MaybeTab  BY <2>1, FoundTab DEF MaybeTab
  <2>3. w \in WorkRecord /\ w.at = "forking"
    BY <2>2 DEF NoWork, WorkRecord, Awaits, MaybeObject
  <2> HIDE DEF w
  <2> QED  BY <1>1, <2>1, <2>3
<1>8. CASE Abort(c) /\ work' # work
  <2>1. up /\ c.kind \in Kinds /\ inbox' = Tail(inbox)
        /\ sessionCounter' = sessionCounter /\ UNCHANGED <<outside, made>>
    BY <1>2, <1>8 DEF Abort, Read
  <2>2. PICK r \in RunOf(sessions[Target(c)]) :
            Await(c.id, [NoWork EXCEPT !.at = "aborting", !.run = r,
                                       !.stage = runs[r].at])
    BY <1>8 DEF Abort
  <2>3. r \in Requests /\ runs[r].at \in Stages  BY DEF RunOf, Underway
  <2> DEFINE w == [NoWork EXCEPT !.at = "aborting", !.run = r,
                                       !.stage = runs[r].at]
  <2>4. w \in WorkRecord /\ w.at = "aborting"
    BY <2>3 DEF NoWork, WorkRecord, Awaits, MaybeTab, MaybeObject
  <2>5. Await(c.id, w)  BY <2>2
  <2> HIDE DEF w
  <2> QED  BY <1>1, <2>1, <2>4, <2>5
<1> QED  BY <1>3, <1>4, <1>5, <1>6, <1>7, <1>8

LEMMA CommandAnswers ==
    ASSUME RpcInv, NEW c \in Heads,
           \/ NotFound(c) \/ CloseLast(c) \/ SwitchActiveSession(c)
           \/ Fork(c) /\ work' = work
           \/ Abort(c) /\ work' = work
           \/ DialogAnswered(c) /\ c.kind \in Kinds
    PROVE  AnswerSide'
<1>1. {"close_session", "switch_active_session", "fork", "abort"} \subseteq Kinds
      /\ "extension_ui_response" \notin Kinds
  BY DEF Kinds, Structural
<1>2. \A w : Await(c.id, w) /\ up /\ c.kind \in Kinds => w = NoWork \/ work' # work \/ w.at = "none"
  BY Reading, SideTypes DEF Await
<1>3. AnswersAtOnce(c)
  <2>1. CASE NotFound(c)  BY <2>1 DEF NotFound, Read, AnswersAtOnce
  <2>2. CASE CloseLast(c)  BY <1>1, <2>2 DEF CloseLast, Read, AnswersAtOnce
  <2>3. CASE SwitchActiveSession(c)
    BY <1>1, <2>3 DEF SwitchActiveSession, Read, AnswersAtOnce
  <2>4. CASE Fork(c) /\ work' = work
    <3>1. [NoWork EXCEPT !.at = "forking", !.tab = Target(c)].at = "forking"
      BY DEF NoWork
    <3>2. up /\ c.kind \in Kinds  BY <1>1, <2>4 DEF Fork, Read
    <3>3. ~Await(c.id, [NoWork EXCEPT !.at = "forking", !.tab = Target(c)])
      BY <1>2, <2>4, <3>1, <3>2, Numbers
    <3> QED  BY <1>1, <2>4, <3>3 DEF Fork, Read, AnswersAtOnce
  <2>5. CASE Abort(c) /\ work' = work
    <3>1. \A r : [NoWork EXCEPT !.at = "aborting", !.run = r,
                                       !.stage = runs[r].at].at = "aborting"
      BY DEF NoWork
    <3>2. up /\ c.kind \in Kinds  BY <1>1, <2>5 DEF Abort, Read
    <3>3. \A r : ~Await(c.id, [NoWork EXCEPT !.at = "aborting", !.run = r,
                                       !.stage = runs[r].at])
      BY <1>2, <2>5, <3>1, <3>2, Numbers
    <3> QED  BY <1>1, <2>5, <3>3 DEF Abort, Read, AnswersAtOnce
  <2>6. CASE DialogAnswered(c) /\ c.kind \in Kinds
    BY <1>1, <2>6 DEF DialogAnswered, Read
  <2> QED  BY <2>1, <2>2, <2>3, <2>4, <2>5, <2>6
<1> QED  BY <1>3, AtOnceKeeps

LEMMA ReadLineAnswers ==
    ASSUME RpcInv, NEW c \in Heads, ReadLine(c)
    PROVE  AnswerSide'
<1>1. CASE DialogAnswered(c)
  <2>1. ReadsDialog(c)
    BY <1>1 DEF DialogAnswered, Read, ReadsDialog, Kinds, Structural
  <2> QED  BY <2>1, DialogKeeps
<1> QED  BY <1>1, CommandStarts, CommandAnswers DEF ReadLine

LEMMA ResumeAnswers ==
    ASSUME RpcInv, NEW r \in Requests, Resume(r)
    PROVE  AnswerSide'
<1>1. CASE LeavesSession(r)
  <2> DEFINE w == [NoWork EXCEPT !.at = "replacing"]
  <2>1. w \in WorkRecord /\ w.at = "replacing"
    BY DEF NoWork, WorkRecord, Awaits, MaybeTab, MaybeObject
  <2>2. up /\ work[r].at = "leaving" /\ Await(r, w) /\ UNCHANGED <<outside, inbox, makeVars>>
    BY <1>1 DEF LeavesSession
  <2> HIDE DEF w
  <2>3. GoesOn(r, w)  BY <2>1, <2>2 DEF GoesOn
  <2> QED  BY <2>3, GoesOnKeeps
<1>2. CASE ~LeavesSession(r)
  <2>1. CASE Created(r)
    <3>1. EndsWork(r)  BY <2>1 DEF Created, EndsWork
    <3> QED  BY <3>1, EndsKeeps
  <2>2. CASE Closed(r)
    <3>1. EndsWork(r)  BY <2>2 DEF Closed, EndsWork
    <3> QED  BY <3>1, EndsKeeps
  <2>3. CASE Forked(r) \/ ForkFails(r)
    <3>1. EndsWork(r)  BY <2>3 DEF Forked, ForkFails, EndsWork
    <3> QED  BY <3>1, EndsKeeps
  <2>4. CASE StaysInSession(r) \/ ReplaceFails(r)
    <3>1. EndsWork(r)  BY <2>4 DEF StaysInSession, ReplaceFails, EndsWork
    <3> QED  BY <3>1, EndsKeeps
  <2>5. CASE Replaced(r)
    <3>1. EndsWork(r)  BY <2>5 DEF Replaced, EndsWork
    <3> QED  BY <3>1, EndsKeeps
  <2>6. CASE PromptAnswered(r)
    <3>1. EndsWork(r)  BY <2>6 DEF PromptAnswered, EndsWork
    <3> QED  BY <3>1, EndsKeeps
  <2>7. CASE Aborted(r)
    <3>1. EndsWork(r)  BY <2>7 DEF Aborted, EndsWork
    <3> QED  BY <3>1, EndsKeeps
  <2> QED  BY <1>2, <2>1, <2>2, <2>3, <2>4, <2>5, <2>6, <2>7 DEF Resume
<1> QED  BY <1>1, <1>2

LEMMA StepAnswers ==
    ASSUME RpcInv, [Next]_vars, ~Exit
    PROVE  AnswerSide'
<1>1. ASSUME NEW kind \in Kinds, NEW tab \in TabsFor(kind), Send(kind, tab)
      PROVE  AnswerSide'
  <2>1. sessionCounter \in Tabs  BY SideTypes
  <2>2. tab \in Tabs \union {None}  BY <2>1, Numbers DEF TabsFor
  <2> QED  BY <1>1, <2>2, SendKeeps
<1>2. CASE ClientStep
  BY <1>1, <1>2, AnswerDialogKeeps, ClientKeeps DEF ClientStep
<1>3. ASSUME NEW r \in Requests, PreflightRuns(r) \/ AskPermission(r) \/ AskUser(r)
                                \/ RunEnds(r)
      PROVE  AnswerSide'
  <2>1. Aside  BY <1>3 DEF PreflightRuns, AskPermission, AskUser, Opens, RunEnds, Aside
  <2> QED  BY <2>1, AsideKeeps
<1>4. CASE UNCHANGED vars
  <2>1. Aside  BY <1>4 DEF Aside
  <2> QED  BY <2>1, AsideKeeps
<1> QED  BY <1>2, <1>3, <1>4, ReadLineAnswers, ResumeAnswers DEF Next

-----------------------------------------------------------------------------
\* The runs, the flags and the end of the process

LEMMA StepRuns ==
    ASSUME RpcInv, [Next]_vars
    PROVE  RunTypes'
<1>1. /\ runs \in [Requests -> RunRecord] /\ aborted \subseteq Requests
      /\ dialogs \in [Requests -> {"none", "shown", "answered"}]
      /\ pendingExtensionRequests \in [Requests -> {"none", "permission", "dialog"}]
  BY SideTypes DEF RunTypes
<1>2. \A r \in Requests : /\ Ended(r) \in RunRecord
                          /\ [at |-> "early", object |-> work[r].object] \in RunRecord
                          /\ [at |-> "running", object |-> work[r].object] \in RunRecord
  <2>1. \A r \in Requests : work[r] \in WorkRecord  BY SideTypes
  <2>2. \A r \in Requests : Ended(r).object = None /\ Ended(r).at \in {"resumed", "over"}
                            /\ Ended(r) = [at |-> Ended(r).at, object |-> Ended(r).object]
    BY DEF Ended, NoRun
  <2> QED  BY <2>1, <2>2 DEF RunRecord, WorkRecord, MaybeObject, Stages
<1>3. ASSUME NEW r \in Requests, AnswerDialog(r) PROVE RunTypes'
  BY <1>1, <1>3 DEF AnswerDialog, RunTypes
<1>4. ASSUME NEW r \in Requests, PromptAnswered(r) PROVE RunTypes'
  BY <1>1, <1>2, <1>4 DEF PromptAnswered, RunTypes
<1>5. ASSUME NEW r \in Requests, AskPermission(r) \/ AskUser(r) PROVE RunTypes'
  <2>1. PICK kind \in {"permission", "dialog"} : Opens(r, kind)
    BY <1>5 DEF AskPermission, AskUser
  <2> QED  BY <1>1, <2>1 DEF Opens, RunTypes
<1>6. ASSUME NEW r \in Requests, RunEnds(r) \/ PreflightRuns(r) PROVE RunTypes'
  BY <1>1, <1>2, <1>6 DEF RunEnds, PreflightRuns, RunTypes
<1>7. ASSUME NEW c \in Heads, DialogAnswered(c) PROVE RunTypes'
  <2>1. c.id \in Requests  BY HeadOfPipe
  <2> QED  BY <1>1, <1>7, <2>1 DEF DialogAnswered, RunTypes
<1>8. ASSUME NEW c \in Heads, Abort(c) PROVE RunTypes'
  <2>1. CASE UNCHANGED runVars  BY <1>1, <2>1 DEF RunTypes
  <2>2. CASE ~UNCHANGED runVars
    <3>1. PICK r \in RunOf(sessions[Target(c)]) :
              aborted' = aborted \union {r} /\ pendingExtensionRequests' = Refused(r)
      BY <1>8, <2>2 DEF Abort
    <3>2. r \in Requests  BY DEF RunOf, Underway
    <3>3. Refused(r) \in [Requests -> {"none", "permission", "dialog"}]
      BY <1>1, <3>2 DEF Refused
    <3> QED  BY <1>1, <1>8, <3>1, <3>2, <3>3 DEF Abort, RunTypes
  <2> QED  BY <2>1, <2>2
<1>9. CASE Exit  BY <1>9, Numbers DEF Exit, RunTypes
<1>10. CASE UNCHANGED runVars  BY <1>1, <1>10 DEF RunTypes
<1>11. ASSUME NEW c \in Heads, ReadLine(c) PROVE RunTypes'
  BY <1>7, <1>8, <1>10, <1>11
     DEF ReadLine, NotFound, CreateSession, CloseLast, CloseSession, SwitchActiveSession,
         Fork, NewSession, Prompt
<1>12. ASSUME NEW r \in Requests, Resume(r) PROVE RunTypes'
  BY <1>4, <1>10, <1>12
     DEF Resume, Created, Closed, Forked, ForkFails, StaysInSession, LeavesSession,
         Replaced, ReplaceFails, Aborted
<1>13. CASE ClientStep
  BY <1>3, <1>10, <1>13 DEF ClientStep, Send, Timeout, Receive, Stop
<1> QED  BY <1>5, <1>6, <1>9, <1>10, <1>11, <1>12, <1>13 DEF Next

\* `disturbed` stays, is set by a command that overlaps another, or set back.
LEMMA StepFlags ==
    ASSUME RpcInv, [Next]_vars
    PROVE  FlagTypes'
<1>1. started \in BOOLEAN /\ up \in BOOLEAN /\ disturbed \in BOOLEAN
  BY SideTypes DEF FlagTypes
<1>2. started' \in BOOLEAN /\ up' \in BOOLEAN
  <2>1. \/ started' = started \/ started' = FALSE
    BY Zenon DEF Next, ClientStep, ReadLine, Resume, Send, AnswerDialog, Timeout, Receive, Stop,
         NotFound, CreateSession, CloseLast, CloseSession, SwitchActiveSession, Fork,
         NewSession, Prompt, DialogAnswered, Abort, Created, Closed, Forked, ForkFails,
         StaysInSession, LeavesSession, Replaced, ReplaceFails, PromptAnswered, Aborted,
         PreflightRuns, AskPermission, AskUser, Opens, RunEnds, Exit
  <2>2. \/ up' = up \/ up' = FALSE
    BY Zenon DEF Next, ClientStep, ReadLine, Resume, Send, AnswerDialog, Timeout, Receive, Stop,
         NotFound, CreateSession, CloseLast, CloseSession, SwitchActiveSession, Fork,
         NewSession, Prompt, DialogAnswered, Abort, Created, Closed, Forked, ForkFails,
         StaysInSession, LeavesSession, Replaced, ReplaceFails, PromptAnswered, Aborted,
         PreflightRuns, AskPermission, AskUser, Opens, RunEnds, Exit
  <2> QED  BY <1>1, <2>1, <2>2, Zenon
<1>3. disturbed' \in BOOLEAN
  <2>1. \/ disturbed' = disturbed \/ disturbed' = FALSE \/ disturbed' = TRUE
        \/ disturbed' = (disturbed \/ Changing)
        \/ \E t, o : disturbed' = (disturbed \/ sessions[t] # o)
    BY Zenon DEF Next, ClientStep, ReadLine, Resume, Send, AnswerDialog, Timeout, Receive, Stop,
         NotFound, CreateSession, CloseLast, CloseSession, SwitchActiveSession, Fork,
         NewSession, Prompt, DialogAnswered, Abort, Created, Closed, Forked, ForkFails,
         StaysInSession, LeavesSession, Replaced, ReplaceFails, PromptAnswered, Aborted,
         PreflightRuns, AskPermission, AskUser, Opens, RunEnds, Exit
  <2> QED  BY <1>1, <2>1, Zenon
<1> QED  BY <1>2, <1>3 DEF FlagTypes

LEMMA ExitHolds ==
    ASSUME RpcInv, Exit
    PROVE  AnswerSide' /\ TabTypes' /\ WorkInv' /\ TabInv'
<1>1. /\ up' = FALSE /\ inbox' = <<>> /\ outbox' \subseteq outbox
      /\ tabs' = <<1>> /\ activeSessionId' = 1
      /\ sessions' = FirstTab(1) /\ sessionSubscriptions' = FirstTab(1)
      /\ sessionCounter' = 1 /\ made' = 1 /\ hostSession' = 1 /\ disposed' = {}
      /\ work' = [r \in Requests |-> NoWork]
      /\ UNCHANGED <<clientVars, answers>>
  BY DEF Exit
<1>2. \A r \in Requests : work'[r] = NoWork  BY <1>1
<1>3. DOMAIN inbox' = {} /\ inbox' \in Seq(Lines) /\ outbox' \subseteq Requests
  BY <1>1, SideTypes
<1>4. AnswerInv'
  <2>1. SendInv /\ PromiseInv  BY DEF RpcInv, AnswerInv
  <2>2. SendInv'  BY <1>1, <1>2, <2>1 DEF SendInv
  <2>3. PromiseInv'  BY <1>1, <2>1 DEF PromiseInv
  <2>4. InboxInv'  BY <1>3 DEF InboxInv
  <2>5. HandlerInv'  BY <1>1, <1>2, <1>3, Numbers DEF HandlerInv, Unread
  <2> QED  BY <2>2, <2>3, <2>4, <2>5 DEF AnswerInv
<1>5. ClientTypes' /\ HandlerTypes'
  BY <1>1, <1>3, SideTypes, Numbers DEF ClientTypes, HandlerTypes
<1>6. CountInv'
  <2>1. Answered' \subseteq Requests /\ Answered' \union Creating' \subseteq Requests
    BY DEF Answered, Creating
  <2>2. /\ Cardinality(Answered') \in 0..MaxRequests
        /\ Cardinality(Answered' \union Creating') \in 0..MaxRequests
    BY <2>1, OneMore
  <2> QED  BY <1>1, <2>2, Numbers DEF CountInv
<1>7. NumberTypes'  BY <1>1, Numbers DEF NumberTypes
<1>8. TabTypes'
  <2>1. FirstTab(1) \in [Tabs -> MaybeObject]  BY Numbers DEF FirstTab, MaybeObject
  <2> QED  BY <1>1, <2>1, Numbers DEF TabTypes, MaybeTab
<1>9. TabInv'  BY <1>1 DEF TabInv
<1>10. WorkInv'  BY <1>2, Numbers DEF WorkInv
<1> QED  BY <1>4, <1>5, <1>6, <1>7, <1>8, <1>9, <1>10 DEF AnswerSide

-----------------------------------------------------------------------------
\* The tabs

LEMMA TabSide ==
    ASSUME RpcInv
    PROVE  /\ tabs \in Seq(Tabs) /\ sessions \in [Tabs -> MaybeObject]
           /\ sessionSubscriptions \in [Tabs -> MaybeObject]
           /\ activeSessionId \in MaybeTab /\ hostSession \in Objects /\ disposed \subseteq Objects
           /\ Shown \subseteq Tabs
<1>1. /\ tabs \in Seq(Tabs) /\ sessions \in [Tabs -> MaybeObject]
      /\ sessionSubscriptions \in [Tabs -> MaybeObject]
      /\ activeSessionId \in MaybeTab /\ hostSession \in Objects /\ disposed \subseteq Objects
  BY SideTypes DEF TabTypes
<1>2. \A i \in DOMAIN tabs : tabs[i] \in Tabs  BY <1>1
<1> QED  BY <1>1, <1>2 DEF Shown, Range

\* Steps that leave the tabs alone, whatever commands do that change none.
LEMMA QuietTabs ==
    ASSUME RpcInv, UNCHANGED <<tabVars, makeVars, hostSession, disposed, up, disturbed>>,
           \A r \in Requests : work'[r] = work[r] \/ (~Changes(r) /\ ~Changes(r)')
    PROVE  TabTypes' /\ TabInv'
<1>1. TabTypes'  BY SideTypes DEF TabTypes
<1>2. SUFFICES ASSUME up, ~disturbed PROVE (MapInv /\ LiveInv /\ StepInv)'
  BY <1>1 DEF TabInv
<1>3. MapInv /\ LiveInv /\ StepInv /\ Shown' = Shown  BY <1>2, SideTypes DEF TabInv, Shown
<1>4. \A r \in Requests :
          \/ work'[r] = work[r]
          \/ work[r].at \notin ChangeSteps /\ work'[r].at \notin ChangeSteps
  BY DEF Changes
<1>5. \A r \in Requests : Changes(r)' <=> Changes(r)
  BY <1>4 DEF Changes
<1>6. /\ \A t : Detached(t)' <=> Detached(t)
      /\ \A o : Gone(o)' <=> Gone(o)
  BY <1>4 DEF Detached, Gone, ChangeSteps
<1>7. MapInv'  BY <1>3, <1>6 DEF MapInv
<1>8. LiveInv'  BY <1>3, <1>6 DEF LiveInv
<1>9. StepInv'  BY <1>3, <1>4, <1>5 DEF StepInv, ChangeSteps
<1> QED  BY <1>7, <1>8, <1>9

\* Between two commands that change tabs.
LEMMA Between ==
    ASSUME RpcInv, up, ~disturbed, ~Changing
    PROVE  /\ MapInv /\ LiveInv /\ StepInv
           /\ \A r \in Requests : work[r].at \notin ChangeSteps
           /\ \A t : ~Detached(t)
           /\ \A o : ~Gone(o)
           /\ \A t \in Tabs : sessionSubscriptions[t] = sessions[t]
<1>1. \A r \in Requests : work[r].at \notin ChangeSteps  BY DEF Changing, ChangeSteps
<1>2. MapInv /\ LiveInv /\ StepInv  BY SideTypes DEF TabInv
<1>3. (\A t : ~Detached(t)) /\ \A o : ~Gone(o)
  BY <1>1 DEF Detached, Gone, ChangeSteps
<1> QED  BY <1>1, <1>2, <1>3 DEF MapInv

\* A command starts when no other is under way.
LEMMA OneChanges ==
    ASSUME RpcInv, up, ~disturbed, ~Changing,
           NEW r \in Requests, NEW w \in WorkRecord, work' = [work EXCEPT ![r] = w]
    PROVE  /\ work'[r] = w
           /\ \A q \in Requests : q # r => work'[q].at \notin ChangeSteps
           /\ \A q, p \in Requests : Changes(q)' /\ Changes(p)' => q = p
<1>1. work'[r] = w /\ \A q \in Requests : q # r => work'[q] = work[q]  BY WorkWritten
<1>2. \A q \in Requests : q # r => work'[q].at \notin ChangeSteps  BY <1>1, Between
<1>3. \A q \in Requests : Changes(q)' => q = r  BY <1>2 DEF Changes
<1> QED  BY <1>1, <1>2, <1>3

\* The only command under way ends.
LEMMA NoneChanges ==
    ASSUME RpcInv, up, ~disturbed, NEW r \in Requests, work[r].at \in ChangeSteps,
           work' = [work EXCEPT ![r] = NoWork]
    PROVE  /\ MapInv /\ LiveInv /\ StepInv
           /\ \A q \in Requests : q # r => work[q].at \notin ChangeSteps
           /\ \A q \in Requests : work'[q].at \notin ChangeSteps
           /\ \A q \in Requests : ~Changes(q)'
           /\ \A t : ~Detached(t)'
           /\ \A o : ~Gone(o)'
<1>1. MapInv /\ LiveInv /\ StepInv  BY SideTypes DEF TabInv
<1>2. \A q \in Requests : q # r => work[q].at \notin ChangeSteps
  BY <1>1 DEF StepInv, Changes
<1>3. work'[r] = NoWork /\ \A q \in Requests : q # r => work'[q] = work[q]
  BY WorkWritten, Numbers
<1>4. \A q \in Requests : work'[q].at \notin ChangeSteps
  BY <1>2, <1>3, Numbers DEF ChangeSteps
<1>5. (\A t : ~Detached(t)') /\ (\A o : ~Gone(o)') /\ \A q \in Requests : ~Changes(q)'
  BY <1>4 DEF Detached, Gone, ChangeSteps, Changes
<1> QED  BY <1>1, <1>2, <1>4, <1>5

LEMMA CreateSessionTabs ==
    ASSUME RpcInv, NEW c \in Heads, CreateSession(c)
    PROVE  TabTypes' /\ WorkInv' /\ TabInv'
<1> DEFINE w == [NoWork EXCEPT !.at = "creating", !.tab = sessionCounter + 1]
<1>1. /\ up /\ c.kind \in Kinds /\ work' = [work EXCEPT ![c.id] = w]
      /\ sessionCounter' = sessionCounter + 1 /\ up' = up
      /\ disturbed' = (disturbed \/ Changing)
      /\ UNCHANGED <<tabVars, made, hostSession, disposed>>
  BY DEF CreateSession, Read, Await, Kinds, Structural
<1>2. c.id \in Requests /\ sessionCounter + 1 \in Tabs  BY <1>1, Reading, Room, Numbers
<1>3. w \in WorkRecord /\ w.at = "creating" /\ w.tab = sessionCounter + 1
  BY <1>2 DEF NoWork, WorkRecord, Awaits, MaybeTab, MaybeObject
<1> HIDE DEF w
<1>4. TabTypes'  BY <1>1, SideTypes DEF TabTypes
<1>5. work'[c.id] = w /\ \A q \in Requests : q # c.id => work'[q] = work[q]
  BY <1>1, <1>2, <1>3, WorkWritten
<1>6. WorkInv'  BY <1>2, <1>3, <1>5, SideTypes DEF WorkInv
<1>7. ASSUME ~disturbed' PROVE (MapInv /\ LiveInv /\ StepInv)'
  <2>1. ~disturbed /\ ~Changing /\ Shown' = Shown  BY <1>1, <1>7 DEF Shown
  <2>2. /\ MapInv /\ LiveInv /\ StepInv
        /\ \A q \in Requests : work[q].at \notin ChangeSteps
        /\ \A t \in Tabs : sessionSubscriptions[t] = sessions[t]
        /\ \A o : ~Gone(o)
    BY <1>1, <2>1, Between
  <2>3. (\A t : ~Detached(t)') /\ \A o : ~Gone(o)'
    BY <1>3, <1>5, <2>2 DEF Detached, Gone, ChangeSteps
  <2>4. MapInv'  BY <1>1, <2>1, <2>2, <2>3 DEF MapInv
  <2>5. LiveInv'  BY <1>1, <2>1, <2>2, <2>3 DEF LiveInv
  <2>6. StepInv'
    <3>1. /\ \A t \in Shown : t <= sessionCounter /\ t \in Nat
          /\ sessionCounter \in Nat
      BY <2>2, TabSide, SideTypes, Numbers DEF StepInv
    <3>2. sessionCounter + 1 \in Tabs \ Shown  BY <1>2, <3>1
    <3>3. \A q, p \in Requests : Changes(q)' /\ Changes(p)' => q = p
      BY <1>1, <1>2, <1>3, <2>1, OneChanges
    <3>4. \A t \in Shown : t <= sessionCounter'  BY <1>1, <3>1
    <3>5. \A q \in Requests : work'[q].at \in ChangeSteps =>
              q = c.id /\ work'[q].at = "creating" /\ work'[q].tab \in Tabs \ Shown
              /\ work'[q].tab <= sessionCounter'
      BY <1>1, <1>3, <1>5, <2>2, <3>1, <3>2
    <3> QED  BY <1>1, <2>1, <3>3, <3>4, <3>5 DEF StepInv, ChangeSteps
  <2> QED  BY <2>4, <2>5, <2>6
<1> QED  BY <1>4, <1>6, <1>7 DEF TabInv

LEMMA CloseSessionTabs ==
    ASSUME RpcInv, NEW c \in Heads, CloseSession(c)
    PROVE  TabTypes' /\ WorkInv' /\ TabInv'
<1> DEFINE tab == Target(c)
           w == [NoWork EXCEPT !.at = "closing", !.tab = tab, !.object = sessions[tab],
                               !.wasActive = (activeSessionId = tab)]
<1>1. /\ up /\ c.kind \in Kinds /\ Found(c) /\ Len(tabs) > 1
      /\ work' = [work EXCEPT ![c.id] = w]
      /\ sessionSubscriptions' = [sessionSubscriptions EXCEPT ![tab] = None]
      /\ up' = up /\ disturbed' = (disturbed \/ Changing)
      /\ UNCHANGED <<tabs, sessions, activeSessionId, makeVars, hostSession, disposed>>
  BY DEF CloseSession, Read, Await, Unsubscribe, Kinds, Structural
<1>2. /\ c.id \in Requests /\ tab \in Tabs /\ sessions[tab] \in Objects
      /\ ~disturbed => tab \in Shown
  BY <1>1, Reading, FoundTab
<1> HIDE DEF tab
<1>3. w \in WorkRecord /\ w.at = "closing" /\ w.tab = tab /\ w.object = sessions[tab]
  <2>1. (activeSessionId = tab) \in BOOLEAN /\ tab \in MaybeTab /\ sessions[tab] \in MaybeObject
    BY <1>2 DEF MaybeTab, MaybeObject
  <2> QED  BY <2>1 DEF NoWork, WorkRecord, Awaits
<1>4. w.wasActive <=> activeSessionId = tab  BY DEF NoWork
<1> HIDE DEF w
<1>5. TabTypes'  BY <1>1, TabSide DEF TabTypes, MaybeObject
<1>6. work'[c.id] = w /\ \A q \in Requests : q # c.id => work'[q] = work[q]
  BY <1>1, <1>2, <1>3, WorkWritten
<1>7. WorkInv'  BY <1>2, <1>3, <1>6, SideTypes DEF WorkInv
<1>8. ASSUME ~disturbed' PROVE (MapInv /\ LiveInv /\ StepInv)'
  <2>1. ~disturbed /\ ~Changing /\ Shown' = Shown  BY <1>1, <1>8 DEF Shown
  <2>2. /\ MapInv /\ LiveInv /\ StepInv
        /\ \A q \in Requests : work[q].at \notin ChangeSteps
        /\ \A t \in Tabs : sessionSubscriptions[t] = sessions[t]
        /\ \A o : ~Gone(o)
    BY <1>1, <2>1, Between
  <2>3. (\A t : Detached(t)' <=> t = tab) /\ \A o : ~Gone(o)'
    BY <1>2, <1>3, <1>6, <2>2 DEF Detached, Gone, ChangeSteps
  <2>4. \A t \in Tabs : sessionSubscriptions'[t] = IF t = tab THEN None ELSE sessions[t]
    BY <1>1, <1>2, <2>2, TabSide
  <2>5. MapInv'  BY <1>1, <2>1, <2>2, <2>3, <2>4 DEF MapInv
  <2>6. LiveInv'  BY <1>1, <2>1, <2>2, <2>3 DEF LiveInv
  <2>7. StepInv'
    <3>1. \A q, p \in Requests : Changes(q)' /\ Changes(p)' => q = p
      BY <1>1, <1>2, <1>3, <2>1, OneChanges
    <3>2. \A q \in Requests : work'[q].at \in ChangeSteps => q = c.id /\ work'[q] = w
      BY <1>6, <2>2
    <3> QED  BY <1>1, <1>2, <1>3, <1>4, <2>1, <2>2, <3>1, <3>2 DEF StepInv, ChangeSteps
  <2> QED  BY <2>5, <2>6, <2>7
<1> QED  BY <1>5, <1>7, <1>8 DEF TabInv

LEMMA NewSessionTabs ==
    ASSUME RpcInv, NEW c \in Heads, NewSession(c)
    PROVE  TabTypes' /\ WorkInv' /\ TabInv'
<1> DEFINE w == [NoWork EXCEPT !.at = "leaving"]
<1>1. /\ up /\ c.kind \in Kinds /\ work' = [work EXCEPT ![c.id] = w]
      /\ up' = up /\ disturbed' = (disturbed \/ Changing)
      /\ UNCHANGED <<tabVars, makeVars, hostSession, disposed>>
  BY DEF NewSession, Read, Await, Kinds, Structural
<1>2. c.id \in Requests  BY <1>1, Reading
<1>3. w \in WorkRecord /\ w.at = "leaving"
  BY DEF NoWork, WorkRecord, Awaits, MaybeTab, MaybeObject
<1> HIDE DEF w
<1>4. TabTypes'  BY <1>1, SideTypes DEF TabTypes
<1>5. work'[c.id] = w /\ \A q \in Requests : q # c.id => work'[q] = work[q]
  BY <1>1, <1>2, <1>3, WorkWritten
<1>6. WorkInv'  BY <1>2, <1>3, <1>5, SideTypes DEF WorkInv
<1>7. ASSUME ~disturbed' PROVE (MapInv /\ LiveInv /\ StepInv)'
  <2>1. ~disturbed /\ ~Changing /\ Shown' = Shown  BY <1>1, <1>7 DEF Shown
  <2>2. /\ MapInv /\ LiveInv /\ StepInv
        /\ \A q \in Requests : work[q].at \notin ChangeSteps
        /\ \A t \in Tabs : sessionSubscriptions[t] = sessions[t]
        /\ \A o : ~Gone(o)
    BY <1>1, <2>1, Between
  <2>3. (\A t : ~Detached(t)') /\ \A o : ~Gone(o)'
    BY <1>3, <1>5, <2>2 DEF Detached, Gone, ChangeSteps
  <2>4. MapInv'  BY <1>1, <2>1, <2>2, <2>3 DEF MapInv
  <2>5. LiveInv'  BY <1>1, <2>1, <2>2, <2>3 DEF LiveInv
  <2>6. StepInv'
    <3>1. \A q, p \in Requests : Changes(q)' /\ Changes(p)' => q = p
      BY <1>1, <1>2, <1>3, <2>1, OneChanges
    <3>2. \A q \in Requests : work'[q].at \in ChangeSteps => work'[q].at = "leaving"
      BY <1>3, <1>5, <2>2
    <3> QED  BY <1>1, <2>1, <2>2, <3>1, <3>2 DEF StepInv, ChangeSteps
  <2> QED  BY <2>4, <2>5, <2>6
<1> QED  BY <1>4, <1>6, <1>7 DEF TabInv

LEMMA ForkTabs ==
    ASSUME RpcInv, NEW c \in Heads, Fork(c), work' # work
    PROVE  TabTypes' /\ WorkInv' /\ TabInv'
<1> DEFINE tab == Target(c)
           w == [NoWork EXCEPT !.at = "forking", !.tab = tab]
<1>1. /\ up /\ c.kind \in Kinds /\ Found(c)
      /\ work' = [work EXCEPT ![c.id] = w]
      /\ sessionSubscriptions' = [sessionSubscriptions EXCEPT ![tab] = None]
      /\ disposed' = disposed \union {sessions[tab]}
      /\ up' = up /\ disturbed' = (disturbed \/ Changing)
      /\ UNCHANGED <<tabs, sessions, activeSessionId, makeVars, hostSession>>
  BY DEF Fork, Read, Await, Unsubscribe, Kinds, Structural
<1>2. /\ c.id \in Requests /\ tab \in Tabs /\ sessions[tab] \in Objects
      /\ ~disturbed => tab \in Shown
  BY <1>1, Reading, FoundTab
<1> HIDE DEF tab
<1>3. w \in WorkRecord /\ w.at = "forking" /\ w.tab = tab
  BY <1>2 DEF NoWork, WorkRecord, Awaits, MaybeTab, MaybeObject
<1> HIDE DEF w
<1>4. TabTypes'  BY <1>1, <1>2, TabSide DEF TabTypes, MaybeObject
<1>5. work'[c.id] = w /\ \A q \in Requests : q # c.id => work'[q] = work[q]
  BY <1>1, <1>2, <1>3, WorkWritten
<1>6. WorkInv'  BY <1>2, <1>3, <1>5, SideTypes DEF WorkInv
<1>7. ASSUME ~disturbed' PROVE (MapInv /\ LiveInv /\ StepInv)'
  <2>1. ~disturbed /\ ~Changing /\ Shown' = Shown  BY <1>1, <1>7 DEF Shown
  <2>2. /\ MapInv /\ LiveInv /\ StepInv
        /\ \A q \in Requests : work[q].at \notin ChangeSteps
        /\ \A t \in Tabs : sessionSubscriptions[t] = sessions[t]
        /\ \A o : ~Gone(o)
    BY <1>1, <2>1, Between
  <2>3. (\A t : Detached(t)' <=> t = tab) /\ \A o : Gone(o)' <=> o = sessions[tab]
    BY <1>1, <1>2, <1>3, <1>5, <2>2 DEF Detached, Gone, ChangeSteps
  <2>4. \A t \in Tabs : sessionSubscriptions'[t] = IF t = tab THEN None ELSE sessions[t]
    BY <1>1, <1>2, <2>2, TabSide
  <2>5. MapInv'  BY <1>1, <2>1, <2>2, <2>3, <2>4 DEF MapInv
  <2>6. LiveInv'  BY <1>1, <1>2, <2>1, <2>2, <2>3 DEF LiveInv
  <2>7. StepInv'
    <3>1. \A q, p \in Requests : Changes(q)' /\ Changes(p)' => q = p
      BY <1>1, <1>2, <1>3, <2>1, OneChanges
    <3>2. \A q \in Requests : work'[q].at \in ChangeSteps => q = c.id /\ work'[q] = w
      BY <1>5, <2>2
    <3> QED  BY <1>1, <1>2, <1>3, <2>1, <2>2, <3>1, <3>2 DEF StepInv, ChangeSteps
  <2> QED  BY <2>5, <2>6, <2>7
<1> QED  BY <1>4, <1>6, <1>7 DEF TabInv

\* registerSession: the tab is one of the tabs, once, and shows the session.
LEMMA ShowTypes ==
    ASSUME RpcInv, NEW tab \in Tabs, NEW o \in Objects, Show(tab, o),
           UNCHANGED disposed, hostSession' \in Objects
    PROVE  /\ TabTypes'
           /\ sessions'[tab] = o /\ \A t \in Tabs : t # tab => sessions'[t] = sessions[t]
           /\ sessionSubscriptions'[tab] = o
           /\ \A t \in Tabs : t # tab => sessionSubscriptions'[t] = sessionSubscriptions[t]
           /\ activeSessionId' = tab
<1>1. /\ tabs' = IF sessions[tab] = None THEN Append(tabs, tab) ELSE tabs
      /\ sessions' = [sessions EXCEPT ![tab] = o]
      /\ sessionSubscriptions' = [sessionSubscriptions EXCEPT ![tab] = o]
      /\ activeSessionId' = tab
  BY DEF Show
<1>2. tabs' \in Seq(Tabs)  BY <1>1, TabSide
<1> QED  BY <1>1, <1>2, TabSide DEF TabTypes, MaybeObject, MaybeTab

LEMMA ShowMap ==
    ASSUME RpcInv, MapInv, NEW tab \in Tabs, NEW o, Show(tab, o)
    PROVE  /\ Shown' = Shown \union {tab}
           /\ \A i, j \in DOMAIN tabs' : tabs'[i] = tabs'[j] => i = j
<1>1. CASE sessions[tab] = None
  <2>1. tabs' = Append(tabs, tab) /\ tabs \in Seq(Tabs)  BY <1>1, TabSide DEF Show
  <2>2. /\ Len(tabs) \in Nat /\ DOMAIN tabs = 1..Len(tabs)
        /\ DOMAIN tabs' = 1..(Len(tabs) + 1) /\ tabs'[Len(tabs) + 1] = tab
        /\ \A i \in 1..Len(tabs) : tabs'[i] = tabs[i]
    BY <2>1
  <2>3. \A i \in DOMAIN tabs : tabs[i] # tab
    BY <1>1 DEF MapInv, Shown, Range
  <2>4. \A i \in DOMAIN tabs' : i \in DOMAIN tabs \/ i = Len(tabs) + 1  BY <2>2
  <2>5. \A i, j \in DOMAIN tabs' : tabs'[i] = tabs'[j] => i = j
    BY <2>2, <2>3, <2>4 DEF MapInv
  <2>6. Shown' = Shown \union {tab}
    <3>1. ASSUME NEW t \in Shown' PROVE t \in Shown \union {tab}
      BY <2>2, <2>4 DEF Shown, Range
    <3>2. tab \in Shown'
      <4>1. Len(tabs) + 1 \in DOMAIN tabs'  BY <2>2
      <4> QED  BY <2>2, <4>1 DEF Shown, Range
    <3>3. ASSUME NEW t \in Shown PROVE t \in Shown'
      <4>1. PICK i \in DOMAIN tabs : t = tabs[i]  BY DEF Shown, Range
      <4>2. i \in DOMAIN tabs' /\ tabs'[i] = t  BY <2>2, <4>1
      <4> QED  BY <4>2 DEF Shown, Range
    <3> QED  BY <3>1, <3>2, <3>3
  <2> QED  BY <2>5, <2>6
<1>2. CASE sessions[tab] # None
  <2>1. tabs' = tabs /\ tab \in Shown  BY <1>2 DEF Show, MapInv
  <2> QED  BY <2>1 DEF MapInv, Shown
<1> QED  BY <1>1, <1>2

\* sessions.delete
LEMMA WithoutTypes ==
    ASSUME NEW s \in Seq(Tabs), NEW t
    PROVE  /\ Without(s, t) \in Seq(Tabs)
           /\ t \notin Range(s) => Without(s, t) = s
           /\ t \in Range(s) =>
                \E k \in 1..Len(s) :
                   /\ s[k] = t
                   /\ Len(Without(s, t)) = Len(s) - 1
                   /\ \A i \in 1..(Len(s) - 1) :
                         Without(s, t)[i] = IF i < k THEN s[i] ELSE s[i + 1]
<1>1. CASE t \notin Range(s)  BY <1>1 DEF Without
<1>2. CASE t \in Range(s)
  <2> DEFINE k == CHOOSE i \in DOMAIN s : s[i] = t
  <2>1. k \in DOMAIN s /\ s[k] = t  BY <1>2 DEF Range
  <2>2. k \in 1..Len(s) /\ Len(s) \in Nat  BY <2>1
  <2>3. Without(s, t) = SubSeq(s, 1, k - 1) \o SubSeq(s, k + 1, Len(s))
    BY <1>2 DEF Without, RemoveAt
  <2> HIDE DEF k
  <2> DEFINE a == SubSeq(s, 1, k - 1)
             b == SubSeq(s, k + 1, Len(s))
  <2>4. /\ a \in Seq(Tabs) /\ Len(a) = k - 1 /\ \A i \in 1..(k - 1) : a[i] = s[i]
    BY <2>2
  <2>5. /\ b \in Seq(Tabs) /\ Len(b) = Len(s) - k
        /\ \A i \in 1..(Len(s) - k) : b[i] = s[k + i]
    BY <2>2
  <2> HIDE DEF a, b
  <2>6. /\ a \o b \in Seq(Tabs) /\ Len(a \o b) = Len(s) - 1
        /\ \A i \in 1..(Len(s) - 1) :
              (a \o b)[i] = IF i <= k - 1 THEN a[i] ELSE b[i - (k - 1)]
    <3>1. a \in Seq(Tabs) /\ b \in Seq(Tabs)  BY <2>4, <2>5
    <3>2. /\ a \o b \in Seq(Tabs) /\ Len(a \o b) = Len(a) + Len(b)
          /\ \A i \in 1..(Len(a) + Len(b)) :
                (a \o b)[i] = IF i <= Len(a) THEN a[i] ELSE b[i - Len(a)]
      BY <3>1
    <3>3. Len(a) = k - 1 /\ Len(a) + Len(b) = Len(s) - 1  BY <2>2, <2>4, <2>5
    <3> QED  BY <3>2, <3>3
  <2>7. \A i \in 1..(Len(s) - 1) : (a \o b)[i] = IF i < k THEN s[i] ELSE s[i + 1]
    <3> SUFFICES ASSUME NEW i \in 1..(Len(s) - 1)
                 PROVE  (a \o b)[i] = IF i < k THEN s[i] ELSE s[i + 1]
      OBVIOUS
    <3>1. CASE i < k  BY <2>2, <2>4, <2>6, <3>1
    <3>2. CASE ~(i < k)
      <4>1. i - (k - 1) \in 1..(Len(s) - k) /\ k + (i - (k - 1)) = i + 1
        BY <2>2, <3>2
      <4> QED  BY <2>2, <2>5, <2>6, <3>2, <4>1
    <3> QED  BY <3>1, <3>2
  <2>8. Without(s, t) = a \o b  BY <2>3 DEF a, b
  <2> QED  BY <1>2, <2>1, <2>2, <2>6, <2>7, <2>8
<1> QED  BY <1>1, <1>2

LEMMA WithoutMap ==
    ASSUME RpcInv, MapInv, NEW tab \in Shown, tabs' = Without(tabs, tab)
    PROVE  /\ Shown' = Shown \ {tab}
           /\ \A i, j \in DOMAIN tabs' : tabs'[i] = tabs'[j] => i = j
           /\ Len(tabs') = Len(tabs) - 1
<1>1. tabs \in Seq(Tabs)  BY TabSide
<1>2. /\ tabs' \in Seq(Tabs)
      /\ \E k \in 1..Len(tabs) :
             /\ tabs[k] = tab /\ Len(tabs') = Len(tabs) - 1
             /\ \A i \in 1..(Len(tabs) - 1) : tabs'[i] = IF i < k THEN tabs[i] ELSE tabs[i + 1]
  BY <1>1, WithoutTypes DEF Shown
<1>3. PICK k \in 1..Len(tabs) :
             /\ tabs[k] = tab /\ Len(tabs') = Len(tabs) - 1
             /\ \A i \in 1..(Len(tabs) - 1) : tabs'[i] = IF i < k THEN tabs[i] ELSE tabs[i + 1]
  BY <1>2
<1>4. Len(tabs) \in Nat /\ DOMAIN tabs = 1..Len(tabs) /\ DOMAIN tabs' = 1..(Len(tabs) - 1)
  BY <1>1, <1>2, <1>3
<1> DEFINE old(i) == IF i < k THEN i ELSE i + 1
<1>5. \A i \in DOMAIN tabs' : old(i) \in DOMAIN tabs /\ old(i) # k /\ tabs'[i] = tabs[old(i)]
  BY <1>3, <1>4
<1>6. \A i, j \in DOMAIN tabs' : old(i) = old(j) => i = j  BY <1>4
<1>7. \A j \in DOMAIN tabs : j # k => \E i \in DOMAIN tabs' : j = old(i)
  <2> SUFFICES ASSUME NEW j \in DOMAIN tabs, j # k
               PROVE  \E i \in DOMAIN tabs' : j = old(i)
    OBVIOUS
  <2>1. CASE j < k  BY <1>4, <2>1
  <2>2. CASE ~(j < k)
    <3>1. j - 1 \in DOMAIN tabs' /\ j = old(j - 1)  BY <1>4, <2>2
    <3> QED  BY <3>1
  <2> QED  BY <2>1, <2>2
<1> HIDE DEF old
<1>8. \A i, j \in DOMAIN tabs : tabs[i] = tabs[j] => i = j  BY DEF MapInv
<1>9. \A i, j \in DOMAIN tabs' : tabs'[i] = tabs'[j] => i = j
  BY <1>5, <1>6, <1>8
<1>10. Shown' = Shown \ {tab}
  <2>1. ASSUME NEW t \in Shown' PROVE t \in Shown \ {tab}
    <3>1. PICK i \in DOMAIN tabs' : t = tabs'[i]  BY DEF Shown, Range
    <3>2. t = tabs[old(i)] /\ old(i) \in DOMAIN tabs /\ old(i) # k  BY <1>5, <3>1
    <3>3. t # tab  BY <1>3, <1>4, <1>8, <3>2
    <3> QED  BY <3>2, <3>3 DEF Shown, Range
  <2>2. ASSUME NEW t \in Shown \ {tab} PROVE t \in Shown'
    <3>1. PICK j \in DOMAIN tabs : t = tabs[j]  BY DEF Shown, Range
    <3>2. PICK i \in DOMAIN tabs' : j = old(i)  BY <1>3, <1>7, <3>1
    <3>3. t = tabs'[i]  BY <1>5, <3>1, <3>2
    <3> QED  BY <3>3 DEF Shown, Range
  <2> QED  BY <2>1, <2>2
<1> QED  BY <1>3, <1>9, <1>10

LEMMA SwitchActiveTabs ==
    ASSUME RpcInv, NEW c \in Heads, SwitchActiveSession(c)
    PROVE  TabTypes' /\ WorkInv' /\ TabInv'
<1>1. /\ up /\ c.kind \in Kinds /\ Found(c) /\ activeSessionId' = Target(c)
      /\ up' = up /\ disturbed' = (disturbed \/ Changing)
      /\ UNCHANGED <<tabs, sessions, sessionSubscriptions, makeVars, hostSession, disposed, work>>
  BY DEF SwitchActiveSession, Read, Kinds, Structural
<1>2. Target(c) \in Tabs /\ (~disturbed => Target(c) \in Shown)
  BY <1>1, FoundTab
<1>3. TabTypes'  BY <1>1, <1>2, TabSide DEF TabTypes, MaybeTab
<1>4. WorkInv'  BY <1>1, SideTypes DEF WorkInv
<1>5. ASSUME ~disturbed' PROVE (MapInv /\ LiveInv /\ StepInv)'
  <2>1. ~disturbed /\ ~Changing /\ Shown' = Shown  BY <1>1, <1>5 DEF Shown
  <2>2. /\ MapInv /\ LiveInv /\ StepInv
        /\ \A q \in Requests : work[q].at \notin ChangeSteps
        /\ \A t : ~Detached(t)
        /\ \A o : ~Gone(o)
    BY <1>1, <2>1, Between
  <2>3. /\ \A q \in Requests : work'[q].at \notin ChangeSteps
        /\ (\A t : ~Detached(t)') /\ \A o : ~Gone(o)'
    BY <1>1, <2>2 DEF Detached, Gone
  <2>4. MapInv'  BY <1>1, <1>2, <2>1, <2>2, <2>3 DEF MapInv
  <2>5. LiveInv'  BY <1>1, <2>1, <2>2, <2>3 DEF LiveInv
  <2>6. StepInv'  BY <1>1, <2>1, <2>2, <2>3 DEF StepInv, Changes, ChangeSteps
  <2> QED  BY <2>4, <2>5, <2>6
<1> QED  BY <1>3, <1>4, <1>5 DEF TabInv

\* A handler that ends lets go of what it had.
LEMMA EndedWork ==
    ASSUME RpcInv, NEW r \in Requests, Done(r)
    PROVE  WorkInv' /\ work' = [work EXCEPT ![r] = NoWork]
<1>1. work' = [work EXCEPT ![r] = NoWork]  BY DEF Done
<1>2. work'[r] = NoWork /\ \A q \in Requests : q # r => work'[q] = work[q]
  BY <1>1, WorkWritten, Numbers
<1> QED  BY <1>1, <1>2, SideTypes, Numbers DEF WorkInv

\* A session that could be made for a command, under a number of its own.
LEMMA NewObject ==
    ASSUME RpcInv, NEW r \in Requests, up, work[r].at # "none"
    PROVE  made + 1 \in Objects /\ made \in Nat
BY Place, Room, SideTypes, Numbers

LEMMA CreatedTabs ==
    ASSUME RpcInv, NEW r \in Requests, Created(r)
    PROVE  TabTypes' /\ WorkInv' /\ TabInv'
<1> DEFINE tab == work[r].tab
<1>1. /\ up /\ work[r].at = "creating" /\ Done(r)
      /\ up' = up /\ disturbed' = disturbed
      /\ UNCHANGED <<sessionCounter, hostSession, disposed>>
      /\ \/ made' = made + 1 /\ Show(tab, made')
         \/ made' = made /\ UNCHANGED tabVars
  BY DEF Created
<1>2. WorkInv' /\ work' = [work EXCEPT ![r] = NoWork]  BY <1>1, EndedWork
<1>3. tab \in Tabs /\ made + 1 \in Objects /\ made \in Nat
  BY <1>1, SideTypes, NewObject DEF WorkInv
<1> HIDE DEF tab
<1>4. ASSUME ~disturbed
      PROVE  /\ MapInv /\ LiveInv /\ StepInv
             /\ \A q \in Requests : ~Changes(q)' /\ work'[q].at \notin ChangeSteps
             /\ (\A t : ~Detached(t) /\ ~Detached(t)') /\ \A o : ~Gone(o) /\ ~Gone(o)'
             /\ tab \in Tabs \ Shown /\ tab <= sessionCounter
  <2>1. /\ MapInv /\ LiveInv /\ StepInv
        /\ \A q \in Requests : q # r => work[q].at \notin ChangeSteps
        /\ \A q \in Requests : ~Changes(q)' /\ work'[q].at \notin ChangeSteps
        /\ (\A t : ~Detached(t)') /\ \A o : ~Gone(o)'
    BY <1>1, <1>2, <1>4, NoneChanges DEF ChangeSteps
  <2>2. (\A t : ~Detached(t)) /\ \A o : ~Gone(o)
    BY <1>1, <2>1 DEF Detached, Gone, ChangeSteps
  <2>3. tab \in Tabs \ Shown /\ tab <= sessionCounter  BY <1>1, <2>1 DEF StepInv, tab
  <2> QED  BY <2>1, <2>2, <2>3
<1>5. CASE made' = made /\ UNCHANGED tabVars
  <2>1. TabTypes'  BY <1>1, <1>5, TabSide DEF TabTypes
  <2>2. ASSUME ~disturbed PROVE (MapInv /\ LiveInv /\ StepInv)'
    <3>1. Shown' = Shown  BY <1>5 DEF Shown
    <3>2. MapInv'  BY <1>4, <1>5, <2>2, <3>1 DEF MapInv
    <3>3. LiveInv'  BY <1>1, <1>4, <1>5, <2>2, <3>1 DEF LiveInv
    <3>4. StepInv'  BY <1>1, <1>4, <1>5, <2>2, <3>1 DEF StepInv, ChangeSteps
    <3> QED  BY <3>2, <3>3, <3>4
  <2> QED  BY <1>1, <1>2, <2>1, <2>2 DEF TabInv
<1>6. CASE made' = made + 1 /\ Show(tab, made')
  <2>1. /\ TabTypes' /\ sessions'[tab] = made + 1 /\ sessionSubscriptions'[tab] = made + 1
        /\ \A t \in Tabs : t # tab => sessions'[t] = sessions[t]
                                      /\ sessionSubscriptions'[t] = sessionSubscriptions[t]
        /\ activeSessionId' = tab
    BY <1>1, <1>3, <1>6, ShowTypes, TabSide
  <2>2. ASSUME ~disturbed PROVE (MapInv /\ LiveInv /\ StepInv)'
    <3>1. /\ Shown' = Shown \union {tab} /\ Shown \subseteq Tabs
          /\ \A i, j \in DOMAIN tabs' : tabs'[i] = tabs'[j] => i = j
      BY <1>3, <1>4, <1>6, <2>2, ShowMap, TabSide
    <3>2. \A t \in Shown : t # tab /\ sessions'[t] = sessions[t] /\ sessions[t] <= made
                           /\ sessions[t] # made + 1
      <4>1. \A t \in Shown : sessions[t] \in Nat  BY TabSide, Numbers DEF MaybeObject
      <4> QED  BY <1>3, <1>4, <2>1, <2>2, <3>1, <4>1 DEF LiveInv
    <3>3. MapInv'
      <4>1. \A s, t \in Shown' : sessions'[s] = sessions'[t] => s = t
        BY <1>4, <2>1, <2>2, <3>1, <3>2 DEF MapInv
      <4>2. \A t \in Tabs : /\ sessions'[t] # None <=> t \in Shown'
                            /\ sessionSubscriptions'[t] = sessions'[t]
        BY <1>3, <1>4, <2>1, <2>2, <3>1, Numbers DEF MapInv
      <4> QED  BY <1>4, <2>1, <2>2, <3>1, <4>1, <4>2 DEF MapInv
    <3>4. LiveInv'
      <4>1. \A t \in Shown' : sessions'[t] <= made'
        BY <1>3, <1>6, <2>1, <3>1, <3>2, TabSide, Numbers DEF MaybeObject
      <4>2. hostSession' <= made' /\ \A o \in disposed' : o <= made' /\ o # made + 1
        BY <1>1, <1>3, <1>4, <1>6, <2>2, TabSide, Numbers DEF LiveInv
      <4>3. ASSUME NEW o \in 1..made'
            PROVE  o \notin disposed' <=> (\E t \in Shown' : sessions'[t] = o) /\ ~Gone(o)'
        <5>1. CASE o = made + 1
          BY <1>3, <1>4, <2>1, <2>2, <3>1, <4>2, <5>1
        <5>2. CASE o # made + 1
          <6>1. o \in 1..made  BY <1>3, <1>6, <5>2
          <6>2. (\E t \in Shown' : sessions'[t] = o) <=> \E t \in Shown : sessions[t] = o
            BY <2>1, <3>1, <3>2, <5>2
          <6> QED  BY <1>1, <1>4, <2>2, <6>1, <6>2 DEF LiveInv
        <5> QED  BY <5>1, <5>2
      <4> QED  BY <4>1, <4>2, <4>3 DEF LiveInv
    <3>5. StepInv'
      BY <1>1, <1>4, <2>2, <3>1 DEF StepInv, ChangeSteps
    <3> QED  BY <3>3, <3>4, <3>5
  <2> QED  BY <1>1, <1>2, <2>1, <2>2 DEF TabInv
<1> QED  BY <1>1, <1>5, <1>6

\* fork and the replacement of the runtime's session: a tab that shows a
\* disposed session shows its successor.
LEMMA ReshownTabs ==
    ASSUME RpcInv, MapInv, LiveInv, NEW tab \in Shown, made + 1 \in Objects,
           made' = made + 1, Show(tab, made'), disposed' = disposed,
           hostSession' \in Objects, hostSession' <= made',
           \A o : Gone(o) <=> o = sessions[tab],
           \A t : Detached(t) => t = tab,
           \A t : ~Detached(t)',
           \A o : ~Gone(o)'
    PROVE  MapInv' /\ LiveInv' /\ Shown' = Shown
<1>1. tab \in Tabs /\ made \in Nat /\ Shown \subseteq Tabs /\ disposed \subseteq Objects
  BY TabSide, SideTypes, Numbers
<1>2. /\ sessions'[tab] = made + 1 /\ sessionSubscriptions'[tab] = made + 1
      /\ \A t \in Tabs : t # tab => sessions'[t] = sessions[t]
                                    /\ sessionSubscriptions'[t] = sessionSubscriptions[t]
      /\ activeSessionId' = tab
  BY <1>1, ShowTypes
<1>3. /\ Shown' = Shown
      /\ \A i, j \in DOMAIN tabs' : tabs'[i] = tabs'[j] => i = j
  BY <1>1, ShowMap
<1>4. \A t \in Shown : sessions[t] <= made /\ sessions[t] \in Nat /\ sessions[t] # made + 1
  <2>1. \A t \in Shown : sessions[t] \in Nat /\ sessions[t] <= made
    BY <1>1, TabSide, Numbers DEF MaybeObject, LiveInv
  <2> QED  BY <1>1, <2>1
<1>5. MapInv'
  <2>1. \A s, t \in Shown : sessions'[s] = sessions'[t] => s = t
    BY <1>1, <1>2, <1>4 DEF MapInv
  <2>2. \A t \in Tabs : /\ sessions'[t] # None <=> t \in Shown
                        /\ sessionSubscriptions'[t] = sessions'[t]
    BY <1>1, <1>2, Numbers DEF MapInv
  <2> QED  BY <1>2, <1>3, <2>1, <2>2 DEF MapInv
<1>6. LiveInv'
  <2>1. \A t \in Shown : sessions'[t] <= made'  BY <1>1, <1>2, <1>4
  <2>2. \A o \in disposed : o <= made' /\ o # made + 1
    BY <1>1, Numbers DEF LiveInv
  <2>3. ASSUME NEW o \in 1..made'
        PROVE  o \notin disposed <=> \E t \in Shown : sessions'[t] = o
    <3>1. CASE o = made + 1  BY <1>2, <2>2, <3>1
    <3>2. CASE o # made + 1
      <4>1. o \in 1..made  BY <1>1, <3>2
      <4>2. (\E t \in Shown : sessions'[t] = o)
              <=> (\E t \in Shown : sessions[t] = o) /\ o # sessions[tab]
        BY <1>1, <1>2, <3>2 DEF MapInv
      <4> QED  BY <4>1, <4>2 DEF LiveInv
    <3> QED  BY <3>1, <3>2
  <2> QED  BY <1>3, <2>1, <2>2, <2>3 DEF LiveInv
<1> QED  BY <1>3, <1>5, <1>6

LEMMA ForkedTabs ==
    ASSUME RpcInv, NEW r \in Requests, Forked(r)
    PROVE  TabTypes' /\ WorkInv' /\ TabInv'
<1> DEFINE tab == work[r].tab
<1>1. /\ up /\ work[r].at = "forking" /\ Done(r)
      /\ up' = up /\ disturbed' = disturbed /\ made' = made + 1 /\ Show(tab, made')
      /\ UNCHANGED <<sessionCounter, hostSession, disposed>>
  BY DEF Forked
<1>2. WorkInv' /\ work' = [work EXCEPT ![r] = NoWork]  BY <1>1, EndedWork
<1>3. tab \in Tabs /\ made + 1 \in Objects /\ made \in Nat /\ hostSession \in Objects
  BY <1>1, SideTypes, TabSide, NewObject DEF WorkInv
<1>4. TabTypes'  BY <1>1, <1>3, ShowTypes
<1>5. ASSUME ~disturbed PROVE (MapInv /\ LiveInv /\ StepInv)'
  <2>1. /\ MapInv /\ LiveInv /\ StepInv
        /\ \A q \in Requests : q # r => work[q].at \notin ChangeSteps
        /\ \A q \in Requests : ~Changes(q)' /\ work'[q].at \notin ChangeSteps
        /\ (\A t : ~Detached(t)') /\ \A o : ~Gone(o)'
    BY <1>1, <1>2, <1>5, NoneChanges DEF ChangeSteps
  <2>2. /\ \A t : Detached(t) => t = tab
        /\ \A o : Gone(o) <=> o = sessions[tab]
    BY <1>1, <2>1 DEF Detached, Gone, ChangeSteps
  <2>3. tab \in Shown  BY <1>1, <2>1 DEF StepInv
  <2>4. hostSession' \in Objects /\ hostSession' <= made'
    BY <1>1, <1>3, <2>1, Numbers DEF LiveInv
  <2> HIDE DEF tab
  <2>5. MapInv' /\ LiveInv' /\ Shown' = Shown
    BY <1>1, <1>3, <2>1, <2>2, <2>3, <2>4, ReshownTabs
  <2>6. StepInv'  BY <1>1, <2>1, <2>5 DEF StepInv, ChangeSteps
  <2> QED  BY <2>5, <2>6
<1> QED  BY <1>1, <1>2, <1>4, <1>5 DEF TabInv

LEMMA ReplacedTabs ==
    ASSUME RpcInv, NEW r \in Requests, Replaced(r)
    PROVE  TabTypes' /\ WorkInv' /\ TabInv'
<1> DEFINE tab == IF activeSessionId # None THEN activeSessionId ELSE sessionCounter + 1
<1>1. /\ up /\ work[r].at = "replacing" /\ Done(r)
      /\ up' = up /\ made' = made + 1 /\ hostSession' = made'
      /\ sessionCounter' = IF activeSessionId # None THEN sessionCounter ELSE sessionCounter + 1
      /\ Show(tab, made') /\ disposed' = disposed
      /\ disturbed' = (disturbed \/ sessions[tab] # hostSession)
  BY Numbers DEF Replaced
<1>2. WorkInv' /\ work' = [work EXCEPT ![r] = NoWork]  BY <1>1, EndedWork
<1>3. made + 1 \in Objects /\ made \in Nat /\ hostSession \in Objects
  BY <1>1, TabSide, NewObject
<1>4. tab \in Tabs
  <2>1. answers[r] = 0
    <3>1. work[r].at # "none"  BY <1>1
    <3>2. r \in Nat /\ requestId \in Nat  BY SideTypes, Numbers
    <3> QED  BY <1>1, <3>1, <3>2, Place
  <2>2. sessionCounter + 1 \in Tabs  BY <1>1, <2>1, Room
  <2> QED  BY <2>2, TabSide DEF MaybeTab
<1>5. TabTypes'  BY <1>1, <1>3, <1>4, ShowTypes
<1>6. ASSUME ~disturbed' PROVE (MapInv /\ LiveInv /\ StepInv)'
  <2>1. ~disturbed /\ sessions[tab] = hostSession  BY <1>1, <1>6
  <2>2. /\ MapInv /\ LiveInv /\ StepInv
        /\ \A q \in Requests : q # r => work[q].at \notin ChangeSteps
        /\ \A q \in Requests : ~Changes(q)' /\ work'[q].at \notin ChangeSteps
        /\ (\A t : ~Detached(t)') /\ \A o : ~Gone(o)'
    BY <1>1, <1>2, <2>1, NoneChanges DEF ChangeSteps
  <2>3. activeSessionId \in Shown /\ activeSessionId # None
    BY <2>2, TabSide, Numbers DEF MapInv
  <2>4. tab \in Shown /\ sessionCounter' = sessionCounter  BY <1>1, <2>3
  <2>5. /\ \A t : ~Detached(t)
        /\ \A o : Gone(o) <=> o = sessions[tab]
    BY <1>1, <2>1, <2>2 DEF Detached, Gone, ChangeSteps
  <2>6. hostSession' \in Objects /\ hostSession' <= made'
    BY <1>1, <1>3
  <2> HIDE DEF tab
  <2>7. MapInv' /\ LiveInv' /\ Shown' = Shown
    BY <1>1, <1>3, <2>2, <2>4, <2>5, <2>6, ReshownTabs
  <2>8. StepInv'  BY <2>2, <2>4, <2>7 DEF StepInv, ChangeSteps
  <2> QED  BY <2>7, <2>8
<1> QED  BY <1>1, <1>2, <1>5, <1>6 DEF TabInv

LEMMA ClosedTabs ==
    ASSUME RpcInv, NEW r \in Requests, Closed(r)
    PROVE  TabTypes' /\ WorkInv' /\ TabInv'
<1> DEFINE tab == work[r].tab
           object == work[r].object
<1>1. /\ up /\ work[r].at = "closing" /\ Done(r)
      /\ disposed' = disposed \union {object} /\ tabs' = Without(tabs, tab)
      /\ sessions' = [sessions EXCEPT ![tab] = None]
      /\ activeSessionId' = IF ~work[r].wasActive THEN activeSessionId
                            ELSE IF tabs' = <<>> THEN None ELSE Head(tabs')
      /\ up' = up /\ disturbed' = disturbed
      /\ UNCHANGED <<sessionSubscriptions, makeVars, hostSession>>
  BY DEF Closed
<1>2. WorkInv' /\ work' = [work EXCEPT ![r] = NoWork]  BY <1>1, EndedWork
<1>3. tab \in Tabs /\ object \in Objects  BY <1>1, SideTypes DEF WorkInv
<1>4. tabs' \in Seq(Tabs)  BY <1>1, WithoutTypes, TabSide
<1>5. TabTypes'
  <2>1. activeSessionId' \in MaybeTab
    BY <1>1, <1>4, TabSide DEF MaybeTab
  <2>2. sessions' \in [Tabs -> MaybeObject]  BY <1>1, TabSide DEF MaybeObject
  <2>3. disposed' \subseteq Objects  BY <1>1, <1>3, TabSide
  <2> QED  BY <1>1, <1>4, <2>1, <2>2, <2>3, TabSide DEF TabTypes
<1>6. ASSUME ~disturbed PROVE (MapInv /\ LiveInv /\ StepInv)'
  <2>1. /\ MapInv /\ LiveInv /\ StepInv
        /\ \A q \in Requests : q # r => work[q].at \notin ChangeSteps
        /\ \A q \in Requests : ~Changes(q)' /\ work'[q].at \notin ChangeSteps
        /\ (\A t : ~Detached(t)') /\ \A o : ~Gone(o)'
    BY <1>1, <1>2, <1>6, NoneChanges DEF ChangeSteps
  <2>2. /\ \A t : Detached(t) <=> t = tab
        /\ \A o : ~Gone(o)
    BY <1>1, <2>1 DEF Detached, Gone, ChangeSteps
  <2>3. /\ tab \in Shown /\ object = sessions[tab] /\ Len(tabs) > 1
        /\ work[r].wasActive <=> activeSessionId = tab
    BY <1>1, <2>1 DEF StepInv
  <2> HIDE DEF tab, object
  <2>4. /\ Shown' = Shown \ {tab} /\ Len(tabs') = Len(tabs) - 1
        /\ \A i, j \in DOMAIN tabs' : tabs'[i] = tabs'[j] => i = j
    BY <1>1, <2>1, <2>3, WithoutMap
  <2>5. /\ sessions'[tab] = None /\ \A t \in Tabs : t # tab => sessions'[t] = sessions[t]
        /\ Shown \subseteq Tabs
    BY <1>1, <1>3, TabSide
  <2>6. activeSessionId' \in Shown'
    <3>1. CASE activeSessionId = tab
      <4>1. Len(tabs') \in Nat \ {0}
        <5>1. Len(tabs) \in Nat  BY TabSide
        <5> QED  BY <2>3, <2>4, <5>1, SMTT(20)
      <4>2. tabs' # <<>> /\ Head(tabs') = tabs'[1] /\ 1 \in DOMAIN tabs'
        BY <1>4, <4>1
      <4>3. activeSessionId' = tabs'[1]  BY <1>1, <2>3, <3>1, <4>2
      <4> QED  BY <4>2, <4>3 DEF Shown, Range
    <3>2. CASE activeSessionId # tab
      BY <1>1, <2>1, <2>3, <2>4, <3>2 DEF MapInv
    <3> QED  BY <3>1, <3>2
  <2>7. MapInv'
    <3>1. \A s, t \in Shown' : sessions'[s] = sessions'[t] => s = t
      BY <2>1, <2>4, <2>5 DEF MapInv
    <3>2. \A t \in Tabs : /\ sessions'[t] # None <=> t \in Shown'
                          /\ sessionSubscriptions'[t] = sessions'[t]
      BY <1>1, <1>3, <2>1, <2>2, <2>4, <2>5 DEF MapInv
    <3> QED  BY <2>1, <2>4, <2>6, <3>1, <3>2 DEF MapInv
  <2>8. LiveInv'
    <3>1. \A t \in Shown' : sessions'[t] <= made'
      BY <1>1, <2>1, <2>4, <2>5 DEF LiveInv
    <3>2. \A o \in disposed' : o <= made'
      BY <1>1, <2>1, <2>3 DEF LiveInv
    <3>3. ASSUME NEW o \in 1..made'
          PROVE  o \notin disposed' <=> \E t \in Shown' : sessions'[t] = o
      <4>1. (\E t \in Shown' : sessions'[t] = o)
              <=> (\E t \in Shown : sessions[t] = o) /\ o # sessions[tab]
        BY <1>3, <2>1, <2>3, <2>4, <2>5 DEF MapInv
      <4>2. o \in 1..made  BY <1>1
      <4> QED  BY <1>1, <2>1, <2>2, <2>3, <4>1, <4>2 DEF LiveInv
    <3> QED  BY <1>1, <2>1, <3>1, <3>2, <3>3 DEF LiveInv
  <2>9. StepInv'  BY <1>1, <2>1, <2>4 DEF StepInv, ChangeSteps
  <2> QED  BY <2>7, <2>8, <2>9
<1> QED  BY <1>1, <1>2, <1>5, <1>6 DEF TabInv

LEMMA LeavingTabs ==
    ASSUME RpcInv, NEW r \in Requests, StaysInSession(r) \/ LeavesSession(r)
    PROVE  TabTypes' /\ WorkInv' /\ TabInv'
<1>1. /\ up /\ work[r].at = "leaving" /\ up' = up /\ disturbed' = disturbed
      /\ UNCHANGED <<tabVars, makeVars, hostSession>>
  BY DEF StaysInSession, LeavesSession
<1>2. CASE StaysInSession(r)
  <2>1. Done(r) /\ disposed' = disposed  BY <1>2 DEF StaysInSession
  <2>2. WorkInv' /\ work' = [work EXCEPT ![r] = NoWork]  BY <2>1, EndedWork
  <2>3. TabTypes'  BY <1>1, <2>1, SideTypes DEF TabTypes
  <2>4. ASSUME ~disturbed PROVE (MapInv /\ LiveInv /\ StepInv)'
    <3>1. /\ MapInv /\ LiveInv /\ StepInv /\ Shown' = Shown
          /\ \A q \in Requests : q # r => work[q].at \notin ChangeSteps
          /\ \A q \in Requests : ~Changes(q)' /\ work'[q].at \notin ChangeSteps
          /\ (\A t : ~Detached(t)') /\ \A o : ~Gone(o)'
      BY <1>1, <2>2, <2>4, NoneChanges DEF ChangeSteps, Shown
    <3>2. (\A t : ~Detached(t)) /\ \A o : ~Gone(o)
      BY <1>1, <3>1 DEF Detached, Gone, ChangeSteps
    <3>3. MapInv'  BY <1>1, <3>1, <3>2 DEF MapInv
    <3>4. LiveInv'  BY <1>1, <2>1, <3>1, <3>2 DEF LiveInv
    <3>5. StepInv'  BY <1>1, <3>1 DEF StepInv, ChangeSteps
    <3> QED  BY <3>3, <3>4, <3>5
  <2> QED  BY <1>1, <2>2, <2>3, <2>4 DEF TabInv
<1>3. CASE LeavesSession(r)
  <2> DEFINE w == [NoWork EXCEPT !.at = "replacing"]
  <2>1. disposed' = disposed \union {hostSession} /\ work' = [work EXCEPT ![r] = w]
    BY <1>3 DEF LeavesSession, Await
  <2>2. w \in WorkRecord /\ w.at = "replacing"
    BY DEF NoWork, WorkRecord, Awaits, MaybeTab, MaybeObject
  <2> HIDE DEF w
  <2>3. work'[r] = w /\ \A q \in Requests : q # r => work'[q] = work[q]
    BY <2>1, <2>2, WorkWritten
  <2>4. WorkInv'  BY <2>2, <2>3, SideTypes DEF WorkInv
  <2>5. TabTypes'  BY <1>1, <2>1, TabSide DEF TabTypes
  <2>6. ASSUME ~disturbed PROVE (MapInv /\ LiveInv /\ StepInv)'
    <3>1. MapInv /\ LiveInv /\ StepInv /\ Shown' = Shown
      BY <1>1, <2>6, SideTypes DEF TabInv, Shown
    <3>2. \A q \in Requests : q # r => work[q].at \notin ChangeSteps /\ work'[q].at \notin ChangeSteps
      BY <1>1, <2>3, <3>1 DEF StepInv, Changes, ChangeSteps
    <3>3. /\ \A t : ~Detached(t) /\ ~Detached(t)'
          /\ \A o : ~Gone(o)
          /\ \A o : Gone(o)' <=> o = hostSession
      BY <1>1, <2>2, <2>3, <3>2 DEF Detached, Gone, ChangeSteps
    <3>4. MapInv'  BY <1>1, <3>1, <3>3 DEF MapInv
    <3>5. LiveInv'  BY <1>1, <2>1, <3>1, <3>3 DEF LiveInv
    <3>6. StepInv'
      <4>1. \A q \in Requests : Changes(q)' => q = r  BY <3>2 DEF Changes
      <4>2. \A q \in Requests : work'[q].at \in ChangeSteps => work'[q].at = "replacing"
        BY <2>2, <2>3, <3>2
      <4> QED  BY <1>1, <3>1, <4>1, <4>2 DEF StepInv, ChangeSteps
    <3> QED  BY <3>4, <3>5, <3>6
  <2> QED  BY <1>1, <2>4, <2>5, <2>6 DEF TabInv
<1> QED  BY <1>2, <1>3

\* The steps that change no tab.
LEMMA OtherTabs ==
    ASSUME RpcInv,
           UNCHANGED <<tabVars, makeVars, hostSession, disposed, up, disturbed>>,
           \/ work' = work
           \/ \E r \in Requests, w \in WorkRecord :
                 /\ work[r].at \notin ChangeSteps /\ w.at \notin ChangeSteps
                 /\ work' = [work EXCEPT ![r] = w]
    PROVE  TabTypes' /\ WorkInv' /\ TabInv'
<1>1. CASE work' = work
  <2>1. WorkInv'  BY <1>1, SideTypes DEF WorkInv
  <2> QED  BY <1>1, <2>1, QuietTabs
<1>2. ASSUME NEW r \in Requests, NEW w \in WorkRecord,
             work[r].at \notin ChangeSteps, w.at \notin ChangeSteps,
             work' = [work EXCEPT ![r] = w]
      PROVE  TabTypes' /\ WorkInv' /\ TabInv'
  <2>1. work'[r] = w /\ \A q \in Requests : q # r => work'[q] = work[q]
    BY <1>2, WorkWritten
  <2>2. WorkInv'  BY <1>2, <2>1, SideTypes DEF WorkInv, ChangeSteps
  <2>3. \A q \in Requests : work'[q] = work[q] \/ (~Changes(q) /\ ~Changes(q)')
    BY <1>2, <2>1 DEF Changes
  <2> QED  BY <2>2, <2>3, QuietTabs
<1> QED  BY <1>1, <1>2

\* A session could not be made: the tabs are as they were, and disturbed.
LEMMA FailedTabs ==
    ASSUME RpcInv, NEW r \in Requests, ForkFails(r) \/ ReplaceFails(r)
    PROVE  TabTypes' /\ WorkInv' /\ TabInv'
<1>1. Done(r) /\ disturbed' = TRUE /\ UNCHANGED <<tabVars, makeVars, hostSession, disposed>>
  BY DEF ForkFails, ReplaceFails
<1>2. WorkInv'  BY <1>1, EndedWork
<1>3. TabTypes'  BY <1>1, SideTypes DEF TabTypes
<1> QED  BY <1>1, <1>2, <1>3 DEF TabInv

LEMMA ReadLineTabs ==
    ASSUME RpcInv, NEW c \in Heads, ReadLine(c)
    PROVE  TabTypes' /\ WorkInv' /\ TabInv'
<1>1. {"fork", "prompt", "abort"} \subseteq Kinds  BY DEF Kinds, Structural
<1>2. CASE NotFound(c) \/ CloseLast(c) \/ DialogAnswered(c)
  BY <1>2, OtherTabs DEF NotFound, CloseLast, DialogAnswered
<1>3. CASE Fork(c)
  <2>1. CASE work' = work
    <3>1. \A w : Await(c.id, w) => w.at = "none"
      BY <1>1, <1>3, <2>1, Reading, SideTypes DEF Await, Fork, Read
    <3>2. [NoWork EXCEPT !.at = "forking", !.tab = Target(c)].at = "forking"  BY DEF NoWork
    <3>3. UNCHANGED <<tabVars, makeVars, hostSession, disposed, up, disturbed>>
      BY <1>3, <3>1, <3>2 DEF Fork
    <3> QED  BY <2>1, <3>3, OtherTabs
  <2> QED  BY <1>3, <2>1, ForkTabs
<1>4. CASE Prompt(c)
  <2> DEFINE w == [NoWork EXCEPT !.at = "preflight", !.object = sessions[Target(c)]]
  <2>1. /\ up /\ c.kind \in Kinds /\ Found(c) /\ work' = [work EXCEPT ![c.id] = w]
        /\ UNCHANGED <<tabVars, makeVars, hostSession, disposed, up, disturbed>>
    BY <1>1, <1>4 DEF Prompt, Read, Await
  <2>2. c.id \in Requests /\ work[c.id].at = "none" /\ sessions[Target(c)] \in MaybeObject
    BY <2>1, Reading, FoundTab DEF MaybeObject
  <2>3. w \in WorkRecord /\ w.at = "preflight"
    BY <2>2 DEF NoWork, WorkRecord, Awaits, MaybeTab
  <2> HIDE DEF w
  <2> QED  BY <2>1, <2>2, <2>3, OtherTabs DEF ChangeSteps
<1>5. CASE Abort(c)
  <2>1. /\ up /\ c.kind \in Kinds
        /\ UNCHANGED <<tabVars, makeVars, hostSession, disposed, up, disturbed>>
    BY <1>1, <1>5 DEF Abort, Read
  <2>2. CASE work' = work  BY <2>1, <2>2, OtherTabs
  <2>3. CASE work' # work
    <3>1. PICK r \in RunOf(sessions[Target(c)]) :
              Await(c.id, [NoWork EXCEPT !.at = "aborting", !.run = r,
                                       !.stage = runs[r].at])
      BY <1>5, <2>3 DEF Abort
    <3>2. r \in Requests /\ runs[r].at \in Stages  BY DEF RunOf, Underway
    <3> DEFINE w == [NoWork EXCEPT !.at = "aborting", !.run = r,
                                       !.stage = runs[r].at]
    <3>3. w \in WorkRecord /\ w.at = "aborting"
      BY <3>2 DEF NoWork, WorkRecord, Awaits, MaybeTab, MaybeObject
    <3>4. work' = [work EXCEPT ![c.id] = w]  BY <3>1 DEF Await
    <3> HIDE DEF w
    <3>5. c.id \in Requests /\ work[c.id].at = "none"  BY <2>1, Reading
    <3> QED  BY <2>1, <3>3, <3>4, <3>5, OtherTabs DEF ChangeSteps
  <2> QED  BY <2>2, <2>3
<1> QED
  BY <1>2, <1>3, <1>4, <1>5, CreateSessionTabs, CloseSessionTabs, SwitchActiveTabs,
     NewSessionTabs DEF ReadLine

LEMMA ResumeTabs ==
    ASSUME RpcInv, NEW r \in Requests, Resume(r)
    PROVE  TabTypes' /\ WorkInv' /\ TabInv'
<1>1. CASE PromptAnswered(r) \/ Aborted(r)
  <2>1. /\ work[r].at \notin ChangeSteps /\ work' = [work EXCEPT ![r] = NoWork]
        /\ UNCHANGED <<tabVars, makeVars, hostSession, disposed, up, disturbed>>
    BY <1>1 DEF PromptAnswered, Aborted, Done, ChangeSteps
  <2> QED  BY <2>1, Numbers, OtherTabs DEF ChangeSteps
<1> QED
  BY <1>1, CreatedTabs, ClosedTabs, ForkedTabs, FailedTabs, LeavingTabs, ReplacedTabs
     DEF Resume

LEMMA StepTabs ==
    ASSUME RpcInv, [Next]_vars, ~Exit
    PROVE  TabTypes' /\ WorkInv' /\ TabInv'
<1>1. CASE ClientStep
  BY <1>1, OtherTabs DEF ClientStep, Send, AnswerDialog, Timeout, Receive, Stop
<1>2. ASSUME NEW r \in Requests, PreflightRuns(r) \/ AskPermission(r) \/ AskUser(r)
                                \/ RunEnds(r)
      PROVE  TabTypes' /\ WorkInv' /\ TabInv'
  BY <1>2, OtherTabs DEF PreflightRuns, AskPermission, AskUser, Opens, RunEnds
<1>3. CASE UNCHANGED vars  BY <1>3, OtherTabs
<1> QED  BY <1>1, <1>2, <1>3, ReadLineTabs, ResumeTabs DEF Next

LEMMA RpcInductive == RpcInv /\ [Next]_vars => RpcInv'
<1> SUFFICES ASSUME RpcInv, [Next]_vars PROVE RpcInv'  OBVIOUS
<1>1. AnswerSide' /\ TabTypes' /\ WorkInv' /\ TabInv'
  BY StepAnswers, StepTabs, ExitHolds
<1>2. TypeOK'
  BY <1>1, StepRuns, StepFlags, TypesArePrimed DEF Types, AnswerSide
<1> QED  BY <1>1, <1>2 DEF RpcInv, AnswerSide

-----------------------------------------------------------------------------
\* The theorems

\* A command has one answer and a promise resolves with the answer of its own
\* command, however the handlers overlap and whenever the client or the process
\* stops (rpc-mode.ts:824).
THEOREM EachAnsweredOnce == Spec => []AnsweredOnce
<1>1. RpcInv => AnsweredOnce
  <2> SUFFICES ASSUME RpcInv PROVE AnsweredOnce  OBVIOUS
  <2>1. TypeOK /\ PromiseInv /\ HandlerInv  BY DEF RpcInv, AnswerInv
  <2>2. 1..requestId \subseteq Requests /\ \A r \in 1..requestId : r <= requestId
    BY SideTypes, Numbers
  <2>3. \A r \in 1..requestId : up => answers[r] = IF Unread(r) \/ work[r].at # "none" THEN 0 ELSE 1
    BY <2>1, <2>2 DEF HandlerInv, PromiseInv
  <2>4. \A r \in Requests : answers[r] <= 1 /\ (promise[r] = "answered" => answers[r] = 1)
                            /\ (started => (r \in pendingRequests <=> promise[r] = "waiting"))
    BY <2>1 DEF PromiseInv
  <2> QED  BY <2>1, <2>3, <2>4 DEF AnsweredOnce, Unread
<1> QED  BY <1>1, InitHolds, RpcInductive, PTL DEF Spec

\* The tabs, the sessions and the subscriptions agree between two commands that
\* change them, as long as such commands do not overlap or fail half way.
THEOREM TabsAgreeAlways == Spec => []TabsAgree
<1>1. RpcInv => TabsAgree
  <2> SUFFICES ASSUME RpcInv, up, ~disturbed, ~Changing
               PROVE  /\ activeSessionId \in Range(tabs)
                      /\ \A t \in Tabs :
                            /\ sessions[t] # None <=> t \in Range(tabs)
                            /\ sessionSubscriptions[t] = sessions[t]
                      /\ {sessions[t] : t \in Range(tabs)} = (1..made) \ disposed
                      /\ Cardinality((1..made) \ disposed) = Len(tabs)
    BY DEF TabsAgree
  <2>1. /\ MapInv /\ LiveInv
        /\ \A t \in Tabs : sessionSubscriptions[t] = sessions[t]
        /\ \A o : ~Gone(o)
    BY Between
  <2>2. {sessions[t] : t \in Shown} = (1..made) \ disposed
    <3>1. \A t \in Shown : sessions[t] \in 1..made
      BY <2>1, TabSide, SideTypes, Numbers DEF MapInv, LiveInv, MaybeObject
    <3> QED  BY <2>1, <3>1 DEF LiveInv
  <2>3. Cardinality((1..made) \ disposed) = Len(tabs)
    <3> DEFINE f == [i \in 1..Len(tabs) |-> sessions[tabs[i]]]
               L == (1..made) \ disposed
    <3>1. tabs \in Seq(Tabs) /\ Len(tabs) \in Nat /\ DOMAIN tabs = 1..Len(tabs)  BY TabSide
    <3>2. \A i \in 1..Len(tabs) : tabs[i] \in Shown  BY <3>1 DEF Shown, Range
    <3>3. f \in [1..Len(tabs) -> L]  BY <2>2, <3>2
    <3>4. \A i, j \in 1..Len(tabs) : f[i] = f[j] => i = j
      BY <2>1, <3>1, <3>2 DEF MapInv
    <3>5. \A o \in L : \E i \in 1..Len(tabs) : f[i] = o
      <4> SUFFICES ASSUME NEW o \in L PROVE \E i \in 1..Len(tabs) : f[i] = o
        OBVIOUS
      <4>1. PICK t \in Shown : o = sessions[t]  BY <2>2
      <4>2. PICK i \in 1..Len(tabs) : t = tabs[i]  BY <3>1 DEF Shown, Range
      <4> QED  BY <4>1, <4>2
    <3>6. f \in Bijection(1..Len(tabs), L)
      BY <3>3, <3>4, <3>5 DEF Bijection, Injection, Surjection, IsInjective
    <3>7. IsFiniteSet(1..Len(tabs)) /\ Cardinality(1..Len(tabs)) = Len(tabs)
      BY <3>1, FS_Interval
    <3> HIDE DEF f, L
    <3>8. Cardinality(L) = Len(tabs)
      BY <3>6, <3>7, FS_Bijection DEF ExistsBijection
    <3> QED  BY <3>8 DEF L
  <2> QED  BY <2>1, <2>2, <2>3 DEF MapInv, Shown
<1> QED  BY <1>1, InitHolds, RpcInductive, PTL DEF Spec
=============================================================================
