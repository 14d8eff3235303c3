-------------------------- MODULE AgentLoopProofs --------------------------
(***************************************************************************)
(* Theorems about AgentLoop for every value of its constants: the types,   *)
(* and with them the shape of the batch of tool calls; what is left when   *)
(* no run is active, the turn limit, where every user message is, what an  *)
(* abort stops; that the transcript, the context of the next request and   *)
(* the report of the run agree, that every tool result answers its call,   *)
(* and that both queues reach the transcript in order and one at a time.   *)
(***************************************************************************)
EXTENDS AgentLoop, SequenceTheorems, TLAPS

-----------------------------------------------------------------------------
\* Lemmas about messages and sequences.

\* Prompts and queued messages, replies and results are messages.
LEMMA MessageSeqs ==
    /\ Seq(UserMessage) \subseteq Seq(Message)
    /\ Seq(ToolResult) \subseteq Seq(Message)
    /\ AssistantMessage \subseteq Message
  <1>1. UserMessage \subseteq Message /\ ToolResult \subseteq Message
    BY DEF Message
  <1> QED
    BY <1>1, SeqMonotonic DEF Message

\* The identities of user messages are natural numbers.
LEMMA IdsAreNats ==
    ASSUME NEW s \in Seq(Message)
    PROVE  Ids(s) \subseteq Nat
  <1>1. \A j \in DOMAIN s : IsUser(s[j]) => s[j].id \in Nat
    BY DEF IsUser, Message, UserMessage, AssistantMessage, ToolResult
  <1> QED
    BY <1>1 DEF Ids

\* What a drain returns and what it leaves are sequences of user messages.
LEMMA DrainType ==
    ASSUME NEW mode, NEW q \in Seq(UserMessage)
    PROVE  /\ Drained(mode, q) \in Seq(UserMessage)
           /\ AfterDrain(mode, q) \in Seq(UserMessage)
  BY HeadTailProperties DEF Drained, AfterDrain

\* A reply with the calls it makes.
LEMMA ReplyType ==
    ASSUME NEW stop \in StopReasons, NEW calls \in Seq(Nat)
    PROVE  Reply(stop, calls) \in AssistantMessage
  BY DEF Reply, AssistantMessage

\* The calls of a reply get numbers, one for each call.
LEMMA FreshCallsType ==
    ASSUME nextCall \in Nat, NEW n \in Nat
    PROVE  /\ FreshCalls(n) \in Seq(Nat)
           /\ Len(FreshCalls(n)) = n
  BY DEF FreshCalls

\* Replacing one status keeps the type of a batch.
LEMMA StatusUpdate ==
    ASSUME NEW b \in Batch, NEW i \in DOMAIN b.status, NEW st \in CallStatus
    PROVE  /\ [b EXCEPT !.status[i] = st] \in Batch
           /\ Len([b EXCEPT !.status[i] = st].status) = Len(b.status)
  <1>1. b.status \in Seq(CallStatus) /\ i \in 1..Len(b.status)
    BY LenProperties DEF Batch
  <1>2. /\ [b.status EXCEPT ![i] = st] \in Seq(CallStatus)
        /\ Len([b.status EXCEPT ![i] = st]) = Len(b.status)
    BY <1>1, ExceptSeq
  <1> QED
    BY <1>2 DEF Batch

\* A new batch has one status and one flag for each call.
LEMMA NewBatchType ==
    ASSUME NEW calls \in Seq(Nat), NEW sequential \in BOOLEAN
    PROVE  /\ NewBatch(calls, sequential) \in Batch
           /\ NewBatch(calls, sequential).calls = calls
           /\ NewBatch(calls, sequential).next = 1
           /\ Len(NewBatch(calls, sequential).status) = Len(calls)
           /\ Len(NewBatch(calls, sequential).terminate) = Len(calls)
  BY DEF NewBatch, Batch, CallStatus

\* An empty batch has the type and the shape of every batch.
LEMMA NoBatchType ==
    /\ NoBatch \in Batch
    /\ Len(NoBatch.status) = Len(NoBatch.calls)
    /\ Len(NoBatch.terminate) = Len(NoBatch.calls)
  BY DEF NoBatch, Batch

-----------------------------------------------------------------------------
\* The types are inductive together with the shape of the batch: there is one
\* status and one flag for each call, and while the batch is worked on `next`
\* is one of its calls.

BatchShape ==
    /\ Len(batch.status) = Len(batch.calls)
    /\ Len(batch.terminate) = Len(batch.calls)
    /\ pc \in ToolPoints => batch.next \in 1..Len(batch.calls)

TypeInv == TypeOK /\ BatchShape

\* The constructor of Agent establishes the invariant.
LEMMA TypeInit == Init => TypeInv
  <1> SUFFICES ASSUME Init
               PROVE  TypeInv
    OBVIOUS
  <1>1. AgentTypeOK
    BY EmptySeq DEF Init, AgentInit, AgentTypeOK
  <1>2. /\ context \in Seq(Message) /\ newMessages \in Seq(Message)
        /\ prompts \in Seq(UserMessage) /\ pendingMessages \in Seq(UserMessage)
        /\ toolResults \in Seq(ToolResult)
    BY EmptySeq DEF Init
  <1>3. TypeOK
    BY <1>1, <1>2, NoBatchType DEF Init, TypeOK
  <1>4. BatchShape
    BY NoBatchType DEF Init, BatchShape, ToolPoints
  <1> QED
    BY <1>3, <1>4 DEF TypeInv


\* Recording an event keeps the history Boolean.
LEMMA EmitType ==
    ASSUME ended \in BOOLEAN, afterEnd \in BOOLEAN, Emit
    PROVE  ended' \in BOOLEAN /\ afterEnd' \in BOOLEAN
  BY DEF Emit

\* A message that ends joins the transcript.
LEMMA MessageEndType ==
    ASSUME AgentTypeOK, NEW m \in Message, MessageEnd(m)
    PROVE  /\ messages' \in Seq(Message)
           /\ streamingMessage' \in BOOLEAN
           /\ ended' \in BOOLEAN /\ afterEnd' \in BOOLEAN
  BY EmitType, AppendProperties DEF AgentTypeOK, MessageEnd

\* What the shape of the batch says of its calls.
LEMMA BatchFacts ==
    ASSUME TypeInv
    PROVE  /\ \A i \in 1..Len(batch.calls) : batch.calls[i] \in Nat
           /\ DOMAIN batch.status = 1..Len(batch.calls)
           /\ Len(batch.terminate) = Len(batch.status)
           /\ batch \in Batch /\ batch.next \in Nat
           /\ pc \in ToolPoints => batch.next \in DOMAIN batch.status
  BY DEF TypeInv, TypeOK, BatchShape, Batch

\* The abbreviations for tuples of variables are expanded everywhere below.
USE DEF stateVars, queueVars, clientVars, eventVars, agentVars, turnVars,
        batchVars, toolVars, historyVars, unchangedByTools

-----------------------------------------------------------------------------
\* Every action keeps the types: starting a run.

\* Starting a run on given messages keeps the invariant.
LEMMA TypeRunPromptMessages ==
    ASSUME TypeInv, NEW ps \in Seq(UserMessage), NEW skip \in BOOLEAN,
           RunPromptMessages(ps, skip),
           nextId' \in Nat, steeringQueue' \in Seq(UserMessage),
           followUpQueue' \in Seq(UserMessage)
    PROVE  TypeInv'
  <1>1. messages \o ps \in Seq(Message) /\ ps \in Seq(Message)
    BY MessageSeqs, ConcatProperties DEF TypeInv, TypeOK, AgentTypeOK
  <1>2. AgentTypeOK'
    BY DEF TypeInv, TypeOK, AgentTypeOK, RunPromptMessages, BeginRun
  <1>3. TypeOK'
    BY <1>1, <1>2 DEF TypeInv, TypeOK, RunPromptMessages, RunPoints
  <1>4. BatchShape'
    BY DEF TypeInv, BatchShape, RunPromptMessages, ToolPoints
  <1> QED
    BY <1>3, <1>4 DEF TypeInv

\* prompt() and the three ways of continue() keep the invariant.
LEMMA TypeStartRun ==
    ASSUME TypeInv, StartRun
    PROVE  TypeInv'
  <1> USE DEF TypeInv, TypeOK, AgentTypeOK
  <1>1. CASE Prompt
    <2>1. PICK n \in 1..MaxPrompts :
            /\ RunPromptMessages([i \in 1..n |->
                    [role |-> "user", via |-> "prompt", id |-> nextId + i - 1]],
                    FALSE)
            /\ nextId' = nextId + n
            /\ UNCHANGED queueVars
      BY <1>1 DEF Prompt
    <2> DEFINE ps == [i \in 1..n |-> [role |-> "user", via |-> "prompt",
                                      id |-> nextId + i - 1]]
    <2>2. ps \in Seq(UserMessage)
      BY DEF UserMessage, Origins
    <2>3. RunPromptMessages(ps, FALSE)
      BY <2>1, Zenon
    <2>4. /\ nextId' \in Nat
          /\ steeringQueue' \in Seq(UserMessage)
          /\ followUpQueue' \in Seq(UserMessage)
      BY <2>1
    <2> HIDE DEF ps
    <2> QED
      BY <2>2, <2>3, <2>4, TypeRunPromptMessages
  <1>2. CASE ContinueWithSteering
    BY <1>2, DrainType, TypeRunPromptMessages DEF ContinueWithSteering
  <1>3. CASE ContinueWithFollowUps
    BY <1>3, DrainType, TypeRunPromptMessages DEF ContinueWithFollowUps
  <1>4. CASE ContinueTranscript
    BY <1>4, EmptySeq, TypeRunPromptMessages DEF ContinueTranscript
  <1> QED
    BY <1>1, <1>2, <1>3, <1>4 DEF StartRun

\* The locals go out of scope.
LEMMA DropLocalsType ==
    ASSUME DropLocals
    PROVE  /\ context' \in Seq(Message) /\ newMessages' \in Seq(Message)
           /\ prompts' \in Seq(UserMessage) /\ pendingMessages' \in Seq(UserMessage)
           /\ completedTurns' \in Nat
           /\ hasMoreToolCalls' \in BOOLEAN /\ skipInitialSteeringPoll' \in BOOLEAN
           /\ batch' \in Batch /\ toolResults' \in Seq(ToolResult)
           /\ Len(batch'.status) = Len(batch'.calls)
           /\ Len(batch'.terminate) = Len(batch'.calls)
  BY NoBatchType, EmptySeq DEF DropLocals

\* A failed run drops messages it still held.
LEMMA RunFailsType ==
    ASSUME TypeInv, NEW unsent \in Seq(UserMessage), RunFails(unsent),
           AgentTypeOK', stale' \subseteq Nat, throws' \in Nat,
           UNCHANGED <<nextCall, startsAfterAbort>>
    PROVE  TypeInv'
  <1>1. lost' \subseteq Nat
    BY MessageSeqs, IdsAreNats DEF TypeInv, TypeOK, RunFails
  <1>2. TypeOK'
    BY <1>1, DropLocalsType DEF TypeInv, TypeOK, RunFails, RunPoints, FailurePoints
  <1>3. BatchShape'
    BY DropLocalsType DEF RunFails, BatchShape, ToolPoints
  <1> QED
    BY <1>2, <1>3 DEF TypeInv

-----------------------------------------------------------------------------
\* Prompts, polls, injection and the reply.

\* EmitPrompt keeps the invariant.
LEMMA TypeEmitPrompt ==
    ASSUME TypeInv, EmitPrompt
    PROVE  TypeInv'
  <1>1. Head(prompts) \in Message /\ Tail(prompts) \in Seq(UserMessage)
    BY HeadTailProperties DEF TypeInv, TypeOK, EmitPrompt, Message
  <1>2. AgentTypeOK'
    BY <1>1, MessageEndType DEF TypeInv, TypeOK, AgentTypeOK, EmitPrompt
  <1>3. TypeOK'
    BY <1>1, <1>2 DEF TypeInv, TypeOK, EmitPrompt
  <1>4. BatchShape'
    BY DEF TypeInv, BatchShape, EmitPrompt
  <1> QED
    BY <1>3, <1>4 DEF TypeInv

\* PollInitialSteering keeps the invariant.
LEMMA TypePollInitialSteering ==
    ASSUME TypeInv, PollInitialSteering
    PROVE  TypeInv'
  <1>1. /\ Drained(SteeringMode, steeringQueue) \in Seq(UserMessage)
        /\ AfterDrain(SteeringMode, steeringQueue) \in Seq(UserMessage)
    BY DrainType DEF TypeInv, TypeOK, AgentTypeOK
  <1>2. AgentTypeOK'
    BY <1>1 DEF TypeInv, TypeOK, AgentTypeOK, PollInitialSteering
  <1>3. TypeOK'
    BY <1>1, <1>2 DEF TypeInv, TypeOK, PollInitialSteering, RunPoints, TurnPoints
  <1>4. BatchShape'
    BY DEF TypeInv, BatchShape, PollInitialSteering, ToolPoints
  <1> QED
    BY <1>3, <1>4 DEF TypeInv

\* InjectPending keeps the invariant.
LEMMA TypeInjectPending ==
    ASSUME TypeInv, InjectPending
    PROVE  TypeInv'
  <1>1. /\ Head(pendingMessages) \in Message
        /\ Tail(pendingMessages) \in Seq(UserMessage)
    BY HeadTailProperties DEF TypeInv, TypeOK, InjectPending, Message
  <1>2. AgentTypeOK'
    BY <1>1, MessageEndType DEF TypeInv, TypeOK, AgentTypeOK, InjectPending
  <1>3. TypeOK'
    BY <1>1, <1>2, AppendProperties DEF TypeInv, TypeOK, InjectPending
  <1>4. BatchShape'
    BY DEF TypeInv, BatchShape, InjectPending
  <1> QED
    BY <1>3, <1>4 DEF TypeInv

\* RequestReply keeps the invariant.
LEMMA TypeRequestReply ==
    ASSUME TypeInv, RequestReply
    PROVE  TypeInv'
  <1>1. TypeOK'
    BY DEF TypeInv, TypeOK, AgentTypeOK, RequestReply, RunPoints, TurnPoints
  <1>2. BatchShape'
    BY DEF TypeInv, BatchShape, RequestReply, ToolPoints
  <1> QED
    BY <1>1, <1>2 DEF TypeInv

\* StreamStart keeps the invariant.
LEMMA TypeStreamStart ==
    ASSUME TypeInv, StreamStart
    PROVE  TypeInv'
  <1>1. Reply("partial", <<>>) \in Message
    BY ReplyType, EmptySeq, MessageSeqs DEF StopReasons
  <1>2. ended' \in BOOLEAN /\ afterEnd' \in BOOLEAN
    BY EmitType DEF TypeInv, TypeOK, AgentTypeOK, StreamStart, MessageStart
  <1>3. AgentTypeOK'
    BY <1>2 DEF TypeInv, TypeOK, AgentTypeOK, StreamStart, MessageStart
  <1>4. TypeOK'
    BY <1>1, <1>3, AppendProperties
       DEF TypeInv, TypeOK, StreamStart, RunPoints, TurnPoints
  <1>5. BatchShape'
    BY DEF TypeInv, BatchShape, StreamStart, ToolPoints
  <1> QED
    BY <1>4, <1>5 DEF TypeInv

\* The context with the final reply in it.
LEMMA ContextWithReplyType ==
    ASSUME TypeInv, NEW m \in Message
    PROVE  ContextWithReply(m) \in Seq(Message)
  <1>1. Front(context) \in Seq(Message)
    BY SubSeqProperties, LenProperties, ElementOfSeq DEF TypeInv, TypeOK, Front
  <1> QED
    BY <1>1, AppendProperties DEF TypeInv, TypeOK, ContextWithReply

\* ReplyArrives keeps the invariant.
LEMMA TypeReplyArrives ==
    ASSUME TypeInv, NEW m \in AssistantMessage, ReplyArrives(m),
           hasMoreToolCalls' \in BOOLEAN, batch' \in Batch, BatchShape',
           pc' \in RunPoints
    PROVE  TypeInv'
  <1>1. m \in Message /\ Len(m.calls) \in Nat
    BY MessageSeqs DEF AssistantMessage
  <1>2. AgentTypeOK'
    BY <1>1, MessageEndType DEF TypeInv, TypeOK, AgentTypeOK, ReplyArrives
  <1>3. context' \in Seq(Message) /\ newMessages' \in Seq(Message)
    BY <1>1, ContextWithReplyType, AppendProperties
       DEF TypeInv, TypeOK, ReplyArrives
  <1>4. TypeOK'
    BY <1>1, <1>2, <1>3 DEF TypeInv, TypeOK, ReplyArrives
  <1> QED
    BY <1>4 DEF TypeInv

\* The outcomes of a model request keep the invariant.
LEMMA TypeReplies ==
    ASSUME TypeInv,
           ReplyWithoutCalls \/ ReplyWithCalls \/ ReplyFails \/ RequestAborted
    PROVE  TypeInv'
  <1>1. \A n \in Nat : FreshCalls(n) \in Seq(Nat) /\ Len(FreshCalls(n)) = n
    BY FreshCallsType DEF TypeInv, TypeOK
  <1>2. batch \in Batch /\ hasMoreToolCalls \in BOOLEAN
    BY DEF TypeInv, TypeOK
  <1>3. CASE ReplyWithoutCalls
    <2>1. Reply("done", <<>>) \in AssistantMessage
      BY ReplyType, EmptySeq DEF StopReasons
    <2>2. BatchShape' /\ pc' \in RunPoints
      BY <1>3 DEF TypeInv, BatchShape, ReplyWithoutCalls, ToolPoints, RunPoints,
                  EndPoints
    <2> QED
      BY <1>2, <1>3, <2>1, <2>2, TypeReplyArrives DEF ReplyWithoutCalls
  <1>4. CASE ReplyWithCalls
    <2>1. PICK n \in BatchSizes \ {0}, sequential \in BOOLEAN :
            /\ ReplyArrives(Reply("done", FreshCalls(n)))
            /\ batch' = NewBatch(FreshCalls(n), sequential)
      BY <1>4 DEF ReplyWithCalls
    <2>2. n \in Nat /\ n >= 1
      BY <2>1 DEF BatchSizes
    <2>3. Reply("done", FreshCalls(n)) \in AssistantMessage
      BY <1>1, <2>2, ReplyType DEF StopReasons
    <2>4. /\ batch' \in Batch
          /\ Len(batch'.status) = Len(batch'.calls)
          /\ Len(batch'.terminate) = Len(batch'.calls)
          /\ batch'.next \in 1..Len(batch'.calls)
      <3>1. FreshCalls(n) \in Seq(Nat) /\ Len(FreshCalls(n)) = n
        BY <1>1, <2>2
      <3>2. /\ NewBatch(FreshCalls(n), sequential) \in Batch
            /\ NewBatch(FreshCalls(n), sequential).calls = FreshCalls(n)
            /\ NewBatch(FreshCalls(n), sequential).next = 1
            /\ Len(NewBatch(FreshCalls(n), sequential).status) = n
            /\ Len(NewBatch(FreshCalls(n), sequential).terminate) = n
        BY <2>1, <3>1, NewBatchType
      <3> QED
        BY <2>1, <2>2, <3>1, <3>2
    <2>5. BatchShape' /\ pc' \in RunPoints /\ hasMoreToolCalls' \in BOOLEAN
      BY <1>4, <2>4 DEF ReplyWithCalls, BatchShape, RunPoints, ToolPoints
    <2> QED
      BY <2>1, <2>3, <2>4, <2>5, TypeReplyArrives
  <1>5. CASE ReplyFails
    <2>1. PICK n \in BatchSizes, stop \in {"error", "aborted"} :
            ReplyArrives(Reply(stop, FreshCalls(n)))
      BY <1>5 DEF ReplyFails
    <2>2. n \in Nat
      BY <2>1 DEF BatchSizes
    <2>3. Reply(stop, FreshCalls(n)) \in AssistantMessage
      BY <1>1, <2>2, ReplyType DEF StopReasons
    <2>4. BatchShape' /\ pc' \in RunPoints
      BY <1>5 DEF TypeInv, BatchShape, ReplyFails, ToolPoints, RunPoints, EndPoints
    <2> QED
      BY <1>2, <1>5, <2>1, <2>3, <2>4, TypeReplyArrives DEF ReplyFails
  <1>6. CASE RequestAborted
    <2>1. Reply("aborted", <<>>) \in AssistantMessage
      BY ReplyType, EmptySeq DEF StopReasons
    <2>2. BatchShape' /\ pc' \in RunPoints
      BY <1>6 DEF TypeInv, BatchShape, RequestAborted, ToolPoints, RunPoints,
                  EndPoints
    <2> QED
      BY <1>2, <1>6, <2>1, <2>2, TypeReplyArrives DEF RequestAborted
  <1> QED
    BY <1>3, <1>4, <1>5, <1>6

-----------------------------------------------------------------------------
\* The batch of tool calls.

\* An action of the batch that replaces it with one of the same shape.
LEMMA TypeBatchStep ==
    ASSUME TypeInv, AgentTypeOK', UNCHANGED unchangedByTools,
           pc \in ToolPoints, pc' \in ToolPoints,
           batch' \in Batch, toolResults' \in Seq(ToolResult),
           UNCHANGED hasMoreToolCalls, startsAfterAbort' \in Nat,
           batch'.calls = batch.calls,
           Len(batch'.status) = Len(batch.status),
           Len(batch'.terminate) = Len(batch.terminate),
           batch'.next \in 1..Len(batch.calls)
    PROVE  TypeInv'
  <1>1. TypeOK'
    BY DEF TypeInv, TypeOK, RunPoints
  <1>2. BatchShape'
    BY DEF TypeInv, BatchShape
  <1> QED
    BY <1>1, <1>2 DEF TypeInv

\* ToolStart keeps the invariant.
LEMMA TypeToolStart ==
    ASSUME TypeInv, ToolStart
    PROVE  TypeInv'
  <1>1. /\ batch.calls[batch.next] \in Nat
        /\ batch.next \in 1..Len(batch.calls)
    BY BatchFacts DEF TypeInv, BatchShape, ToolStart, ToolPoints
  <1>2. ended' \in BOOLEAN /\ afterEnd' \in BOOLEAN
    BY EmitType DEF TypeInv, TypeOK, AgentTypeOK, ToolStart, ToolExecutionStart
  <1>3. AgentTypeOK'
    BY <1>1, <1>2
       DEF TypeInv, TypeOK, AgentTypeOK, ToolStart, ToolExecutionStart
  <1>4. startsAfterAbort' \in Nat
    BY DEF TypeInv, TypeOK, ToolStart
  <1> QED
    BY <1>1, <1>3, <1>4, TypeBatchStep
       DEF TypeInv, TypeOK, ToolStart, ToolPoints

\* Preflight keeps the invariant.
LEMMA TypePreflight ==
    ASSUME TypeInv, RefuseCall \/ PrepareCall
    PROVE  TypeInv'
  <1>1. PICK st \in CallStatus :
            batch' = [batch EXCEPT !.status[batch.next] = st]
    <2>1. CASE RefuseCall
      BY <2>1 DEF RefuseCall, CallStatus
    <2>2. CASE PrepareCall /\ batch.sequential
      BY <2>2 DEF PrepareCall, CallStatus
    <2>3. CASE PrepareCall /\ ~batch.sequential
      BY <2>3 DEF PrepareCall, CallStatus
    <2> QED
      BY <2>1, <2>2, <2>3
  <1>2. /\ pc \in ToolPoints /\ pc' \in ToolPoints
        /\ UNCHANGED <<unchangedByTools, stateVars, eventVars, hasMoreToolCalls,
                       toolResults, startsAfterAbort>>
    BY DEF RefuseCall, PrepareCall, ToolPoints
  <1>3. /\ batch.next \in DOMAIN batch.status
        /\ batch.next \in 1..Len(batch.calls)
        /\ batch \in Batch /\ Len(batch.terminate) = Len(batch.status)
    BY <1>2, BatchFacts DEF TypeInv, BatchShape
  <1>4. /\ batch' \in Batch
        /\ Len(batch'.status) = Len(batch.status)
    BY <1>1, <1>3, StatusUpdate
  <1>5. /\ batch'.calls = batch.calls
        /\ batch'.terminate = batch.terminate
        /\ batch'.next = batch.next
    BY <1>1, <1>3 DEF Batch
  <1>6. AgentTypeOK'
    BY <1>2 DEF TypeInv, TypeOK, AgentTypeOK
  <1> QED
    BY <1>2, <1>3, <1>4, <1>5, <1>6, TypeBatchStep DEF TypeInv, TypeOK

\* RefusedCallEnd keeps the invariant.
LEMMA TypeRefusedCallEnd ==
    ASSUME TypeInv, RefusedCallEnd
    PROVE  TypeInv'
  <1>1. batch.next \in 1..Len(batch.calls)
    BY DEF TypeInv, BatchShape, RefusedCallEnd, ToolPoints
  <1>2. ended' \in BOOLEAN /\ afterEnd' \in BOOLEAN
    BY EmitType DEF TypeInv, TypeOK, AgentTypeOK, RefusedCallEnd, ToolExecutionEnd
  <1>3. AgentTypeOK'
    BY <1>2 DEF TypeInv, TypeOK, AgentTypeOK, RefusedCallEnd, ToolExecutionEnd
  <1> QED
    BY <1>1, <1>3, TypeBatchStep DEF TypeInv, TypeOK, RefusedCallEnd, ToolPoints

\* NextToolCall keeps the invariant.
LEMMA TypeNextToolCall ==
    ASSUME TypeInv, NextToolCall
    PROVE  TypeInv'
  <1>1. /\ batch.next \in 1..Len(batch.calls)
        /\ batch.next # Len(batch.calls)
        /\ Len(batch.calls) \in Nat
    BY DEF TypeInv, TypeOK, BatchShape, NextToolCall, LastCall, ToolPoints, Batch
  <1>2. /\ batch' \in Batch
        /\ batch'.calls = batch.calls
        /\ batch'.status = batch.status
        /\ batch'.terminate = batch.terminate
        /\ batch'.next = batch.next + 1
    <2>1. batch \in Batch /\ batch' = [batch EXCEPT !.next = batch.next + 1]
      BY DEF TypeInv, TypeOK, NextToolCall
    <2>2. batch.next + 1 \in Nat
      BY <2>1 DEF Batch
    <2> DEFINE next == batch.next + 1
    <2>3. next \in Nat /\ batch' = [batch EXCEPT !.next = next]
      BY <2>1, <2>2
    <2> HIDE DEF next
    <2>4. /\ batch' \in Batch /\ batch'.next = next
          /\ batch'.calls = batch.calls
          /\ batch'.status = batch.status
          /\ batch'.terminate = batch.terminate
      BY <2>1, <2>3 DEF Batch
    <2> QED
      BY <2>4 DEF next
  <1>3. AgentTypeOK'
    BY DEF TypeInv, TypeOK, AgentTypeOK, NextToolCall
  <1>4. batch'.next \in 1..Len(batch.calls)
    BY <1>1, <1>2
  <1>5. pc \in ToolPoints /\ pc' \in ToolPoints
    BY DEF NextToolCall, ToolPoints
  <1>6. UNCHANGED unchangedByTools /\ UNCHANGED hasMoreToolCalls
    BY DEF NextToolCall
  <1>7. toolResults' \in Seq(ToolResult) /\ startsAfterAbort' \in Nat
    BY DEF TypeInv, TypeOK, NextToolCall
  <1> QED
    BY <1>2, <1>3, <1>4, <1>5, <1>6, <1>7, TypeBatchStep

\* LaunchPrepared keeps the invariant.
LEMMA TypeLaunchPrepared ==
    ASSUME TypeInv, LaunchPrepared
    PROVE  TypeInv'
  <1> DEFINE launched == [i \in DOMAIN batch.status |->
                            IF batch.status[i] = "prepared"
                            THEN "running" ELSE batch.status[i]]
  <1>1. /\ batch \in Batch /\ batch.status \in Seq(CallStatus)
        /\ batch.next \in 1..Len(batch.calls)
    BY DEF TypeInv, TypeOK, BatchShape, LaunchPrepared, ToolPoints, Batch
  <1>2. launched \in Seq(CallStatus) /\ Len(launched) = Len(batch.status)
    BY <1>1 DEF CallStatus
  <1>3. batch' = [batch EXCEPT !.status = launched]
    BY DEF LaunchPrepared
  <1> HIDE DEF launched
  <1>4. /\ batch' \in Batch
        /\ batch'.calls = batch.calls
        /\ batch'.status = launched
        /\ batch'.terminate = batch.terminate
        /\ batch'.next = batch.next
    BY <1>1, <1>2, <1>3 DEF Batch
  <1>5. AgentTypeOK'
    BY DEF TypeInv, TypeOK, AgentTypeOK, LaunchPrepared
  <1> QED
    BY <1>1, <1>2, <1>4, <1>5, TypeBatchStep
       DEF TypeInv, TypeOK, LaunchPrepared, ToolPoints

\* ToolEnd keeps the invariant.
LEMMA TypeToolEnd ==
    ASSUME TypeInv, NEW i \in Running, ToolEnd(i)
    PROVE  TypeInv'
  <1>1. /\ batch \in Batch /\ i \in DOMAIN batch.status
        /\ batch.next \in 1..Len(batch.calls)
        /\ Len(batch.terminate) = Len(batch.status)
    BY BatchFacts DEF TypeInv, BatchShape, ToolEnd, ToolPoints, Running
  <1>2. PICK terminate \in BOOLEAN :
            batch' = [batch EXCEPT !.status[i] = "done",
                                   !.terminate[i] = terminate]
    BY DEF ToolEnd
  <1>3. /\ batch' \in Batch
        /\ Len(batch'.status) = Len(batch.status)
        /\ Len(batch'.terminate) = Len(batch.terminate)
    <2>1. [batch.status EXCEPT ![i] = "done"] \in Seq(CallStatus)
          /\ Len([batch.status EXCEPT ![i] = "done"]) = Len(batch.status)
      BY <1>1, ExceptSeq, LenProperties DEF Batch, CallStatus
    <2>2. [batch.terminate EXCEPT ![i] = terminate] \in Seq(BOOLEAN)
          /\ Len([batch.terminate EXCEPT ![i] = terminate])
                = Len(batch.terminate)
      <3>1. i \in 1..Len(batch.terminate) /\ batch.terminate \in Seq(BOOLEAN)
        BY <1>1, LenProperties DEF Batch
      <3> QED
        BY <3>1, ExceptSeq
    <2> QED
      BY <1>1, <1>2, <2>1, <2>2 DEF Batch
  <1>4. batch'.calls = batch.calls /\ batch'.next = batch.next
    BY <1>1, <1>2 DEF Batch
  <1>5. ended' \in BOOLEAN /\ afterEnd' \in BOOLEAN
    BY EmitType DEF TypeInv, TypeOK, AgentTypeOK, ToolEnd, ToolExecutionEnd
  <1>6. AgentTypeOK'
    BY <1>5 DEF TypeInv, TypeOK, AgentTypeOK, ToolEnd, ToolExecutionEnd
  <1> QED
    BY <1>1, <1>3, <1>4, <1>6, TypeBatchStep
       DEF TypeInv, TypeOK, ToolEnd, ToolPoints

\* JoinTools keeps the invariant.
LEMMA TypeJoinTools ==
    ASSUME TypeInv, JoinTools
    PROVE  TypeInv'
  <1>1. batch.next \in 1..Len(batch.calls)
    BY DEF TypeInv, BatchShape, JoinTools, ToolPoints
  <1>2. AgentTypeOK'
    BY DEF TypeInv, TypeOK, AgentTypeOK, JoinTools
  <1> QED
    BY <1>1, <1>2, TypeBatchStep DEF TypeInv, TypeOK, JoinTools, ToolPoints

\* EmitResult keeps the invariant.
LEMMA TypeEmitResult ==
    ASSUME TypeInv, EmitResult
    PROVE  TypeInv'
  <1>1. batch.next \in 1..Len(batch.calls) /\ Len(batch.calls) \in Nat
    BY DEF TypeInv, TypeOK, BatchShape, EmitResult, ToolPoints, Batch
  <1>2. NextResult \in 1..Len(batch.calls)
    BY <1>1 DEF TypeInv, TypeOK, EmitResult, NextResult
  <1>3. Result(batch.calls[NextResult]) \in ToolResult
    BY <1>2, BatchFacts DEF Result, ToolResult
  <1>4. AgentTypeOK'
    BY <1>3, MessageEndType DEF TypeInv, TypeOK, AgentTypeOK, EmitResult, Message
  <1>5. toolResults' \in Seq(ToolResult)
    BY <1>3, AppendProperties DEF TypeInv, TypeOK, EmitResult
  <1> QED
    BY <1>1, <1>4, <1>5, TypeBatchStep DEF TypeInv, TypeOK, EmitResult, ToolPoints

\* FinishBatch keeps the invariant.
LEMMA TypeFinishBatch ==
    ASSUME TypeInv, FinishBatch
    PROVE  TypeInv'
  <1>1. context' \in Seq(Message) /\ newMessages' \in Seq(Message)
    BY MessageSeqs, ConcatProperties DEF TypeInv, TypeOK, FinishBatch
  <1>2. hasMoreToolCalls' \in BOOLEAN
    BY DEF FinishBatch
  <1>3. AgentTypeOK'
    BY DEF TypeInv, TypeOK, AgentTypeOK, FinishBatch
  <1>4. TypeOK'
    BY <1>1, <1>2, <1>3, NoBatchType, EmptySeq
       DEF TypeInv, TypeOK, FinishBatch, RunPoints, EndPoints
  <1>5. BatchShape'
    BY NoBatchType DEF BatchShape, FinishBatch, ToolPoints
  <1> QED
    BY <1>4, <1>5 DEF TypeInv

-----------------------------------------------------------------------------
\* The end of a turn and of a run.

\* A turn ends, with a failed reply or not.
LEMMA TurnEndEventType ==
    ASSUME AgentTypeOK, NEW failed \in BOOLEAN, TurnEndEvent(failed)
    PROVE  /\ errorMessage' \in BOOLEAN
           /\ ended' \in BOOLEAN /\ afterEnd' \in BOOLEAN
  BY EmitType DEF AgentTypeOK, TurnEndEvent

\* The run ends, or its failure is reported.
LEMMA EmitAgentEndType ==
    ASSUME AgentTypeOK, EmitAgentEnd
    PROVE  /\ streamingMessage' \in BOOLEAN
           /\ ended' \in BOOLEAN /\ afterEnd' \in BOOLEAN
  BY DEF AgentTypeOK, EmitAgentEnd

\* TurnEnd keeps the invariant.
LEMMA TypeTurnEnd ==
    ASSUME TypeInv, TurnEnd
    PROVE  TypeInv'
  <1>1. AgentTypeOK'
    BY TurnEndEventType DEF TypeInv, TypeOK, AgentTypeOK, TurnEnd
  <1>2. TypeOK'
    BY <1>1 DEF TypeInv, TypeOK, TurnEnd, RunPoints, EndPoints
  <1>3. BatchShape'
    BY DEF TypeInv, BatchShape, TurnEnd, ToolPoints
  <1> QED
    BY <1>2, <1>3 DEF TypeInv

\* PrepareNextTurn keeps the invariant.
LEMMA TypePrepareNextTurn ==
    ASSUME TypeInv, PrepareNextTurn
    PROVE  TypeInv'
  <1>1. AgentTypeOK'
    BY DEF TypeInv, TypeOK, AgentTypeOK, PrepareNextTurn
  <1>2. TypeOK'
    BY <1>1 DEF TypeInv, TypeOK, AgentTypeOK, PrepareNextTurn, RunPoints, EndPoints
  <1>3. BatchShape'
    BY DEF TypeInv, BatchShape, PrepareNextTurn, ToolPoints
  <1> QED
    BY <1>2, <1>3 DEF TypeInv

\* PollSteering keeps the invariant.
LEMMA TypePollSteering ==
    ASSUME TypeInv, PollSteering
    PROVE  TypeInv'
  <1> DEFINE drained == Drained(SteeringMode, steeringQueue)
  <1>1. drained \in Seq(UserMessage) /\ steeringQueue' \in Seq(UserMessage)
    BY DrainType DEF TypeInv, TypeOK, AgentTypeOK, PollSteering
  <1>2. AgentTypeOK'
    BY <1>1 DEF TypeInv, TypeOK, AgentTypeOK, PollSteering
  <1>3. CASE RunFails(drained)
    BY <1>1, <1>2, <1>3, RunFailsType DEF TypeInv, TypeOK, PollSteering
  <1>4. CASE ~RunFails(drained)
    <2> HIDE DEF drained
    <2>1. /\ pc' \in EndPoints \union TurnPoints
          /\ pendingMessages' \in Seq(UserMessage)
          /\ UNCHANGED <<context, newMessages, prompts, completedTurns,
                         hasMoreToolCalls, skipInitialSteeringPoll, batchVars,
                         toolVars, historyVars>>
      BY <1>1, <1>4
         DEF TypeInv, TypeOK, PollSteering, drained, EndPoints, TurnPoints
    <2>2. TypeOK'
      BY <1>2, <2>1 DEF TypeInv, TypeOK, RunPoints
    <2>3. BatchShape'
      BY <2>1 DEF TypeInv, BatchShape, ToolPoints, EndPoints, TurnPoints
    <2> QED
      BY <2>2, <2>3 DEF TypeInv
  <1> QED
    BY <1>3, <1>4

\* PollFollowUps keeps the invariant.
LEMMA TypePollFollowUps ==
    ASSUME TypeInv, PollFollowUps
    PROVE  TypeInv'
  <1> DEFINE drained == Drained(FollowUpMode, followUpQueue)
  <1>1. drained \in Seq(UserMessage) /\ followUpQueue' \in Seq(UserMessage)
    BY DrainType DEF TypeInv, TypeOK, AgentTypeOK, PollFollowUps
  <1>2. AgentTypeOK'
    BY <1>1 DEF TypeInv, TypeOK, AgentTypeOK, PollFollowUps
  <1>3. CASE RunFails(drained)
    BY <1>1, <1>2, <1>3, RunFailsType DEF TypeInv, TypeOK, PollFollowUps
  <1>4. CASE ~RunFails(drained)
    <2> HIDE DEF drained
    <2>1. /\ pc' \in EndPoints \union TurnPoints
          /\ pendingMessages' \in Seq(UserMessage)
          /\ UNCHANGED <<context, newMessages, prompts, completedTurns,
                         hasMoreToolCalls, skipInitialSteeringPoll, batchVars,
                         toolVars, historyVars>>
      BY <1>1, <1>4
         DEF TypeInv, TypeOK, PollFollowUps, drained, EndPoints, TurnPoints
    <2>2. TypeOK'
      BY <1>2, <2>1 DEF TypeInv, TypeOK, RunPoints
    <2>3. BatchShape'
      BY <2>1 DEF TypeInv, BatchShape, ToolPoints, EndPoints, TurnPoints
    <2> QED
      BY <2>2, <2>3 DEF TypeInv
  <1> QED
    BY <1>3, <1>4

\* LastTurnEnd keeps the invariant.
LEMMA TypeLastTurnEnd ==
    ASSUME TypeInv, LastTurnEnd \/ FailureTurnEnd
    PROVE  TypeInv'
  <1>1. AgentTypeOK'
    BY TurnEndEventType
       DEF TypeInv, TypeOK, AgentTypeOK, LastTurnEnd, FailureTurnEnd
  <1>2. TypeOK'
    BY <1>1 DEF TypeInv, TypeOK, LastTurnEnd, FailureTurnEnd, RunPoints,
                EndPoints, FailurePoints
  <1>3. BatchShape'
    BY DEF TypeInv, BatchShape, LastTurnEnd, FailureTurnEnd, ToolPoints
  <1> QED
    BY <1>2, <1>3 DEF TypeInv

\* AgentEnd keeps the invariant.
LEMMA TypeAgentEnd ==
    ASSUME TypeInv, AgentEnd \/ FailureAgentEnd
    PROVE  TypeInv'
  <1>1. AgentTypeOK'
    BY EmitAgentEndType
       DEF TypeInv, TypeOK, AgentTypeOK, AgentEnd, FailureAgentEnd
  <1>2. TypeOK'
    BY <1>1 DEF TypeInv, TypeOK, AgentEnd, FailureAgentEnd, RunPoints,
                EndPoints, FailurePoints
  <1>3. BatchShape'
    BY DEF TypeInv, BatchShape, AgentEnd, FailureAgentEnd, ToolPoints
  <1> QED
    BY <1>2, <1>3 DEF TypeInv

\* FinishRun keeps the invariant.
LEMMA TypeFinishRun ==
    ASSUME TypeInv, FinishRun
    PROVE  TypeInv'
  <1>1. AgentTypeOK'
    BY DEF TypeInv, TypeOK, AgentTypeOK, FinishRun, EndRun
  <1>2. TypeOK'
    BY <1>1, DropLocalsType DEF TypeInv, TypeOK, FinishRun
  <1>3. BatchShape'
    BY DropLocalsType DEF FinishRun, BatchShape, ToolPoints
  <1> QED
    BY <1>2, <1>3 DEF TypeInv

-----------------------------------------------------------------------------
\* Failures, late tools and the calls of clients.

\* ListenerThrows keeps the invariant.
LEMMA TypeListenerThrows ==
    ASSUME TypeInv, ListenerThrows
    PROVE  TypeInv'
  <1>1. PICK orphans \in Orphaned :
            stale' = stale \union {batch.calls[i] : i \in orphans}
    BY DEF ListenerThrows
  <1>2. orphans \subseteq 1..Len(batch.calls)
    BY BatchFacts DEF Orphaned, Running
  <1>3. stale' \subseteq Nat
    BY <1>1, <1>2, BatchFacts DEF TypeInv, TypeOK
  <1>4. prompts \o pendingMessages \in Seq(UserMessage)
    BY ConcatProperties DEF TypeInv, TypeOK
  <1>5. AgentTypeOK'
    BY DEF TypeInv, TypeOK, AgentTypeOK, ListenerThrows
  <1>6. throws' \in Nat
    BY DEF TypeInv, TypeOK, ListenerThrows
  <1> QED
    BY <1>3, <1>4, <1>5, <1>6, RunFailsType DEF ListenerThrows

\* StaleToolEnd keeps the invariant.
LEMMA TypeStaleToolEnd ==
    ASSUME TypeInv, NEW c \in stale, StaleToolEnd(c)
    PROVE  TypeInv'
  <1>1. ended' \in BOOLEAN /\ afterEnd' \in BOOLEAN
    BY EmitType DEF TypeInv, TypeOK, AgentTypeOK, StaleToolEnd
  <1>2. AgentTypeOK'
    BY <1>1 DEF TypeInv, TypeOK, AgentTypeOK, StaleToolEnd
  <1>3. TypeOK'
    BY <1>2 DEF TypeInv, TypeOK, StaleToolEnd
  <1>4. BatchShape'
    BY DEF TypeInv, BatchShape, StaleToolEnd
  <1> QED
    BY <1>3, <1>4 DEF TypeInv

\* FailureMessage keeps the invariant.
LEMMA TypeFailureMessage ==
    ASSUME TypeInv, FailureMessage
    PROVE  TypeInv'
  <1>1. PICK stop \in StopReasons : MessageEnd(Reply(stop, <<>>))
    BY DEF FailureMessage, StopReasons
  <1>2. Reply(stop, <<>>) \in Message
    BY ReplyType, EmptySeq, MessageSeqs
  <1>3. AgentTypeOK'
    BY <1>1, <1>2, MessageEndType
       DEF TypeInv, TypeOK, AgentTypeOK, FailureMessage
  <1>4. TypeOK'
    BY <1>3 DEF TypeInv, TypeOK, FailureMessage, RunPoints, FailurePoints
  <1>5. BatchShape'
    BY DEF TypeInv, BatchShape, FailureMessage, ToolPoints
  <1> QED
    BY <1>4, <1>5 DEF TypeInv

\* FailureThrows keeps the invariant.
LEMMA TypeFailureThrows ==
    ASSUME TypeInv, FailureThrows
    PROVE  TypeInv'
  <1>1. AgentTypeOK'
    BY DEF TypeInv, TypeOK, AgentTypeOK, FailureThrows
  <1>2. TypeOK'
    BY <1>1 DEF TypeInv, TypeOK, FailureThrows, RunPoints, FailurePoints
  <1>3. BatchShape'
    BY DEF TypeInv, BatchShape, FailureThrows, ToolPoints
  <1> QED
    BY <1>2, <1>3 DEF TypeInv

\* A call of the client keeps the invariant.
LEMMA TypeClientStep ==
    ASSUME TypeInv, ClientStep
    PROVE  TypeInv'
  <1>1. /\ Ids(messages) \subseteq Nat /\ Ids(steeringQueue) \subseteq Nat
        /\ Ids(followUpQueue) \subseteq Nat
    BY IdsAreNats, MessageSeqs DEF TypeInv, TypeOK, AgentTypeOK
  <1>2. AgentTypeOK'
    <2> USE DEF TypeInv, TypeOK, AgentTypeOK
    <2>1. CASE Steer
      <3>1. [role |-> "user", via |-> "steer", id |-> nextId] \in UserMessage
        BY DEF UserMessage, Origins
      <3> QED
        BY <2>1, <3>1, AppendProperties DEF Steer
    <2>2. CASE FollowUp
      <3>1. [role |-> "user", via |-> "followUp", id |-> nextId] \in UserMessage
        BY DEF UserMessage, Origins
      <3> QED
        BY <2>2, <3>1, AppendProperties DEF FollowUp
    <2>3. CASE ClearSteeringQueue
      <3>1. discarded' \subseteq Nat
        BY <1>1, <2>3 DEF ClearSteeringQueue
      <3>2. <<>> \in Seq(Message) /\ <<>> \in Seq(UserMessage)
        BY EmptySeq
      <3> QED
        BY <2>3, <3>1, <3>2 DEF ClearSteeringQueue
    <2>4. CASE ClearFollowUpQueue
      <3>1. discarded' \subseteq Nat
        BY <1>1, <2>4 DEF ClearFollowUpQueue
      <3>2. <<>> \in Seq(Message) /\ <<>> \in Seq(UserMessage)
        BY EmptySeq
      <3> QED
        BY <2>4, <3>1, <3>2 DEF ClearFollowUpQueue
    <2>5. CASE Abort
      BY <2>5 DEF Abort
    <2>6. CASE Reset
      <3>1. discarded' \subseteq Nat
        BY <1>1, <2>6 DEF Reset
      <3>2. <<>> \in Seq(Message) /\ <<>> \in Seq(UserMessage)
        BY EmptySeq
      <3>3. /\ messages' = <<>> /\ steeringQueue' = <<>> /\ followUpQueue' = <<>>
            /\ pendingToolCalls' = {} /\ resets' = resets + 1
            /\ isStreaming' = FALSE /\ streamingMessage' = FALSE
            /\ errorMessage' = FALSE
            /\ UNCHANGED <<activeRun, nextId, eventVars>>
        BY <2>6 DEF Reset
      <3>4. pendingToolCalls' \subseteq Nat /\ resets' \in Nat
        BY <3>3
      <3>5. /\ isStreaming' \in BOOLEAN /\ streamingMessage' \in BOOLEAN
            /\ errorMessage' \in BOOLEAN
        BY <3>3
      <3>6. /\ messages' \in Seq(Message) /\ steeringQueue' \in Seq(UserMessage)
            /\ followUpQueue' \in Seq(UserMessage)
        BY <3>2, <3>3, Zenon
      <3>7. /\ activeRun' \in {"none", "live", "aborted"} /\ nextId' \in Nat
            /\ ended' \in BOOLEAN /\ afterEnd' \in BOOLEAN
        BY <3>3
      <3> QED
        BY <3>1, <3>4, <3>5, <3>6, <3>7
    <2> QED
      BY <2>1, <2>2, <2>3, <2>4, <2>5, <2>6 DEF ClientStep, ClientCall
  <1>3. TypeOK' /\ BatchShape'
    BY <1>2 DEF TypeInv, TypeOK, BatchShape, ClientStep, loopVars
  <1> QED
    BY <1>3 DEF TypeInv

-----------------------------------------------------------------------------
\* Every step of the system keeps the invariant.
LEMMA TypeNext ==
    ASSUME TypeInv, [Next]_vars
    PROVE  TypeInv'
  <1>1. CASE StartRun
    BY <1>1, TypeStartRun
  <1>2. CASE LoopStep
    BY <1>2, TypeEmitPrompt, TypePollInitialSteering, TypeInjectPending,
       TypeRequestReply, TypeReplies, TypeToolStart, TypePreflight,
       TypeRefusedCallEnd, TypeNextToolCall, TypeLaunchPrepared, TypeJoinTools,
       TypeEmitResult, TypeFinishBatch, TypeTurnEnd, TypePrepareNextTurn,
       TypePollSteering, TypePollFollowUps, TypeLastTurnEnd, TypeAgentEnd,
       TypeFailureMessage, TypeFinishRun
       DEF LoopStep
  <1>3. CASE ProviderStep
    BY <1>3, TypeStreamStart, TypeReplies DEF ProviderStep
  <1>4. CASE ToolStep
    BY <1>4, TypeToolEnd, TypeStaleToolEnd DEF ToolStep
  <1>5. CASE Throw
    BY <1>5, TypeListenerThrows, TypeFailureThrows DEF Throw
  <1>6. CASE ClientStep
    BY <1>6, TypeClientStep
  <1>7. CASE UNCHANGED vars
    BY <1>7 DEF TypeInv, TypeOK, AgentTypeOK, BatchShape, vars, loopVars
  <1> QED
    BY <1>1, <1>2, <1>3, <1>4, <1>5, <1>6, <1>7 DEF Next

\* The types hold, and a batch has as many calls as the reply that asked for it
\* and a position inside it, in every state of every execution of the agent.
THEOREM TypeInvariant == Spec => []TypeInv
  <1>1. Init => TypeInv
    BY TypeInit
  <1>2. TypeInv /\ [Next]_vars => TypeInv'
    BY TypeNext
  <1> QED
    BY <1>1, <1>2, PTL DEF Spec

\* Every variable of the agent and of its loop keeps its type, whatever the
\* clients, the provider, the tools and the listeners do.
THEOREM TypeCorrect == Spec => []TypeOK
  <1>1. TypeInv => TypeOK
    BY DEF TypeInv
  <1> QED
    BY <1>1, TypeInvariant, PTL

-----------------------------------------------------------------------------
\* Control: a run is active exactly between its start and finishRun, a prompt
\* is in the loop's hands only before the first poll and a drained message
\* only before the request of its turn, and the limit is respected.

ControlInv ==
    /\ pc = "idle" <=> activeRun = "none"
    /\ pc = "idle" => ~isStreaming /\ ~streamingMessage /\ pendingToolCalls = {}
    /\ pc # "prompts" => prompts = <<>>
    /\ pc # "turn" => pendingMessages = <<>>
    /\ pc \in {"idle", "prompts"} => completedTurns = 0
    /\ TurnLimit > 0 /\ pc \in TurnPoints => completedTurns < TurnLimit

\* The constructor of Agent establishes the control invariant.
LEMMA ControlInit == Init => ControlInv
  BY DEF Init, AgentInit, ControlInv, TurnPoints

\* Every way to start a run keeps the control invariant.
LEMMA ControlStart ==
    ASSUME ControlInv, StartRun
    PROVE  ControlInv'
  BY DEF ControlInv, StartRun, Prompt, ContinueWithSteering,
         ContinueWithFollowUps, ContinueTranscript, RunPromptMessages, BeginRun,
         TurnPoints

\* Every step of the loop keeps the control invariant.
LEMMA ControlLoop ==
    ASSUME TypeInv, ControlInv, LoopStep
    PROVE  ControlInv'
  <1> USE DEF ControlInv, TurnPoints
  <1>1. CASE EmitPrompt
    BY <1>1 DEF EmitPrompt, MessageEnd
  <1>2. CASE PollInitialSteering
    BY <1>2 DEF PollInitialSteering
  <1>3. CASE InjectPending
    BY <1>3 DEF InjectPending, MessageEnd
  <1>4. CASE RequestReply
    BY <1>4 DEF RequestReply
  <1>5. CASE RequestAborted
    BY <1>5 DEF RequestAborted, ReplyArrives, MessageEnd
  <1>6. CASE ToolStart \/ RefuseCall \/ PrepareCall \/ RefusedCallEnd
    BY <1>6 DEF ToolStart, RefuseCall, PrepareCall, RefusedCallEnd
  <1>7. CASE NextToolCall \/ LaunchPrepared \/ JoinTools
    BY <1>7 DEF NextToolCall, LaunchPrepared, JoinTools
  <1>8. CASE EmitResult \/ FinishBatch
    BY <1>8 DEF EmitResult, MessageEnd, FinishBatch
  <1>9. CASE TurnEnd \/ PrepareNextTurn
    BY <1>9 DEF TurnEnd, PrepareNextTurn
  <1>10. CASE PollSteering \/ PollFollowUps
    <2>1. \/ /\ pc' \in {"pollFollowUps", "agentEnd"}
             /\ UNCHANGED <<prompts, pendingMessages>>
          \/ /\ pc' = "turn"
             /\ ~LimitReached
             /\ UNCHANGED <<prompts, completedTurns>>
          \/ pc' = "failed" /\ DropLocals
      BY <1>10 DEF PollSteering, PollFollowUps, RunFails
    <2>2. /\ pc \in {"pollSteering", "pollFollowUps"}
          /\ UNCHANGED <<stateVars, activeRun>>
      BY <1>10 DEF PollSteering, PollFollowUps
    <2> QED
      BY <2>1, <2>2, LoopAssumption DEF LimitReached, DropLocals, TypeInv, TypeOK
  <1>11. CASE LastTurnEnd \/ AgentEnd
    BY <1>11 DEF LastTurnEnd, AgentEnd, EmitAgentEnd
  <1>12. CASE FailureMessage \/ FailureTurnEnd \/ FailureAgentEnd
    BY <1>12 DEF FailureMessage, MessageEnd, FailureTurnEnd, FailureAgentEnd,
                 EmitAgentEnd
  <1>13. CASE FinishRun
    BY <1>13 DEF FinishRun, EndRun, DropLocals
  <1> QED
    BY <1>1, <1>2, <1>3, <1>4, <1>5, <1>6, <1>7, <1>8, <1>9, <1>10, <1>11,
       <1>12, <1>13 DEF LoopStep

\* Every step of the system keeps the control invariant.
LEMMA ControlNext ==
    ASSUME TypeInv, ControlInv, [Next]_vars
    PROVE  ControlInv'
  <1>1. CASE StartRun
    BY <1>1, ControlStart
  <1>2. CASE LoopStep
    BY <1>2, ControlLoop
  <1>3. CASE ProviderStep
    <2>1. CASE StreamStart
      BY <2>1 DEF ControlInv, TurnPoints, StreamStart, MessageStart
    <2>2. CASE ReplyWithoutCalls \/ ReplyWithCalls \/ ReplyFails
      <3>1. PICK m : ReplyArrives(m)
        BY <2>2 DEF ReplyWithoutCalls, ReplyWithCalls, ReplyFails
      <3>2. /\ pc \in {"request", "partial"}
            /\ pc' \in {"turnEnd", "toolStart", "lastTurnEnd"}
        BY <2>2 DEF ReplyWithoutCalls, ReplyWithCalls, ReplyFails
      <3> QED
        BY <3>1, <3>2 DEF ControlInv, TurnPoints, ReplyArrives, MessageEnd
    <2> QED
      BY <1>3, <2>1, <2>2 DEF ProviderStep
  <1>4. CASE ToolStep
    <2>1. ASSUME NEW i \in Running, ToolEnd(i)
          PROVE  ControlInv'
      BY <2>1 DEF ControlInv, TurnPoints, ToolEnd
    <2>2. ASSUME NEW c \in stale, StaleToolEnd(c)
          PROVE  ControlInv'
      BY <2>2 DEF ControlInv, TurnPoints, StaleToolEnd
    <2> QED
      BY <1>4, <2>1, <2>2 DEF ToolStep
  <1>5. CASE Throw
    BY <1>5 DEF ControlInv, TurnPoints, Throw, ListenerThrows, FailureThrows,
                LoopPoints, FailurePoints, RunFails, DropLocals
  <1>6. CASE ClientStep
    BY <1>6 DEF ControlInv, TurnPoints, ClientStep, ClientCall, loopVars, Steer,
                FollowUp, ClearSteeringQueue, ClearFollowUpQueue, Abort, Reset
  <1>7. CASE UNCHANGED vars
    BY <1>7 DEF ControlInv, TurnPoints, vars, loopVars
  <1> QED
    BY <1>1, <1>2, <1>3, <1>4, <1>5, <1>6, <1>7 DEF Next

\* A run is active exactly between its start and finishRun, what the loop holds
\* of prompts and drained messages is empty outside the steps that inject them,
\* and no point of a turn is reached beyond the limit, in every state.
THEOREM ControlInvariant == Spec => []ControlInv
  <1>1. Init => ControlInv
    BY ControlInit
  <1>2. TypeInv /\ ControlInv /\ [Next]_vars => ControlInv'
    BY ControlNext
  <1> QED
    BY <1>1, <1>2, TypeInvariant, PTL DEF Spec

\* When no run is active nothing of the last one shows in the agent's runtime
\* state, whatever threw, was aborted or was reset (finishRun).
THEOREM IdleClean == Spec => []IdleIsClean
  <1>1. ControlInv => IdleIsClean
    BY DEF ControlInv, IdleIsClean
  <1> QED
    BY <1>1, ControlInvariant, PTL

\* For every turn limit, no request is sent once the limit is reached.
THEOREM LimitRespected == Spec => []LimitStopsRequests
  <1>1. ControlInv => LimitStopsRequests
    BY DEF ControlInv, LimitStopsRequests
  <1> QED
    BY <1>1, ControlInvariant, PTL

-----------------------------------------------------------------------------
\* Lemmas about the identities of a sequence of messages.

\* No identity occurs twice in a sequence of user messages.
Distinct(s) == \A i, j \in DOMAIN s : s[i].id = s[j].id => i = j

\* The empty sequence holds no message.
LEMMA IdsOfEmpty == Ids(<<>>) = {}
  BY DEF Ids

\* In a sequence of user messages every position counts.
LEMMA IdsOfUsers ==
    ASSUME NEW s \in Seq(UserMessage)
    PROVE  \A x : x \in Ids(s) <=> \E i \in 1..Len(s) : s[i].id = x
  <1>1. \A i \in 1..Len(s) : IsUser(s[i])
    <2>1. \A m \in UserMessage : IsUser(m)
      BY DEF IsUser, UserMessage
    <2> QED
      BY <2>1, ElementOfSeq
  <1> QED
    BY <1>1 DEF Ids

\* The ids of a sequence of messages are numbers.
LEMMA IdsOfMessages ==
    ASSUME NEW s \in Seq(Message)
    PROVE  \A x : x \in Ids(s) <=>
                    \E i \in 1..Len(s) : IsUser(s[i]) /\ s[i].id = x
  BY DEF Ids

\* Appending a message adds exactly its id.
LEMMA IdsOfAppend ==
    ASSUME NEW s \in Seq(Message), NEW m \in Message
    PROVE  /\ IsUser(m) => Ids(Append(s, m)) = Ids(s) \union {m.id}
           /\ ~IsUser(m) => Ids(Append(s, m)) = Ids(s)
  <1> DEFINE t == Append(s, m)
  <1>1. /\ t \in Seq(Message)
        /\ Len(t) = Len(s) + 1
        /\ \A i \in 1..Len(s) : t[i] = s[i]
        /\ t[Len(s) + 1] = m
        /\ Len(s) \in Nat
    BY AppendProperties, LenProperties
  <1> HIDE DEF t
  <1>2. \A x : x \in Ids(t) <=>
                 x \in Ids(s) \/ (IsUser(m) /\ x = m.id)
    <2>1. TAKE x
    <2>2. ASSUME NEW i \in 1..Len(t), IsUser(t[i]), t[i].id = x
          PROVE  x \in Ids(s) \/ (IsUser(m) /\ x = m.id)
      <3>1. i \in 1..Len(s) \/ i = Len(s) + 1
        BY <1>1
      <3> QED
        BY <1>1, <2>2, <3>1, IdsOfMessages
    <2>3. ASSUME NEW i \in 1..Len(s), IsUser(s[i]), s[i].id = x
          PROVE  x \in Ids(t)
      <3>1. i \in 1..Len(t) /\ t[i] = s[i]
        BY <1>1
      <3> QED
        BY <1>1, <2>3, <3>1, IdsOfMessages
    <2>4. ASSUME IsUser(m), x = m.id
          PROVE  x \in Ids(t)
      <3>1. Len(s) + 1 \in 1..Len(t) /\ t[Len(s) + 1] = m
        BY <1>1
      <3> QED
        BY <1>1, <2>4, <3>1, IdsOfMessages
    <2> QED
      BY <1>1, <2>2, <2>3, <2>4, IdsOfMessages
  <1> QED
    BY <1>2 DEF t

\* A concatenation holds the ids of both parts.
LEMMA IdsOfConcat ==
    ASSUME NEW s \in Seq(UserMessage), NEW t \in Seq(UserMessage)
    PROVE  Ids(s \o t) = Ids(s) \union Ids(t)
  <1> DEFINE u == s \o t
  <1>1. /\ u \in Seq(UserMessage)
        /\ Len(u) = Len(s) + Len(t)
        /\ \A i \in 1..Len(s) + Len(t) :
                u[i] = IF i <= Len(s) THEN s[i] ELSE t[i - Len(s)]
        /\ Len(s) \in Nat /\ Len(t) \in Nat
    BY ConcatProperties, LenProperties
  <1> HIDE DEF u
  <1>2. \A x : x \in Ids(u) <=> x \in Ids(s) \/ x \in Ids(t)
    <2>1. TAKE x
    <2>2. ASSUME NEW i \in 1..Len(u), u[i].id = x
          PROVE  x \in Ids(s) \/ x \in Ids(t)
      <3>1. \/ i \in 1..Len(s) /\ u[i] = s[i]
            \/ i - Len(s) \in 1..Len(t) /\ u[i] = t[i - Len(s)]
        BY <1>1
      <3> QED
        BY <2>2, <3>1, IdsOfUsers
    <2>3. ASSUME NEW i \in 1..Len(s), s[i].id = x
          PROVE  x \in Ids(u)
      <3>1. i \in 1..Len(u) /\ u[i] = s[i]
        BY <1>1
      <3> QED
        BY <1>1, <2>3, <3>1, IdsOfUsers
    <2>4. ASSUME NEW i \in 1..Len(t), t[i].id = x
          PROVE  x \in Ids(u)
      <3>1. /\ Len(s) + i \in 1..Len(u)
            /\ ~(Len(s) + i <= Len(s))
            /\ (Len(s) + i) - Len(s) = i
        BY <1>1
      <3>2. u[Len(s) + i] = t[i]
        BY <1>1, <3>1
      <3> QED
        BY <1>1, <2>4, <3>1, <3>2, IdsOfUsers
    <2> QED
      BY <1>1, <2>2, <2>3, <2>4, IdsOfUsers
  <1> QED
    BY <1>2 DEF u

\* Taking the head moves one identity, and no other.
LEMMA IdsOfTail ==
    ASSUME NEW s \in Seq(UserMessage), s # <<>>, Distinct(s)
    PROVE  /\ Head(s).id \in Ids(s)
           /\ Ids(Tail(s)) = Ids(s) \ {Head(s).id}
           /\ Distinct(Tail(s))
  <1> DEFINE t == Tail(s)
  <1>1. /\ t \in Seq(UserMessage)
        /\ Len(t) = Len(s) - 1
        /\ \A i \in 1..Len(t) : t[i] = s[i + 1]
        /\ Len(s) \in Nat /\ Len(s) >= 1
        /\ Head(s) = s[1]
        /\ DOMAIN s = 1..Len(s) /\ DOMAIN t = 1..Len(t)
    BY HeadTailProperties, LenProperties, EmptySeq
  <1> HIDE DEF t
  <1>2. 1 \in 1..Len(s)
    BY <1>1
  <1>3. Head(s).id \in Ids(s)
    BY <1>1, <1>2, IdsOfUsers
  <1>4. Distinct(t)
    <2>1. \A i \in 1..Len(t) : i + 1 \in 1..Len(s)
      BY <1>1
    <2>2. ASSUME NEW i \in 1..Len(t), NEW j \in 1..Len(t), t[i].id = t[j].id
          PROVE  i = j
      <3>1. s[i + 1].id = s[j + 1].id
        BY <1>1, <2>2
      <3>2. i + 1 = j + 1
        BY <1>1, <2>1, <3>1 DEF Distinct
      <3> QED
        BY <3>2
    <2> QED
      BY <1>1, <2>2 DEF Distinct
  <1>5. \A x : x \in Ids(t) <=> x \in Ids(s) /\ x # Head(s).id
    <2>1. TAKE x
    <2>2. ASSUME NEW i \in 1..Len(t), t[i].id = x
          PROVE  x \in Ids(s) /\ x # Head(s).id
      <3>1. i + 1 \in 1..Len(s) /\ s[i + 1].id = x /\ i + 1 # 1
        BY <1>1, <2>2
      <3> QED
        BY <1>1, <1>2, <3>1, IdsOfUsers DEF Distinct
    <2>3. ASSUME NEW i \in 1..Len(s), s[i].id = x, x # Head(s).id
          PROVE  x \in Ids(t)
      <3>1. i # 1
        BY <1>1, <2>3
      <3>2. i - 1 \in 1..Len(t) /\ t[i - 1] = s[i]
        BY <1>1, <3>1
      <3> QED
        BY <1>1, <2>3, <3>2, IdsOfUsers
    <2> QED
      BY <1>1, <2>2, <2>3, IdsOfUsers
  <1> QED
    BY <1>3, <1>4, <1>5 DEF t

\* A drain splits the identities of a queue: none is kept twice or dropped.
LEMMA IdsOfDrain ==
    ASSUME NEW mode, NEW q \in Seq(UserMessage), Distinct(q)
    PROVE  /\ Ids(Drained(mode, q)) \subseteq Ids(q)
           /\ Ids(AfterDrain(mode, q)) = Ids(q) \ Ids(Drained(mode, q))
           /\ Distinct(Drained(mode, q)) /\ Distinct(AfterDrain(mode, q))
  <1>1. CASE mode = "all" \/ q = <<>>
    BY <1>1, IdsOfEmpty DEF Drained, AfterDrain, Distinct
  <1>2. CASE ~(mode = "all" \/ q = <<>>)
    <2>1. Drained(mode, q) = <<Head(q)>> /\ AfterDrain(mode, q) = Tail(q)
      BY <1>2 DEF Drained, AfterDrain
    <2>2. Head(q) \in UserMessage
      BY <1>2, HeadTailProperties
    <2> DEFINE one == <<Head(q)>>
    <2>3. /\ one \in Seq(UserMessage)
          /\ Len(one) = 1 /\ DOMAIN one = 1..1
          /\ one[1] = Head(q)
      BY <2>2
    <2> HIDE DEF one
    <2>4. \A x : x \in Ids(one) <=> x = Head(q).id
      BY <2>3, IdsOfUsers
    <2>5. Distinct(one)
      BY <2>3 DEF Distinct
    <2>6. Drained(mode, q) = one
      BY <2>1 DEF one
    <2> QED
      BY <1>2, <2>1, <2>4, <2>5, <2>6, IdsOfTail
  <1> QED
    BY <1>1, <1>2

\* A new message at the end of a queue.
LEMMA IdsOfEnqueue ==
    ASSUME NEW q \in Seq(UserMessage), Distinct(q), NEW m \in UserMessage,
           m.id \notin Ids(q)
    PROVE  /\ Ids(Append(q, m)) = Ids(q) \union {m.id}
           /\ Distinct(Append(q, m))
  <1>1. Ids(Append(q, m)) = Ids(q) \union {m.id}
    BY IdsOfAppend, MessageSeqs DEF Message, IsUser, UserMessage
  <1> DEFINE t == Append(q, m)
  <1>2. /\ Len(t) = Len(q) + 1
        /\ \A i \in 1..Len(q) : t[i] = q[i]
        /\ t[Len(q) + 1] = m
        /\ Len(q) \in Nat /\ DOMAIN q = 1..Len(q) /\ DOMAIN t = 1..Len(t)
    BY AppendProperties, LenProperties
  <1> HIDE DEF t
  <1>3. \A i \in 1..Len(q) : q[i].id # m.id
    BY IdsOfUsers
  <1>4. ASSUME NEW i \in 1..Len(t), NEW j \in 1..Len(t), t[i].id = t[j].id
        PROVE  i = j
    <2>1. /\ i \in 1..Len(q) \/ i = Len(q) + 1
          /\ j \in 1..Len(q) \/ j = Len(q) + 1
      BY <1>2
    <2> QED
      BY <1>2, <1>3, <1>4, <2>1 DEF Distinct
  <1>5. Distinct(t)
    BY <1>2, <1>4 DEF Distinct
  <1> QED
    BY <1>1, <1>5 DEF t

-----------------------------------------------------------------------------
\* Where the user messages are.  `seen` is the transcript, `held` what the
\* loop has taken and not emitted; each identity given out so far is in one of
\* the six sets and in one only.

Places(seen, steer, follow, held, gone, dropped, n) ==
    /\ \A x : x \in 1..(n - 1) <=>
                \/ x \in seen \/ x \in steer \/ x \in follow
                \/ x \in held \/ x \in gone \/ x \in dropped
    /\ \A x \in seen : x \notin steer /\ x \notin follow /\ x \notin held
                         /\ x \notin gone /\ x \notin dropped
    /\ \A x \in steer : x \notin follow /\ x \notin held /\ x \notin gone
                         /\ x \notin dropped
    /\ \A x \in follow : x \notin held /\ x \notin gone /\ x \notin dropped
    /\ \A x \in held : x \notin gone /\ x \notin dropped
    /\ \A x \in gone : x \notin dropped

Held == Ids(prompts) \union Ids(pendingMessages)

PlacesInv ==
    /\ nextId >= 1
    /\ Places(Ids(messages), Ids(steeringQueue), Ids(followUpQueue), Held,
              discarded, lost, nextId)
    /\ Distinct(prompts) /\ Distinct(pendingMessages)
    /\ Distinct(steeringQueue) /\ Distinct(followUpQueue)

\* Messages that are not from a user change no place.
LEMMA PlacesUnchanged ==
    ASSUME PlacesInv, Ids(messages') = Ids(messages),
           UNCHANGED <<steeringQueue, followUpQueue, prompts, pendingMessages,
                       discarded, lost, nextId>>
    PROVE  PlacesInv'
  BY DEF PlacesInv, Held

\* Before the first call nothing was submitted and every place is empty.
LEMMA PlacesInit == Init => PlacesInv
  BY IdsOfEmpty DEF Init, AgentInit, PlacesInv, Places, Held, Distinct

\* A run starts with the messages of the prompt or those of one drain.
LEMMA PlacesStart ==
    ASSUME TypeInv, ControlInv, PlacesInv, StartRun
    PROVE  PlacesInv'
  <1>1. /\ pc = "idle" /\ prompts = <<>> /\ pendingMessages = <<>>
        /\ UNCHANGED <<messages, pendingMessages, discarded, lost>>
    BY DEF ControlInv, StartRun, Prompt, ContinueWithSteering,
           ContinueWithFollowUps, ContinueTranscript, RunPromptMessages, BeginRun
  <1>2. Held = {}
    BY <1>1, IdsOfEmpty DEF Held
  <1>3. Held' = Ids(prompts')
    BY <1>1, IdsOfEmpty DEF Held
  <1>4. CASE Prompt
    <2>1. PICK n \in 1..MaxPrompts :
            /\ prompts' = [i \in 1..n |-> [role |-> "user", via |-> "prompt",
                                           id |-> nextId + i - 1]]
            /\ nextId' = nextId + n
            /\ UNCHANGED queueVars
      BY <1>4 DEF Prompt, RunPromptMessages
    <2>2. /\ prompts' \in Seq(UserMessage)
          /\ Len(prompts') = n /\ DOMAIN prompts' = 1..n
          /\ \A i \in 1..n : prompts'[i].id = nextId + i - 1
          /\ n \in Nat /\ nextId \in Nat
      BY <2>1 DEF UserMessage, Origins, TypeInv, TypeOK, AgentTypeOK
    <2>3. Distinct(prompts')
      BY <2>2 DEF Distinct
    <2>4. \A x : x \in Ids(prompts') <=> x \in nextId..(nextId + n - 1)
      <3>1. ASSUME NEW x \in Ids(prompts')
            PROVE  x \in nextId..(nextId + n - 1)
        <4>1. PICK i \in 1..n : prompts'[i].id = x
          BY <2>2, IdsOfUsers
        <4>2. x = nextId + i - 1
          BY <2>2, <4>1
        <4> QED
          BY <2>2, <4>2
      <3>2. ASSUME NEW x \in nextId..(nextId + n - 1)
            PROVE  x \in Ids(prompts')
        <4> DEFINE i == x - nextId + 1
        <4>1. i \in 1..n /\ nextId + i - 1 = x
          BY <2>2
        <4> HIDE DEF i
        <4>2. prompts'[i].id = x
          BY <2>2, <4>1
        <4> QED
          BY <2>2, <4>1, <4>2, IdsOfUsers
      <3> QED
        BY <3>1, <3>2
    <2>5. Places(Ids(messages), Ids(steeringQueue), Ids(followUpQueue),
                 Ids(prompts'), discarded, lost, nextId + n)
      BY <1>2, <2>2, <2>4 DEF PlacesInv, Places
    <2> QED
      BY <1>1, <1>3, <2>1, <2>2, <2>3, <2>5 DEF PlacesInv
  <1>5. CASE ContinueWithSteering
    <2>1. /\ prompts' = Drained(SteeringMode, steeringQueue)
          /\ steeringQueue' = AfterDrain(SteeringMode, steeringQueue)
          /\ UNCHANGED <<followUpQueue, nextId>>
      BY <1>5 DEF ContinueWithSteering, RunPromptMessages
    <2>2. /\ Ids(prompts') \subseteq Ids(steeringQueue)
          /\ Ids(steeringQueue') = Ids(steeringQueue) \ Ids(prompts')
          /\ Distinct(prompts') /\ Distinct(steeringQueue')
      BY <2>1, IdsOfDrain DEF PlacesInv, TypeInv, TypeOK, AgentTypeOK
    <2> QED
      BY <1>1, <1>2, <1>3, <2>1, <2>2 DEF PlacesInv, Places
  <1>6. CASE ContinueWithFollowUps
    <2>1. /\ prompts' = Drained(FollowUpMode, followUpQueue)
          /\ followUpQueue' = AfterDrain(FollowUpMode, followUpQueue)
          /\ UNCHANGED <<steeringQueue, nextId>>
      BY <1>6 DEF ContinueWithFollowUps, RunPromptMessages
    <2>2. /\ Ids(prompts') \subseteq Ids(followUpQueue)
          /\ Ids(followUpQueue') = Ids(followUpQueue) \ Ids(prompts')
          /\ Distinct(prompts') /\ Distinct(followUpQueue')
      BY <2>1, IdsOfDrain DEF PlacesInv, TypeInv, TypeOK, AgentTypeOK
    <2> QED
      BY <1>1, <1>2, <1>3, <2>1, <2>2 DEF PlacesInv, Places
  <1>7. CASE ContinueTranscript
    <2>1. prompts' = <<>> /\ UNCHANGED <<queueVars, nextId>>
      BY <1>7 DEF ContinueTranscript, RunPromptMessages
    <2> QED
      BY <1>1, <2>1 DEF PlacesInv, Held
  <1> QED
    BY <1>4, <1>5, <1>6, <1>7 DEF StartRun

\* The message at the head of the prompts, or of the injected messages, goes
\* to the transcript.
LEMMA PlacesEmit ==
    ASSUME TypeInv, ControlInv, PlacesInv, EmitPrompt \/ InjectPending
    PROVE  PlacesInv'
  <1>1. CASE EmitPrompt
    <2>1. /\ prompts # <<>> /\ pendingMessages = <<>>
          /\ messages' = Append(messages, Head(prompts))
          /\ prompts' = Tail(prompts)
          /\ UNCHANGED <<steeringQueue, followUpQueue, pendingMessages,
                         discarded, lost, nextId>>
      BY <1>1 DEF EmitPrompt, MessageEnd, ControlInv
    <2>2. Head(prompts) \in UserMessage
      BY <2>1, HeadTailProperties DEF TypeInv, TypeOK
    <2>3. Ids(messages') = Ids(messages) \union {Head(prompts).id}
      BY <2>1, <2>2, IdsOfAppend
         DEF TypeInv, TypeOK, AgentTypeOK, Message, IsUser, UserMessage
    <2>4. /\ Head(prompts).id \in Ids(prompts)
          /\ Ids(prompts') = Ids(prompts) \ {Head(prompts).id}
          /\ Distinct(prompts')
      BY <2>1, IdsOfTail DEF PlacesInv, TypeInv, TypeOK
    <2>5. Held = Ids(prompts) /\ Held' = Ids(prompts')
      BY <2>1, IdsOfEmpty DEF Held
    <2> QED
      BY <2>1, <2>3, <2>4, <2>5 DEF PlacesInv, Places
  <1>2. CASE InjectPending
    <2>1. /\ pendingMessages # <<>> /\ prompts = <<>>
          /\ messages' = Append(messages, Head(pendingMessages))
          /\ pendingMessages' = Tail(pendingMessages)
          /\ UNCHANGED <<steeringQueue, followUpQueue, prompts, discarded, lost,
                         nextId>>
      BY <1>2 DEF InjectPending, MessageEnd, ControlInv
    <2>2. Head(pendingMessages) \in UserMessage
      BY <2>1, HeadTailProperties DEF TypeInv, TypeOK
    <2>3. Ids(messages') = Ids(messages) \union {Head(pendingMessages).id}
      BY <2>1, <2>2, IdsOfAppend
         DEF TypeInv, TypeOK, AgentTypeOK, Message, IsUser, UserMessage
    <2>4. /\ Head(pendingMessages).id \in Ids(pendingMessages)
          /\ Ids(pendingMessages')
                = Ids(pendingMessages) \ {Head(pendingMessages).id}
          /\ Distinct(pendingMessages')
      BY <2>1, IdsOfTail DEF PlacesInv, TypeInv, TypeOK
    <2>5. Held = Ids(pendingMessages) /\ Held' = Ids(pendingMessages')
      BY <2>1, IdsOfEmpty DEF Held
    <2> QED
      BY <2>1, <2>3, <2>4, <2>5 DEF PlacesInv, Places
  <1> QED
    BY <1>1, <1>2

\* A drain moves messages from a queue to the loop, or, at the turn limit, to
\* those dropped with the run.
LEMMA PlacesPollSteering ==
    ASSUME TypeInv, ControlInv, PlacesInv, PollInitialSteering \/ PollSteering
    PROVE  PlacesInv'
  <1> DEFINE drained == Drained(SteeringMode, steeringQueue)
  <1>1. /\ prompts = <<>> /\ pendingMessages = <<>>
        /\ UNCHANGED <<messages, followUpQueue, discarded, nextId>>
    BY DEF ControlInv, PollInitialSteering, PollSteering
  <1>2. Held = {}
    BY <1>1, IdsOfEmpty DEF Held
  <1>3. /\ drained \in Seq(UserMessage)
        /\ Ids(drained) \subseteq Ids(steeringQueue)
        /\ Ids(AfterDrain(SteeringMode, steeringQueue))
                = Ids(steeringQueue) \ Ids(drained)
        /\ Distinct(drained)
        /\ Distinct(AfterDrain(SteeringMode, steeringQueue))
    BY DrainType, IdsOfDrain DEF PlacesInv, TypeInv, TypeOK, AgentTypeOK
  <1>4. \/ UNCHANGED <<steeringQueue, prompts, pendingMessages, lost>>
        \/ /\ steeringQueue' = AfterDrain(SteeringMode, steeringQueue)
           /\ prompts' = <<>> /\ pendingMessages' = drained
           /\ UNCHANGED lost
        \/ /\ steeringQueue' = AfterDrain(SteeringMode, steeringQueue)
           /\ prompts' = <<>> /\ pendingMessages' = <<>>
           /\ lost' = lost \union Ids(drained)
    <2>1. CASE PollInitialSteering
      BY <1>1, <2>1 DEF PollInitialSteering
    <2>2. CASE PollSteering
      BY <1>1, <2>2 DEF PollSteering, RunFails, DropLocals
    <2> QED
      BY <2>1, <2>2
  <1> HIDE DEF drained
  <1>5. CASE UNCHANGED <<steeringQueue, prompts, pendingMessages, lost>>
    BY <1>1, <1>5 DEF PlacesInv, Held
  <1>6. CASE /\ steeringQueue' = AfterDrain(SteeringMode, steeringQueue)
             /\ prompts' = <<>> /\ pendingMessages' = drained
             /\ UNCHANGED lost
    <2>1. Held' = Ids(drained) /\ Distinct(prompts')
      BY <1>6, IdsOfEmpty DEF Held, Distinct
    <2> QED
      BY <1>1, <1>2, <1>3, <1>6, <2>1 DEF PlacesInv, Places
  <1>7. CASE /\ steeringQueue' = AfterDrain(SteeringMode, steeringQueue)
             /\ prompts' = <<>> /\ pendingMessages' = <<>>
             /\ lost' = lost \union Ids(drained)
    <2>1. Held' = {} /\ Distinct(prompts') /\ Distinct(pendingMessages')
      BY <1>7, IdsOfEmpty DEF Held, Distinct
    <2> QED
      BY <1>1, <1>2, <1>3, <1>7, <2>1 DEF PlacesInv, Places
  <1> QED
    BY <1>4, <1>5, <1>6, <1>7

\* Draining the follow-ups moves messages from the queue to the loop, all of them
\* or the first.
LEMMA PlacesPollFollowUps ==
    ASSUME TypeInv, ControlInv, PlacesInv, PollFollowUps
    PROVE  PlacesInv'
  <1> DEFINE drained == Drained(FollowUpMode, followUpQueue)
  <1>1. /\ prompts = <<>> /\ pendingMessages = <<>>
        /\ UNCHANGED <<messages, steeringQueue, discarded, nextId>>
        /\ followUpQueue' = AfterDrain(FollowUpMode, followUpQueue)
    BY DEF ControlInv, PollFollowUps
  <1>2. Held = {}
    BY <1>1, IdsOfEmpty DEF Held
  <1>3. /\ drained \in Seq(UserMessage)
        /\ Ids(drained) \subseteq Ids(followUpQueue)
        /\ Ids(followUpQueue') = Ids(followUpQueue) \ Ids(drained)
        /\ Distinct(drained) /\ Distinct(followUpQueue')
    BY <1>1, DrainType, IdsOfDrain DEF PlacesInv, TypeInv, TypeOK, AgentTypeOK
  <1>4. \/ prompts' = <<>> /\ pendingMessages' = drained /\ UNCHANGED lost
        \/ /\ prompts' = <<>> /\ pendingMessages' = <<>>
           /\ lost' = lost \union Ids(drained)
    BY <1>1 DEF PollFollowUps, RunFails, DropLocals
  <1> HIDE DEF drained
  <1>5. CASE prompts' = <<>> /\ pendingMessages' = drained /\ UNCHANGED lost
    <2>1. Held' = Ids(drained) /\ Distinct(prompts')
      BY <1>5, IdsOfEmpty DEF Held, Distinct
    <2> QED
      BY <1>1, <1>2, <1>3, <1>5, <2>1 DEF PlacesInv, Places
  <1>6. CASE /\ prompts' = <<>> /\ pendingMessages' = <<>>
             /\ lost' = lost \union Ids(drained)
    <2>1. Held' = {} /\ Distinct(prompts') /\ Distinct(pendingMessages')
      BY <1>6, IdsOfEmpty DEF Held, Distinct
    <2> QED
      BY <1>1, <1>2, <1>3, <1>6, <2>1 DEF PlacesInv, Places
  <1> QED
    BY <1>4, <1>5, <1>6

\* What the loop held when it failed is dropped with it.
LEMMA PlacesThrow ==
    ASSUME TypeInv, ControlInv, PlacesInv, Throw
    PROVE  PlacesInv'
  <1>1. CASE ListenerThrows
    <2>1. /\ lost' = lost \union Ids(prompts \o pendingMessages)
          /\ prompts' = <<>> /\ pendingMessages' = <<>>
          /\ UNCHANGED agentVars
      BY <1>1 DEF ListenerThrows, RunFails, DropLocals
    <2>2. lost' = lost \union Held
      BY <2>1, IdsOfConcat DEF Held, TypeInv, TypeOK
    <2>3. Held' = {} /\ Distinct(prompts') /\ Distinct(pendingMessages')
      BY <2>1, IdsOfEmpty DEF Held, Distinct
    <2> QED
      BY <2>1, <2>2, <2>3 DEF PlacesInv, Places
  <1>2. CASE FailureThrows
    BY <1>2, PlacesUnchanged DEF FailureThrows
  <1> QED
    BY <1>1, <1>2 DEF Throw

\* Replies, results and failure messages are not from a user.
LEMMA PlacesNotFromUser ==
    ASSUME TypeInv, PlacesInv, NEW m \in Message, ~IsUser(m), MessageEnd(m),
           UNCHANGED <<steeringQueue, followUpQueue, prompts, pendingMessages,
                       discarded, lost, nextId>>
    PROVE  PlacesInv'
  <1>1. Ids(messages') = Ids(messages)
    BY IdsOfAppend DEF MessageEnd, TypeInv, TypeOK, AgentTypeOK
  <1> QED
    BY <1>1, PlacesUnchanged

\* A reply of the model moves no user message.
LEMMA PlacesReply ==
    ASSUME TypeInv, PlacesInv,
           \/ ReplyWithoutCalls \/ ReplyWithCalls \/ ReplyFails
           \/ RequestAborted \/ FailureMessage
    PROVE  PlacesInv'
  <1>1. PICK stop \in StopReasons, n \in Nat :
            \/ MessageEnd(Reply(stop, <<>>))
            \/ MessageEnd(Reply(stop, FreshCalls(n)))
    <2>1. /\ "done" \in StopReasons /\ "error" \in StopReasons
          /\ "aborted" \in StopReasons /\ 0 \in Nat
      BY DEF StopReasons
    <2>2. BatchSizes \subseteq Nat
      BY DEF BatchSizes
    <2> QED
      BY <2>1, <2>2 DEF ReplyWithoutCalls, ReplyWithCalls, ReplyFails,
                        RequestAborted, FailureMessage, ReplyArrives
  <1>2. /\ Reply(stop, <<>>) \in Message /\ ~IsUser(Reply(stop, <<>>))
        /\ Reply(stop, FreshCalls(n)) \in Message
        /\ ~IsUser(Reply(stop, FreshCalls(n)))
    <2>1. <<>> \in Seq(Nat) /\ FreshCalls(n) \in Seq(Nat)
      BY EmptySeq, FreshCallsType DEF TypeInv, TypeOK
    <2>2. \A calls : ~IsUser(Reply(stop, calls))
      BY DEF IsUser, Reply
    <2> QED
      BY <2>1, <2>2, ReplyType, MessageSeqs
  <1>3. UNCHANGED <<steeringQueue, followUpQueue, prompts, pendingMessages,
                    discarded, lost, nextId>>
    BY DEF ReplyWithoutCalls, ReplyWithCalls, ReplyFails, RequestAborted,
           FailureMessage, ReplyArrives
  <1> QED
    BY <1>1, <1>2, <1>3, PlacesNotFromUser

\* A tool result moves no user message.
LEMMA PlacesEmitResult ==
    ASSUME TypeInv, PlacesInv, EmitResult
    PROVE  PlacesInv'
  <1>1. batch.next \in 1..Len(batch.calls) /\ Len(batch.calls) \in Nat
    BY DEF TypeInv, TypeOK, BatchShape, EmitResult, ToolPoints, Batch
  <1>2. NextResult \in 1..Len(batch.calls)
    BY <1>1 DEF TypeInv, TypeOK, EmitResult, NextResult
  <1> DEFINE m == Result(batch.calls[NextResult])
  <1>3. m \in Message /\ ~IsUser(m)
    BY <1>2, BatchFacts DEF Result, Message, ToolResult, IsUser
  <1>4. MessageEnd(m)
    BY DEF EmitResult
  <1> HIDE DEF m
  <1> QED
    BY <1>3, <1>4, PlacesNotFromUser DEF EmitResult

\* The calls of clients.
LEMMA PlacesClient ==
    ASSUME TypeInv, PlacesInv, ClientStep
    PROVE  PlacesInv'
  <1>1. Held' = Held /\ UNCHANGED <<prompts, pendingMessages, lost>>
    BY DEF ClientStep, loopVars, Held
  <1>2. nextId \in Nat /\ nextId \notin Ids(steeringQueue)
        /\ nextId \notin Ids(followUpQueue)
    BY DEF TypeInv, TypeOK, AgentTypeOK, PlacesInv, Places
  <1>3. CASE Steer
    <2> DEFINE m == [role |-> "user", via |-> "steer", id |-> nextId]
    <2>1. m \in UserMessage /\ m.id = nextId
      BY <1>2 DEF UserMessage, Origins
    <2>2. /\ steeringQueue' = Append(steeringQueue, m)
          /\ nextId' = nextId + 1
          /\ UNCHANGED <<messages, followUpQueue, discarded>>
      BY <1>3 DEF Steer
    <2> HIDE DEF m
    <2>3. /\ Ids(steeringQueue') = Ids(steeringQueue) \union {nextId}
          /\ Distinct(steeringQueue')
      BY <1>2, <2>1, <2>2, IdsOfEnqueue
         DEF PlacesInv, TypeInv, TypeOK, AgentTypeOK
    <2> QED
      BY <1>1, <1>2, <2>2, <2>3 DEF PlacesInv, Places
  <1>4. CASE FollowUp
    <2> DEFINE m == [role |-> "user", via |-> "followUp", id |-> nextId]
    <2>1. m \in UserMessage /\ m.id = nextId
      BY <1>2 DEF UserMessage, Origins
    <2>2. /\ followUpQueue' = Append(followUpQueue, m)
          /\ nextId' = nextId + 1
          /\ UNCHANGED <<messages, steeringQueue, discarded>>
      BY <1>4 DEF FollowUp
    <2> HIDE DEF m
    <2>3. /\ Ids(followUpQueue') = Ids(followUpQueue) \union {nextId}
          /\ Distinct(followUpQueue')
      BY <1>2, <2>1, <2>2, IdsOfEnqueue
         DEF PlacesInv, TypeInv, TypeOK, AgentTypeOK
    <2> QED
      BY <1>1, <1>2, <2>2, <2>3 DEF PlacesInv, Places
  <1>5. CASE ClearSteeringQueue
    <2>1. Ids(steeringQueue') = {} /\ Distinct(steeringQueue')
      BY <1>5, IdsOfEmpty DEF ClearSteeringQueue, Distinct
    <2> QED
      BY <1>1, <1>5, <2>1 DEF ClearSteeringQueue, PlacesInv, Places
  <1>6. CASE ClearFollowUpQueue
    <2>1. Ids(followUpQueue') = {} /\ Distinct(followUpQueue')
      BY <1>6, IdsOfEmpty DEF ClearFollowUpQueue, Distinct
    <2> QED
      BY <1>1, <1>6, <2>1 DEF ClearFollowUpQueue, PlacesInv, Places
  <1>7. CASE Abort
    BY <1>1, <1>7, PlacesUnchanged DEF Abort
  <1>8. CASE Reset
    <2>1. /\ Ids(messages') = {} /\ Ids(steeringQueue') = {}
          /\ Ids(followUpQueue') = {}
          /\ Distinct(steeringQueue') /\ Distinct(followUpQueue')
      BY <1>8, IdsOfEmpty DEF Reset, Distinct
    <2>2. /\ discarded' = discarded \union Ids(messages)
                            \union Ids(steeringQueue) \union Ids(followUpQueue)
          /\ UNCHANGED nextId
      BY <1>8 DEF Reset
    <2> QED
      BY <1>1, <2>1, <2>2 DEF PlacesInv, Places
  <1> QED
    BY <1>3, <1>4, <1>5, <1>6, <1>7, <1>8 DEF ClientStep, ClientCall

\* Every step of the loop keeps each user message in exactly one place.
LEMMA PlacesLoop ==
    ASSUME TypeInv, ControlInv, PlacesInv, LoopStep
    PROVE  PlacesInv'
  <1>1. CASE EmitPrompt \/ InjectPending
    BY <1>1, PlacesEmit
  <1>2. CASE PollInitialSteering \/ PollSteering
    BY <1>2, PlacesPollSteering
  <1>3. CASE PollFollowUps
    BY <1>3, PlacesPollFollowUps
  <1>4. CASE RequestAborted \/ FailureMessage
    BY <1>4, PlacesReply
  <1>5. CASE EmitResult
    BY <1>5, PlacesEmitResult
  <1>6. CASE RequestReply \/ PrepareNextTurn \/ TurnEnd \/ LastTurnEnd \/ AgentEnd
    BY <1>6, PlacesUnchanged
       DEF RequestReply, PrepareNextTurn, TurnEnd, LastTurnEnd, AgentEnd
  <1>7. CASE ToolStart \/ RefuseCall \/ PrepareCall \/ RefusedCallEnd
    BY <1>7, PlacesUnchanged
       DEF ToolStart, RefuseCall, PrepareCall, RefusedCallEnd
  <1>8. CASE NextToolCall \/ LaunchPrepared \/ JoinTools \/ FinishBatch
    BY <1>8, PlacesUnchanged
       DEF NextToolCall, LaunchPrepared, JoinTools, FinishBatch
  <1>9. CASE FailureTurnEnd \/ FailureAgentEnd
    BY <1>9, PlacesUnchanged DEF FailureTurnEnd, FailureAgentEnd
  <1>10. CASE FinishRun
    BY <1>10, PlacesUnchanged DEF FinishRun, EndRun, DropLocals, ControlInv
  <1> QED
    BY <1>1, <1>2, <1>3, <1>4, <1>5, <1>6, <1>7, <1>8, <1>9, <1>10 DEF LoopStep

\* Every step of the system keeps each user message in exactly one place.
LEMMA PlacesNext ==
    ASSUME TypeInv, ControlInv, PlacesInv, [Next]_vars
    PROVE  PlacesInv'
  <1>1. CASE StartRun
    BY <1>1, PlacesStart
  <1>2. CASE LoopStep
    BY <1>2, PlacesLoop
  <1>3. CASE ProviderStep
    <2>1. CASE StreamStart
      BY <2>1, PlacesUnchanged DEF StreamStart
    <2> QED
      BY <1>3, <2>1, PlacesReply DEF ProviderStep
  <1>4. CASE ToolStep
    <2>1. ASSUME NEW i \in Running, ToolEnd(i)
          PROVE  PlacesInv'
      BY <2>1, PlacesUnchanged DEF ToolEnd
    <2>2. ASSUME NEW c \in stale, StaleToolEnd(c)
          PROVE  PlacesInv'
      BY <2>2, PlacesUnchanged DEF StaleToolEnd
    <2> QED
      BY <1>4, <2>1, <2>2 DEF ToolStep
  <1>5. CASE Throw
    BY <1>5, PlacesThrow
  <1>6. CASE ClientStep
    BY <1>6, PlacesClient
  <1>7. CASE UNCHANGED vars
    BY <1>7, PlacesUnchanged DEF vars, loopVars
  <1> QED
    BY <1>1, <1>2, <1>3, <1>4, <1>5, <1>6, <1>7 DEF Next

\* Every user message ever submitted is in the transcript, in a queue, in the
\* loop's hands, or was dropped by a clear, a reset or a failed run, and in one
\* of these places only: for any queue modes, bounds and interleaving.
THEOREM MessagesAccountedFor == Spec => []EveryMessageAccountedFor
  <1>1. Init => PlacesInv
    BY PlacesInit
  <1>2. TypeInv /\ ControlInv /\ PlacesInv /\ [Next]_vars => PlacesInv'
    BY PlacesNext
  <1>3. PlacesInv => EveryMessageAccountedFor
    BY DEF PlacesInv, Places, Held, EveryMessageAccountedFor
  <1> QED
    BY <1>1, <1>2, <1>3, TypeInvariant, ControlInvariant, PTL DEF Spec

-----------------------------------------------------------------------------
\* After an abort: once a tool call was started in an aborted run, the run
\* never comes back to a point where it starts another.

AbortInv ==
    /\ startsAfterAbort \in {0, 1}
    /\ startsAfterAbort = 1 =>
            /\ pc \notin {"toolStart", "request", "partial"}
            /\ pc = "idle" \/ Aborted

\* Every step of the loop keeps the invariant of the abort bound.
LEMMA AbortLoop ==
    ASSUME ControlInv, AbortInv, LoopStep
    PROVE  AbortInv'
  <1> USE DEF AbortInv, Aborted
  <1>1. CASE EmitPrompt \/ InjectPending \/ PollInitialSteering
    BY <1>1 DEF EmitPrompt, InjectPending, PollInitialSteering
  <1>2. CASE RequestReply \/ RequestAborted
    BY <1>2 DEF RequestReply, RequestAborted, ReplyArrives
  <1>3. CASE ToolStart
    BY <1>3 DEF ToolStart
  <1>4. CASE RefuseCall \/ PrepareCall \/ RefusedCallEnd
    BY <1>4 DEF RefuseCall, PrepareCall, RefusedCallEnd
  <1>5. CASE NextToolCall
    BY <1>5 DEF NextToolCall, LastCall
  <1>6. CASE LaunchPrepared \/ JoinTools \/ EmitResult \/ FinishBatch
    BY <1>6 DEF LaunchPrepared, JoinTools, EmitResult, FinishBatch
  <1>7. CASE TurnEnd \/ PrepareNextTurn \/ LastTurnEnd \/ AgentEnd
    BY <1>7 DEF TurnEnd, PrepareNextTurn, LastTurnEnd, AgentEnd
  <1>8. CASE PollSteering \/ PollFollowUps
    BY <1>8 DEF PollSteering, PollFollowUps, RunFails
  <1>9. CASE FailureMessage \/ FailureTurnEnd \/ FailureAgentEnd
    BY <1>9 DEF FailureMessage, FailureTurnEnd, FailureAgentEnd
  <1>10. CASE FinishRun
    BY <1>10 DEF FinishRun
  <1> QED
    BY <1>1, <1>2, <1>3, <1>4, <1>5, <1>6, <1>7, <1>8, <1>9, <1>10 DEF LoopStep

\* Every step of the system keeps the invariant of the abort bound.
LEMMA AbortNext ==
    ASSUME ControlInv, AbortInv, [Next]_vars
    PROVE  AbortInv'
  <1>1. CASE StartRun
    BY <1>1 DEF AbortInv, StartRun, Prompt, ContinueWithSteering,
                ContinueWithFollowUps, ContinueTranscript, RunPromptMessages
  <1>2. CASE LoopStep
    BY <1>2, AbortLoop
  <1>3. CASE ProviderStep
    BY <1>3 DEF AbortInv, ProviderStep, StreamStart, ReplyWithoutCalls,
                ReplyWithCalls, ReplyFails, ReplyArrives
  <1>4. CASE ToolStep
    <2>1. ASSUME NEW i \in Running, ToolEnd(i)
          PROVE  AbortInv'
      BY <2>1 DEF AbortInv, Aborted, ToolEnd
    <2>2. ASSUME NEW c \in stale, StaleToolEnd(c)
          PROVE  AbortInv'
      BY <2>2 DEF AbortInv, Aborted, StaleToolEnd
    <2> QED
      BY <1>4, <2>1, <2>2 DEF ToolStep
  <1>5. CASE Throw
    BY <1>5 DEF AbortInv, Aborted, Throw, ListenerThrows, FailureThrows,
                RunFails, LoopPoints, FailurePoints
  <1>6. CASE ClientStep
    BY <1>6 DEF AbortInv, Aborted, ClientStep, ClientCall, loopVars, Steer,
                FollowUp, ClearSteeringQueue, ClearFollowUpQueue, Abort, Reset
  <1>7. CASE UNCHANGED vars
    BY <1>7 DEF AbortInv, Aborted, vars, loopVars
  <1> QED
    BY <1>1, <1>2, <1>3, <1>4, <1>5, <1>6, <1>7 DEF Next

\* However many calls a reply makes, at most one is started after the abort,
\* whenever the abort comes.
THEOREM AbortBounded == Spec => []AbortStopsTools
  <1>1. Init => AbortInv
    BY DEF Init, AbortInv
  <1>2. ControlInv /\ AbortInv /\ [Next]_vars => AbortInv'
    BY AbortNext
  <1>3. AbortInv => AbortStopsTools
    BY DEF AbortInv, AbortStopsTools
  <1> QED
    BY <1>1, <1>2, <1>3, ControlInvariant, PTL DEF Spec

-----------------------------------------------------------------------------
\* Lemmas about suffixes, stated by positions.

\* t ends with s.
Ends(s, t) ==
    /\ Len(s) <= Len(t)
    /\ \A i \in 1..Len(s) : s[i] = t[Len(t) - Len(s) + i]

\* One of the two ends with the other.
Agree(s, t) == Ends(s, t) \/ Ends(t, s)

\* What the community module's operator says, by positions.
LEMMA SuffixIs ==
    ASSUME NEW S, NEW s \in Seq(S), NEW t \in Seq(S)
    PROVE  IsSuffix(s, t) <=> Ends(s, t)
  <1>1. \A u \in Seq(S) : /\ Reverse(u) \in Seq(S) /\ Len(Reverse(u)) = Len(u)
                          /\ Len(u) \in Nat
                          /\ \A i \in 1..Len(u) : Reverse(u)[i] = u[Len(u) - i + 1]
    <2>1. ASSUME NEW u \in Seq(S)
          PROVE  /\ Reverse(u) \in Seq(S) /\ Len(Reverse(u)) = Len(u)
                 /\ Len(u) \in Nat
                 /\ \A i \in 1..Len(u) : Reverse(u)[i] = u[Len(u) - i + 1]
      <3>1. \A i \in 1..Len(u) : u[Len(u) - i + 1] \in S
        BY LenProperties
      <3> QED
        BY <3>1, LenProperties DEF Reverse
    <2> QED
      BY <2>1
  <1> DEFINE n == Len(s)  a == Reverse(s)  b == Reverse(t)
  <1>2. /\ a \in Seq(S) /\ Len(a) = n /\ n \in Nat
        /\ \A i \in 1..n : a[i] = s[n - i + 1]
        /\ b \in Seq(S) /\ Len(b) = Len(t) /\ Len(t) \in Nat
        /\ \A i \in 1..Len(t) : b[i] = t[Len(t) - i + 1]
    BY <1>1
  <1>3. IsSuffix(s, t) <=> n <= Len(t) /\ SubSeq(a, 1, n) = SubSeq(b, 1, n)
    BY <1>2 DEF IsSuffix, IsPrefix
  <1> HIDE DEF a, b
  <1>4. n <= Len(t) =>
            /\ SubSeq(a, 1, n) \in Seq(S) /\ Len(SubSeq(a, 1, n)) = n
            /\ SubSeq(b, 1, n) \in Seq(S) /\ Len(SubSeq(b, 1, n)) = n
            /\ \A i \in 1..n : SubSeq(a, 1, n)[i] = a[i] /\ SubSeq(b, 1, n)[i] = b[i]
    <2> SUFFICES ASSUME n <= Len(t)
                 PROVE  /\ SubSeq(a, 1, n) \in Seq(S) /\ Len(SubSeq(a, 1, n)) = n
                        /\ SubSeq(b, 1, n) \in Seq(S) /\ Len(SubSeq(b, 1, n)) = n
                        /\ \A i \in 1..n : /\ SubSeq(a, 1, n)[i] = a[i]
                                           /\ SubSeq(b, 1, n)[i] = b[i]
      OBVIOUS
    <2>1. \A i \in 1..n : a[i] \in S /\ b[i] \in S
      BY <1>2, ElementOfSeq
    <2> QED
      BY <1>2, <2>1, SubSeqProperties
  <1>5. ASSUME n <= Len(t), SubSeq(a, 1, n) = SubSeq(b, 1, n)
        PROVE  \A i \in 1..n : s[i] = t[Len(t) - n + i]
    <2>1. TAKE i \in 1..n
    <2>2. n - i + 1 \in 1..n /\ n - i + 1 \in 1..Len(t)
          /\ n - (n - i + 1) + 1 = i
          /\ Len(t) - (n - i + 1) + 1 = Len(t) - n + i
      <3>1. i \in Nat /\ 1 <= i /\ i <= n /\ n \in Nat /\ Len(t) \in Nat /\ n <= Len(t)
        BY <1>2, <1>5
      <3>2. n - i + 1 \in 1..n /\ n - i + 1 \in 1..Len(t)
        BY <3>1
      <3> QED
        BY <3>1, <3>2
    <2>3. a[n - i + 1] = b[n - i + 1]
      BY <1>4, <1>5, <2>2
    <2> QED
      BY <1>2, <1>5, <2>2, <2>3
  <1>6. ASSUME n <= Len(t), \A i \in 1..n : s[i] = t[Len(t) - n + i]
        PROVE  SubSeq(a, 1, n) = SubSeq(b, 1, n)
    <2>1. ASSUME NEW i \in 1..n
          PROVE  a[i] = b[i]
      <3>1. n - i + 1 \in 1..n /\ Len(t) - n + (n - i + 1) = Len(t) - i + 1
        BY <1>2
      <3>2. s[n - i + 1] = t[Len(t) - i + 1]
        BY <1>6, <3>1
      <3> QED
        BY <1>2, <1>6, <3>2
    <2> QED
      BY <1>4, <1>6, <2>1, SeqEqual
  <1> QED
    BY <1>3, <1>5, <1>6 DEF Ends

\* Every sequence ends with the empty one.
LEMMA EndsEmpty ==
    ASSUME NEW S, NEW t \in Seq(S)
    PROVE  Ends(<<>>, t)
  BY LenProperties DEF Ends

\* Every sequence ends with itself.
LEMMA EndsSelf ==
    ASSUME NEW S, NEW t \in Seq(S)
    PROVE  Ends(t, t)
  BY LenProperties DEF Ends

\* The same message at the end of both.
LEMMA EndsAppend ==
    ASSUME NEW S, NEW s \in Seq(S), NEW t \in Seq(S), NEW m \in S, Ends(s, t)
    PROVE  Ends(Append(s, m), Append(t, m))
  <1> DEFINE a == Append(s, m)  b == Append(t, m)
  <1>1. /\ Len(a) = Len(s) + 1 /\ a[Len(s) + 1] = m
        /\ \A i \in 1..Len(s) : a[i] = s[i]
        /\ Len(b) = Len(t) + 1 /\ b[Len(t) + 1] = m
        /\ \A i \in 1..Len(t) : b[i] = t[i]
        /\ Len(s) \in Nat /\ Len(t) \in Nat
    BY AppendProperties, LenProperties
  <1> HIDE DEF a, b
  <1>2. Len(s) <= Len(t) /\ \A i \in 1..Len(s) : s[i] = t[Len(t) - Len(s) + i]
    BY DEF Ends
  <1>3. ASSUME NEW i \in 1..Len(a)
        PROVE  a[i] = b[Len(b) - Len(a) + i]
    <2>1. CASE i = Len(s) + 1
      BY <1>1, <2>1
    <2>2. CASE i \in 1..Len(s)
      <3>1. /\ Len(t) - Len(s) + i \in 1..Len(t)
            /\ Len(b) - Len(a) + i = Len(t) - Len(s) + i
        BY <1>1, <1>2, <2>2
      <3> QED
        BY <1>1, <1>2, <2>2, <3>1
    <2> QED
      BY <1>1, <2>1, <2>2
  <1>4. Len(a) <= Len(b)
    BY <1>1, <1>2
  <1> QED
    BY <1>3, <1>4 DEF Ends, a, b

\* A suffix of a suffix.
LEMMA EndsPart ==
    ASSUME NEW S, NEW s \in Seq(S), NEW p \in Seq(S), NEW t \in Seq(S),
           Ends(s \o p, t)
    PROVE  Ends(p, t)
  <1> DEFINE a == s \o p
  <1>1. /\ Len(a) = Len(s) + Len(p)
        /\ \A i \in 1..(Len(s) + Len(p)) :
                a[i] = IF i <= Len(s) THEN s[i] ELSE p[i - Len(s)]
        /\ Len(s) \in Nat /\ Len(p) \in Nat /\ Len(t) \in Nat
    BY ConcatProperties, LenProperties
  <1> HIDE DEF a
  <1>2. Len(a) <= Len(t) /\ \A i \in 1..Len(a) : a[i] = t[Len(t) - Len(a) + i]
    BY DEF Ends, a
  <1>3. ASSUME NEW i \in 1..Len(p)
        PROVE  p[i] = t[Len(t) - Len(p) + i]
    <2>1. /\ Len(s) + i \in 1..Len(a) /\ ~(Len(s) + i <= Len(s))
          /\ Len(s) + i - Len(s) = i
          /\ Len(t) - Len(a) + (Len(s) + i) = Len(t) - Len(p) + i
      BY <1>1
    <2>2. a[Len(s) + i] = p[i]
      BY <1>1, <2>1
    <2> QED
      BY <1>2, <2>1, <2>2
  <1> QED
    BY <1>1, <1>2, <1>3 DEF Ends

\* A concatenation ends with its second part.
LEMMA EndsWithPart ==
    ASSUME NEW S, NEW s \in Seq(S), NEW p \in Seq(S)
    PROVE  Ends(p, s \o p)
  <1>1. s \o p \in Seq(S)
    BY ConcatProperties
  <1> QED
    BY <1>1, EndsSelf, EndsPart

\* Two suffixes of the same sequence.
LEMMA EndsBoth ==
    ASSUME NEW S, NEW s \in Seq(S), NEW t \in Seq(S), NEW u \in Seq(S),
           Ends(s, u), Ends(t, u)
    PROVE  Agree(s, t)
  <1>1. Len(s) \in Nat /\ Len(t) \in Nat /\ Len(u) \in Nat
    BY LenProperties
  <1>2. ASSUME NEW a \in Seq(S), NEW b \in Seq(S), Ends(a, u), Ends(b, u),
               Len(a) <= Len(b), Len(a) \in Nat, Len(b) \in Nat
        PROVE  Ends(a, b)
    <2>1. ASSUME NEW i \in 1..Len(a)
          PROVE  a[i] = b[Len(b) - Len(a) + i]
      <3>1. Len(b) - Len(a) + i \in 1..Len(b)
            /\ Len(u) - Len(b) + (Len(b) - Len(a) + i) = Len(u) - Len(a) + i
        BY <1>1, <1>2
      <3>2. b[Len(b) - Len(a) + i] = u[Len(u) - Len(a) + i]
        BY <1>2, <3>1 DEF Ends
      <3> QED
        BY <1>2, <3>2 DEF Ends
    <2> QED
      BY <1>2, <2>1 DEF Ends
  <1>3. Len(s) <= Len(t) \/ Len(t) <= Len(s)
    BY <1>1
  <1> QED
    BY <1>1, <1>2, <1>3 DEF Agree

\* Both get the same message, or one loses its beginning.
LEMMA AgreeAppend ==
    ASSUME NEW S, NEW s \in Seq(S), NEW t \in Seq(S), NEW m \in S, Agree(s, t)
    PROVE  Agree(Append(s, m), Append(t, m))
  BY EndsAppend DEF Agree

\* The same of agreement with a concatenation.
LEMMA AgreePart ==
    ASSUME NEW S, NEW s \in Seq(S), NEW p \in Seq(S), NEW t \in Seq(S),
           Agree(s \o p, t)
    PROVE  Agree(p, t)
  <1>1. CASE Ends(s \o p, t)
    BY <1>1, EndsPart DEF Agree
  <1>2. CASE Ends(t, s \o p)
    <2>1. s \o p \in Seq(S)
      BY ConcatProperties
    <2> QED
      BY <1>2, <2>1, EndsWithPart, EndsBoth
  <1> QED
    BY <1>1, <1>2 DEF Agree

\* The head of one part moves to the end of the part before it.
LEMMA MoveHead ==
    ASSUME NEW S, NEW s \in Seq(S), NEW p \in Seq(S), p # <<>>
    PROVE  Append(s, Head(p)) \o Tail(p) = s \o p
  <1>1. /\ Head(p) \in S /\ Tail(p) \in Seq(S) /\ Len(Tail(p)) = Len(p) - 1
        /\ \A i \in 1..Len(Tail(p)) : Tail(p)[i] = p[i + 1]
        /\ Head(p) = p[1] /\ Len(p) \in Nat \ {0} /\ Len(s) \in Nat
    BY HeadTailProperties, EmptySeq, LenProperties
  <1> DEFINE a == Append(s, Head(p))  b == Tail(p)
  <1>2. /\ a \in Seq(S) /\ Len(a) = Len(s) + 1 /\ a[Len(s) + 1] = p[1]
        /\ \A i \in 1..Len(s) : a[i] = s[i]
        /\ b \in Seq(S) /\ Len(b) = Len(p) - 1
        /\ \A i \in 1..Len(b) : b[i] = p[i + 1]
    BY <1>1, AppendProperties
  <1> HIDE DEF a, b
  <1>3. /\ a \o b \in Seq(S) /\ Len(a \o b) = Len(s) + Len(p)
        /\ \A i \in 1..(Len(a) + Len(b)) :
                (a \o b)[i] = IF i <= Len(a) THEN a[i] ELSE b[i - Len(a)]
    <2>1. Len(a) + Len(b) = Len(s) + Len(p)
      BY <1>1, <1>2
    <2>2. a \in Seq(S) /\ b \in Seq(S)
      BY <1>2
    <2>3. a \o b \in Seq(S) /\ Len(a \o b) = Len(a) + Len(b)
          /\ \A i \in 1..(Len(a) + Len(b)) :
                (a \o b)[i] = IF i <= Len(a) THEN a[i] ELSE b[i - Len(a)]
      BY <2>2, ConcatProperties
    <2> QED
      BY <2>1, <2>3
  <1>4. /\ s \o p \in Seq(S) /\ Len(s \o p) = Len(s) + Len(p)
        /\ \A i \in 1..(Len(s) + Len(p)) :
                (s \o p)[i] = IF i <= Len(s) THEN s[i] ELSE p[i - Len(s)]
    BY ConcatProperties
  <1>5. ASSUME NEW i \in 1..(Len(s) + Len(p))
        PROVE  (a \o b)[i] = (s \o p)[i]
    <2>1. CASE i <= Len(s)
      BY <1>1, <1>2, <1>3, <1>4, <2>1
    <2>2. CASE i = Len(s) + 1
      BY <1>1, <1>2, <1>3, <1>4, <2>2
    <2>3. CASE i > Len(s) + 1
      <3>1. /\ i - Len(a) \in 1..Len(b) /\ (i - Len(a)) + 1 = i - Len(s)
            /\ ~(i <= Len(a)) /\ ~(i <= Len(s)) /\ i \in 1..(Len(a) + Len(b))
        BY <1>1, <1>2, <2>3
      <3> QED
        BY <1>2, <1>3, <1>4, <3>1
    <2> QED
      <3>1. i \in Nat
        BY <1>1
      <3>2. i <= Len(s) \/ i = Len(s) + 1 \/ i > Len(s) + 1
        BY <1>1, <3>1
      <3> QED
        BY <2>1, <2>2, <2>3, <3>2
  <1>6. a \o b = s \o p
    BY <1>3, <1>4, <1>5, SeqEqual
  <1> QED
    BY <1>6 DEF a, b

\* A message appended to the second part of a concatenation.
LEMMA ConcatAppend ==
    ASSUME NEW S, NEW s \in Seq(S), NEW p \in Seq(S), NEW m \in S
    PROVE  s \o Append(p, m) = Append(s \o p, m)
  <1>1. <<m>> \in Seq(S) /\ s \o p \in Seq(S)
    BY ConcatProperties
  <1>2. Append(p, m) = p \o <<m>> /\ Append(s \o p, m) = (s \o p) \o <<m>>
    BY <1>1, AppendIsConcat
  <1> QED
    BY <1>1, <1>2, ConcatAssociative

\* Front and Last take an appended message off again.
LEMMA FrontAppend ==
    ASSUME NEW S, NEW s \in Seq(S), NEW m \in S
    PROVE  Front(Append(s, m)) = s /\ Last(Append(s, m)) = m
  <1> DEFINE a == Append(s, m)
  <1>1. /\ a \in Seq(S) /\ Len(a) = Len(s) + 1 /\ a[Len(s) + 1] = m
        /\ \A i \in 1..Len(s) : a[i] = s[i]
        /\ Len(s) \in Nat
    BY AppendProperties, LenProperties
  <1> HIDE DEF a
  <1>2. \A i \in 1..Len(s) : a[i] \in S
    BY <1>1, ElementOfSeq
  <1>3. Len(a) - 1 = Len(s)
    BY <1>1
  <1>4. /\ SubSeq(a, 1, Len(s)) \in Seq(S) /\ Len(SubSeq(a, 1, Len(s))) = Len(s)
        /\ \A i \in 1..Len(s) : SubSeq(a, 1, Len(s))[i] = a[i]
    BY <1>1, <1>2, SubSeqProperties
  <1>5. SubSeq(a, 1, Len(s)) = s
    BY <1>1, <1>4, SeqEqual
  <1> QED
    BY <1>1, <1>3, <1>5 DEF Front, Last, a

-----------------------------------------------------------------------------
\* The transcript, the context of the next request and the list agent_end
\* reports are three copies of what the run says.  At the points where the
\* loop holds a reply or none, each ends with what another one ends with; what
\* is still to be emitted is counted with the transcript, and the results of a
\* batch, which join the other two at its end, with those.

SettledPoints == {"turn", "request"} \union ToolPoints \union EndPoints

ContextInv ==
    /\ pc = "prompts" => Ends(messages \o prompts, context)
    /\ pc \in SettledPoints => Ends(messages, context \o toolResults)
    /\ pc = "partial" => Ends(messages, Front(context))

ReportInv ==
    /\ pc = "prompts" => Agree(messages \o prompts, newMessages)
    /\ pc \in {"partial"} \union SettledPoints =>
            Agree(messages, newMessages \o toolResults)

CopiesInv ==
    /\ pc \notin ToolPoints => toolResults = <<>>
    /\ ContextInv
    /\ ReportInv

\* The lists the loop keeps are sequences of messages.
LEMMA MessageLists ==
    ASSUME TypeInv
    PROVE  /\ messages \in Seq(Message) /\ context \in Seq(Message)
           /\ newMessages \in Seq(Message) /\ prompts \in Seq(Message)
           /\ pendingMessages \in Seq(Message) /\ toolResults \in Seq(Message)
           /\ steeringQueue \in Seq(Message) /\ followUpQueue \in Seq(Message)
  BY MessageSeqs DEF TypeInv, TypeOK, AgentTypeOK

\* No copy changes.
LEMMA CopiesStay ==
    ASSUME CopiesInv,
           UNCHANGED <<messages, context, newMessages, prompts, toolResults>>,
           \/ pc' = pc
           \/ /\ pc \in SettledPoints /\ pc' \in SettledPoints
              /\ pc \in ToolPoints => pc' \in ToolPoints
    PROVE  CopiesInv'
  <1>1. "prompts" \notin SettledPoints /\ "partial" \notin SettledPoints
    BY DEF SettledPoints, ToolPoints, EndPoints
  <1> QED
    BY <1>1 DEF CopiesInv, ContextInv, ReportInv

\* The run fails or is over: its copies are gone.
LEMMA CopiesGone ==
    ASSUME pc' \in {"idle"} \union FailurePoints, toolResults' = <<>>
    PROVE  CopiesInv'
  BY DEF CopiesInv, ContextInv, ReportInv, SettledPoints, ToolPoints, EndPoints,
         FailurePoints

\* A run starts with a copy of the transcript and its new messages.
LEMMA CopiesStart ==
    ASSUME TypeInv, ControlInv, CopiesInv, StartRun
    PROVE  CopiesInv'
  <1>1. PICK ps, skip : RunPromptMessages(ps, skip)
    BY DEF StartRun, Prompt, ContinueWithSteering, ContinueWithFollowUps,
           ContinueTranscript
  <1>2. /\ pc' = "prompts" /\ context' = messages \o ps /\ newMessages' = ps
        /\ prompts' = ps /\ UNCHANGED <<messages, toolResults>> /\ pc = "idle"
    BY <1>1 DEF RunPromptMessages, BeginRun, ControlInv
  <1>3. TypeInv'
    BY TypeStartRun
  <1>4. ps \in Seq(Message) /\ messages \in Seq(Message)
    BY <1>2, <1>3, MessageLists DEF TypeInv, TypeOK
  <1>5. messages \o ps \in Seq(Message)
    BY <1>4, ConcatProperties
  <1>6. Ends(messages \o ps, messages \o ps) /\ Ends(ps, messages \o ps)
    BY <1>4, <1>5, EndsSelf, EndsWithPart
  <1>7. toolResults = <<>>
    BY <1>2 DEF CopiesInv, ToolPoints
  <1> QED
    BY <1>2, <1>6, <1>7
       DEF CopiesInv, ContextInv, ReportInv, Agree, SettledPoints, ToolPoints,
           EndPoints

\* A prompt that is emitted was counted already.
LEMMA CopiesEmitPrompt ==
    ASSUME TypeInv, CopiesInv, EmitPrompt
    PROVE  CopiesInv'
  <1>1. /\ pc = "prompts" /\ pc' = pc /\ prompts # <<>>
        /\ messages' = Append(messages, Head(prompts)) /\ prompts' = Tail(prompts)
        /\ UNCHANGED <<context, newMessages, toolResults>>
    BY DEF EmitPrompt, MessageEnd
  <1>2. messages' \o prompts' = messages \o prompts
    BY <1>1, MessageLists, MoveHead
  <1> QED
    BY <1>1, <1>2
       DEF CopiesInv, ContextInv, ReportInv, SettledPoints, ToolPoints, EndPoints

\* Every prompt is emitted.
LEMMA CopiesPollInitial ==
    ASSUME TypeInv, CopiesInv, PollInitialSteering
    PROVE  CopiesInv'
  <1>1. /\ pc = "prompts" /\ pc' = "turn" /\ prompts = <<>>
        /\ UNCHANGED <<messages, context, newMessages, toolResults>>
    BY DEF PollInitialSteering
  <1>2. toolResults = <<>>
    BY <1>1 DEF CopiesInv, ToolPoints
  <1>3. /\ messages \o prompts = messages /\ context \o toolResults = context
        /\ newMessages \o toolResults = newMessages
    BY <1>1, <1>2, MessageLists, ConcatEmptySeq
  <1> QED
    BY <1>1, <1>2, <1>3
       DEF CopiesInv, ContextInv, ReportInv, SettledPoints, ToolPoints, EndPoints

\* A message joins the three copies.
LEMMA CopiesGrow ==
    ASSUME TypeInv, CopiesInv, NEW m \in Message,
           pc = "turn" \/ pc = "request", pc' \in SettledPoints,
           messages' = Append(messages, m), context' = Append(context, m),
           newMessages' = Append(newMessages, m), UNCHANGED toolResults
    PROVE  CopiesInv'
  <1>1. toolResults = <<>> /\ pc \in SettledPoints
    BY DEF CopiesInv, SettledPoints, ToolPoints
  <1>2. context' \in Seq(Message) /\ newMessages' \in Seq(Message)
    BY MessageLists, AppendProperties
  <1>3. /\ context \o toolResults = context
        /\ newMessages \o toolResults = newMessages
        /\ context' \o toolResults' = context'
        /\ newMessages' \o toolResults' = newMessages'
    BY <1>1, <1>2, MessageLists, ConcatEmptySeq
  <1>4. Ends(messages, context) /\ Agree(messages, newMessages)
    BY <1>1, <1>3 DEF CopiesInv, ContextInv, ReportInv
  <1>5. Ends(messages', context') /\ Agree(messages', newMessages')
    BY <1>4, MessageLists, EndsAppend, AgreeAppend
  <1>6. pc' # "prompts" /\ pc' # "partial"
    BY DEF SettledPoints, ToolPoints, EndPoints
  <1> QED
    BY <1>1, <1>3, <1>5, <1>6 DEF CopiesInv, ContextInv, ReportInv

\* An injected message joins all three copies.
LEMMA CopiesInject ==
    ASSUME TypeInv, CopiesInv, InjectPending
    PROVE  CopiesInv'
  <1>1. Head(pendingMessages) \in Message
    BY MessageLists, HeadTailProperties DEF InjectPending
  <1> QED
    BY <1>1, CopiesGrow DEF InjectPending, MessageEnd, SettledPoints

\* The partial reply is in the context only.
LEMMA CopiesStreamStart ==
    ASSUME TypeInv, CopiesInv, StreamStart
    PROVE  CopiesInv'
  <1>1. /\ pc = "request" /\ pc' = "partial"
        /\ context' = Append(context, Reply("partial", <<>>))
        /\ UNCHANGED <<messages, newMessages, toolResults, prompts>>
    BY DEF StreamStart
  <1>2. toolResults = <<>>
    BY <1>1 DEF CopiesInv, ToolPoints
  <1>3. Reply("partial", <<>>) \in Message
    BY ReplyType, EmptySeq, MessageSeqs DEF StopReasons
  <1>4. Front(context') = context
    BY <1>1, <1>3, MessageLists, FrontAppend
  <1>5. context \o toolResults = context
    BY <1>2, MessageLists, ConcatEmptySeq
  <1> QED
    BY <1>1, <1>2, <1>4, <1>5
       DEF CopiesInv, ContextInv, ReportInv, SettledPoints, ToolPoints, EndPoints

\* The final reply joins the three copies; in the context it replaces the
\* partial one.
LEMMA CopiesReply ==
    ASSUME TypeInv, CopiesInv, NEW m \in Message, ReplyArrives(m),
           pc \in {"turn", "request", "partial"}, pc' \in SettledPoints
    PROVE  CopiesInv'
  <1>1. /\ messages' = Append(messages, m)
        /\ context' = ContextWithReply(m)
        /\ newMessages' = Append(newMessages, m)
        /\ UNCHANGED toolResults
    BY DEF ReplyArrives, MessageEnd
  <1>2. CASE pc # "partial"
    BY <1>1, <1>2, CopiesGrow DEF ContextWithReply
  <1>3. CASE pc = "partial"
    <2>1. context' = Append(Front(context), m)
      BY <1>1, <1>3 DEF ContextWithReply
    <2>2. toolResults = <<>> /\ Ends(messages, Front(context))
          /\ Agree(messages, newMessages \o toolResults)
      BY <1>3 DEF CopiesInv, ContextInv, ReportInv, ToolPoints
    <2>3. Front(context) \in Seq(Message)
      BY MessageLists, SubSeqProperties, LenProperties, ElementOfSeq DEF Front
    <2>4. context' \in Seq(Message) /\ newMessages' \in Seq(Message)
      BY <1>1, <2>1, <2>3, MessageLists, AppendProperties
    <2>5. newMessages \o toolResults = newMessages
          /\ context' \o toolResults' = context'
          /\ newMessages' \o toolResults' = newMessages'
      BY <1>1, <2>2, <2>4, MessageLists, ConcatEmptySeq
    <2>6. Ends(messages', context') /\ Agree(messages', newMessages')
      BY <1>1, <2>1, <2>2, <2>3, <2>5, MessageLists, EndsAppend, AgreeAppend
    <2>7. pc' # "prompts" /\ pc' # "partial"
      BY DEF SettledPoints, ToolPoints, EndPoints
    <2> QED
      BY <1>1, <2>2, <2>5, <2>6, <2>7 DEF CopiesInv, ContextInv, ReportInv
  <1> QED
    BY <1>2, <1>3

\* A reply, with or without calls, complete or not.
LEMMA ReplyMessage ==
    ASSUME TypeInv,
           ReplyWithoutCalls \/ ReplyWithCalls \/ ReplyFails \/ RequestAborted
    PROVE  \E m \in AssistantMessage :
                /\ ReplyArrives(m)
                /\ m.stop \in {"error", "aborted"} <=> pc' = "lastTurnEnd"
                /\ pc' = "toolStart" =>
                        /\ m.calls # <<>>
                        /\ \E sequential \in BOOLEAN :
                                batch' = NewBatch(m.calls, sequential)
                /\ pc' \in {"turnEnd", "toolStart", "lastTurnEnd"}
                /\ pc \in {"turn", "request", "partial"}
  <1>1. \A n \in Nat : FreshCalls(n) \in Seq(Nat) /\ Len(FreshCalls(n)) = n
    BY FreshCallsType DEF TypeInv, TypeOK
  <1>2. /\ "done" \in StopReasons /\ "error" \in StopReasons
        /\ "aborted" \in StopReasons /\ BatchSizes \subseteq Nat
        /\ <<>> \in Seq(Nat)
    BY EmptySeq DEF StopReasons, BatchSizes
  <1>3. \A stop, calls : /\ Reply(stop, calls).stop = stop
                         /\ Reply(stop, calls).calls = calls
    BY DEF Reply
  <1>4. CASE ReplyWithoutCalls
    <2>1. Reply("done", <<>>) \in AssistantMessage
      BY <1>2, ReplyType
    <2> QED
      BY <1>3, <1>4, <2>1 DEF ReplyWithoutCalls
  <1>5. CASE ReplyWithCalls
    <2>1. PICK n \in BatchSizes \ {0}, sequential \in BOOLEAN :
            /\ ReplyArrives(Reply("done", FreshCalls(n)))
            /\ batch' = NewBatch(FreshCalls(n), sequential)
      BY <1>5 DEF ReplyWithCalls
    <2>2. Reply("done", FreshCalls(n)) \in AssistantMessage
      BY <1>1, <1>2, ReplyType
    <2>3. FreshCalls(n) # <<>>
      BY <1>1, <1>2, EmptySeq
    <2> QED
      BY <1>3, <1>5, <2>1, <2>2, <2>3 DEF ReplyWithCalls
  <1>6. CASE ReplyFails
    <2>1. PICK n \in BatchSizes, stop \in {"error", "aborted"} :
            ReplyArrives(Reply(stop, FreshCalls(n)))
      BY <1>6 DEF ReplyFails
    <2>2. Reply(stop, FreshCalls(n)) \in AssistantMessage
      BY <1>1, <1>2, ReplyType
    <2> QED
      BY <1>3, <1>6, <2>1, <2>2 DEF ReplyFails
  <1>7. CASE RequestAborted
    <2>1. Reply("aborted", <<>>) \in AssistantMessage
      BY <1>2, ReplyType
    <2> QED
      BY <1>3, <1>7, <2>1 DEF RequestAborted
  <1> QED
    BY <1>4, <1>5, <1>6, <1>7

\* Every final reply joins all three copies.
LEMMA CopiesReplies ==
    ASSUME TypeInv, CopiesInv,
           ReplyWithoutCalls \/ ReplyWithCalls \/ ReplyFails \/ RequestAborted
    PROVE  CopiesInv'
  <1>1. PICK m \in AssistantMessage :
            /\ ReplyArrives(m)
            /\ pc' \in {"turnEnd", "toolStart", "lastTurnEnd"}
            /\ pc \in {"turn", "request", "partial"}
    BY ReplyMessage
  <1>2. m \in Message /\ pc' \in SettledPoints
    BY <1>1, MessageSeqs DEF SettledPoints, ToolPoints, EndPoints
  <1> QED
    BY <1>1, <1>2, CopiesReply

\* A result joins the transcript and waits for the others.
LEMMA CopiesEmitResult ==
    ASSUME TypeInv, CopiesInv, EmitResult
    PROVE  CopiesInv'
  <1>1. batch.next \in 1..Len(batch.calls) /\ Len(batch.calls) \in Nat
    BY DEF TypeInv, TypeOK, BatchShape, EmitResult, ToolPoints, Batch
  <1>2. NextResult \in 1..Len(batch.calls)
    BY <1>1 DEF TypeInv, TypeOK, EmitResult, NextResult
  <1> DEFINE m == Result(batch.calls[NextResult])
  <1>3. m \in Message
    BY <1>2, BatchFacts DEF Result, Message, ToolResult
  <1>4. /\ pc = "result" /\ pc' \in ToolPoints
        /\ messages' = Append(messages, m)
        /\ toolResults' = Append(toolResults, m)
        /\ UNCHANGED <<context, newMessages, prompts>>
    BY DEF EmitResult, MessageEnd, ToolPoints
  <1> HIDE DEF m
  <1>5. /\ context \o toolResults \in Seq(Message)
        /\ newMessages \o toolResults \in Seq(Message)
    BY MessageLists, ConcatProperties
  <1>6. /\ context' \o toolResults' = Append(context \o toolResults, m)
        /\ newMessages' \o toolResults' = Append(newMessages \o toolResults, m)
    <2>1. /\ context \in Seq(Message) /\ newMessages \in Seq(Message)
          /\ toolResults \in Seq(Message)
      BY MessageLists
    <2>2. /\ context \o Append(toolResults, m) = Append(context \o toolResults, m)
          /\ newMessages \o Append(toolResults, m)
                = Append(newMessages \o toolResults, m)
      BY <1>3, <2>1, ConcatAppend
    <2> QED
      BY <1>4, <2>2
  <1>7. /\ Ends(messages, context \o toolResults)
        /\ Agree(messages, newMessages \o toolResults)
    BY <1>4 DEF CopiesInv, ContextInv, ReportInv, SettledPoints, ToolPoints
  <1>8. /\ Ends(messages', context' \o toolResults')
        /\ Agree(messages', newMessages' \o toolResults')
    BY <1>3, <1>4, <1>5, <1>6, <1>7, MessageLists, EndsAppend, AgreeAppend
  <1>9. pc' # "prompts" /\ pc' # "partial"
    BY <1>4 DEF ToolPoints
  <1> QED
    BY <1>4, <1>8, <1>9 DEF CopiesInv, ContextInv, ReportInv

\* The results join the other two.
LEMMA CopiesFinishBatch ==
    ASSUME TypeInv, CopiesInv, FinishBatch
    PROVE  CopiesInv'
  <1>1. /\ pc \in ToolPoints /\ pc' = "turnEnd"
        /\ context' = context \o toolResults
        /\ newMessages' = newMessages \o toolResults
        /\ toolResults' = <<>> /\ UNCHANGED messages
    BY DEF FinishBatch, ToolPoints
  <1>2. context' \in Seq(Message) /\ newMessages' \in Seq(Message)
    BY <1>1, MessageLists, ConcatProperties
  <1>3. context' \o toolResults' = context' /\ newMessages' \o toolResults' = newMessages'
    BY <1>1, <1>2, ConcatEmptySeq
  <1>4. Ends(messages, context') /\ Agree(messages, newMessages')
    BY <1>1 DEF CopiesInv, ContextInv, ReportInv, SettledPoints
  <1> QED
    BY <1>1, <1>3, <1>4
       DEF CopiesInv, ContextInv, ReportInv, SettledPoints, ToolPoints, EndPoints

\* The hook may replace the context with the transcript.
LEMMA CopiesPrepare ==
    ASSUME TypeInv, CopiesInv, PrepareNextTurn
    PROVE  CopiesInv'
  <1>1. /\ pc = "prepareNextTurn" /\ pc' = "pollSteering"
        /\ context' = context \/ context' = messages
        /\ UNCHANGED <<messages, newMessages, toolResults, prompts>>
    BY DEF PrepareNextTurn
  <1>2. toolResults = <<>>
    BY <1>1 DEF CopiesInv, ToolPoints
  <1>3. messages \o toolResults = messages
    BY <1>2, MessageLists, ConcatEmptySeq
  <1>4. Ends(messages, messages)
    BY MessageLists, EndsSelf
  <1> QED
    BY <1>1, <1>2, <1>3, <1>4
       DEF CopiesInv, ContextInv, ReportInv, SettledPoints, ToolPoints, EndPoints

\* Every step of the loop keeps the copies together.
LEMMA CopiesLoop ==
    ASSUME TypeInv, ControlInv, CopiesInv, LoopStep
    PROVE  CopiesInv'
  <1>1. CASE EmitPrompt \/ PollInitialSteering \/ InjectPending
    BY <1>1, CopiesEmitPrompt, CopiesPollInitial, CopiesInject
  <1>2. CASE RequestReply
    <2>1. /\ pc = "turn" /\ pc' = "request"
          /\ UNCHANGED <<messages, context, newMessages, prompts, toolResults>>
      BY <1>2 DEF RequestReply
    <2> QED
      BY <2>1, CopiesStay DEF SettledPoints, ToolPoints
  <1>3. CASE RequestAborted
    BY <1>3, CopiesReplies
  <1>4. CASE \/ ToolStart \/ RefuseCall \/ PrepareCall \/ RefusedCallEnd
             \/ NextToolCall \/ LaunchPrepared \/ JoinTools
    <2>1. /\ pc \in ToolPoints /\ pc' \in ToolPoints
          /\ UNCHANGED <<messages, context, newMessages, prompts, toolResults>>
      BY <1>4 DEF ToolStart, RefuseCall, PrepareCall, RefusedCallEnd, NextToolCall,
                  LaunchPrepared, JoinTools, ToolPoints
    <2> QED
      BY <2>1, CopiesStay DEF SettledPoints
  <1>5. CASE EmitResult \/ FinishBatch \/ PrepareNextTurn
    BY <1>5, CopiesEmitResult, CopiesFinishBatch, CopiesPrepare
  <1>6. CASE TurnEnd \/ LastTurnEnd \/ AgentEnd
    <2>1. /\ pc \in EndPoints /\ pc' \in EndPoints
          /\ UNCHANGED <<messages, context, newMessages, prompts, toolResults>>
      BY <1>6 DEF TurnEnd, LastTurnEnd, AgentEnd, EndPoints
    <2>2. \A p \in EndPoints : p \in SettledPoints /\ p \notin ToolPoints
      BY DEF SettledPoints, ToolPoints, EndPoints
    <2> QED
      BY <2>1, <2>2, CopiesStay
  <1>7. CASE PollSteering \/ PollFollowUps
    <2>1. pc \in EndPoints /\ UNCHANGED messages
      BY <1>7 DEF PollSteering, PollFollowUps, EndPoints
    <2>2. \/ /\ pc' \in {"pollFollowUps", "agentEnd", "turn"}
             /\ UNCHANGED <<context, newMessages, prompts, toolResults>>
          \/ pc' = "failed" /\ toolResults' = <<>>
      BY <1>7 DEF PollSteering, PollFollowUps, RunFails, DropLocals
    <2>3. \A p \in EndPoints : p \in SettledPoints /\ p \notin ToolPoints
      BY DEF SettledPoints, ToolPoints, EndPoints
    <2>4. {"pollFollowUps", "agentEnd", "turn"} \subseteq SettledPoints
      BY DEF SettledPoints, EndPoints
    <2>5. CASE pc' \in {"pollFollowUps", "agentEnd", "turn"}
               /\ UNCHANGED <<context, newMessages, prompts, toolResults>>
      BY <2>1, <2>3, <2>4, <2>5, CopiesStay
    <2>6. CASE pc' = "failed" /\ toolResults' = <<>>
      BY <2>6, CopiesGone DEF FailurePoints
    <2> QED
      BY <2>2, <2>5, <2>6
  <1>8. CASE FailureMessage \/ FailureTurnEnd \/ FailureAgentEnd
    <2>1. pc \in FailurePoints /\ pc' \in FailurePoints /\ UNCHANGED toolResults
      BY <1>8 DEF FailureMessage, FailureTurnEnd, FailureAgentEnd, FailurePoints
    <2>2. toolResults = <<>>
      BY <2>1 DEF CopiesInv, FailurePoints, ToolPoints
    <2> QED
      BY <2>1, <2>2, CopiesGone
  <1>9. CASE FinishRun
    BY <1>9, CopiesGone DEF FinishRun, DropLocals
  <1> QED
    BY <1>1, <1>2, <1>3, <1>4, <1>5, <1>6, <1>7, <1>8, <1>9 DEF LoopStep

\* A reset empties the transcript and no other copy.
LEMMA CopiesReset ==
    ASSUME TypeInv, CopiesInv, messages' = <<>>,
           UNCHANGED <<pc, context, newMessages, prompts, toolResults>>
    PROVE  CopiesInv'
  <1>1. /\ context \o toolResults \in Seq(Message)
        /\ newMessages \o toolResults \in Seq(Message)
    BY MessageLists, ConcatProperties
  <1>2. messages' \o prompts' = prompts
    BY MessageLists, ConcatEmptySeq
  <1>3. pc = "prompts" => Ends(prompts, context) /\ Agree(prompts, newMessages)
    BY MessageLists, EndsPart, AgreePart DEF CopiesInv, ContextInv, ReportInv
  <1>4. /\ Ends(<<>>, context \o toolResults)
        /\ Agree(<<>>, newMessages \o toolResults)
    BY <1>1, EndsEmpty DEF Agree
  <1>5. Front(context) \in Seq(Message)
    BY MessageLists, SubSeqProperties, LenProperties, ElementOfSeq DEF Front
  <1>6. Ends(<<>>, Front(context))
    BY <1>5, EndsEmpty
  <1> QED
    BY <1>2, <1>3, <1>4, <1>6 DEF CopiesInv, ContextInv, ReportInv

\* Every step of the system keeps the copies together.
LEMMA CopiesNext ==
    ASSUME TypeInv, ControlInv, CopiesInv, [Next]_vars
    PROVE  CopiesInv'
  <1>1. CASE StartRun
    BY <1>1, CopiesStart
  <1>2. CASE LoopStep
    BY <1>2, CopiesLoop
  <1>3. CASE ProviderStep
    BY <1>3, CopiesStreamStart, CopiesReplies DEF ProviderStep
  <1>4. CASE ToolStep
    <2>1. ASSUME NEW i \in Running, ToolEnd(i)
          PROVE  CopiesInv'
      <3>1. /\ pc \in ToolPoints /\ pc' \in ToolPoints
            /\ UNCHANGED <<messages, context, newMessages, prompts, toolResults>>
        BY <2>1 DEF ToolEnd, ToolPoints
      <3> QED
        BY <3>1, CopiesStay DEF SettledPoints
    <2>2. ASSUME NEW c \in stale, StaleToolEnd(c)
          PROVE  CopiesInv'
      <3>1. UNCHANGED <<pc, messages, context, newMessages, prompts, toolResults>>
        BY <2>2 DEF StaleToolEnd
      <3> QED
        BY <3>1, CopiesStay
    <2> QED
      BY <1>4, <2>1, <2>2 DEF ToolStep
  <1>5. CASE ListenerThrows
    BY <1>5, CopiesGone DEF ListenerThrows, RunFails, DropLocals, FailurePoints
  <1>6. CASE FailureThrows
    <2>1. pc \in FailurePoints /\ pc' \in FailurePoints /\ UNCHANGED toolResults
      BY <1>6 DEF FailureThrows, FailurePoints
    <2>2. toolResults = <<>>
      BY <2>1 DEF CopiesInv, FailurePoints, ToolPoints
    <2> QED
      BY <2>1, <2>2, CopiesGone
  <1>7. CASE ClientStep
    <2>1. UNCHANGED <<pc, context, newMessages, prompts, toolResults>>
      BY <1>7 DEF ClientStep, loopVars
    <2>2. messages' = <<>> \/ UNCHANGED messages
      BY <1>7 DEF ClientStep, ClientCall, Steer, FollowUp, ClearSteeringQueue,
                  ClearFollowUpQueue, Abort, Reset
    <2> QED
      BY <2>1, <2>2, CopiesReset, CopiesStay
  <1>8. CASE UNCHANGED vars
    BY <1>8, CopiesStay DEF vars, loopVars
  <1> QED
    BY <1>1, <1>2, <1>3, <1>4, <1>5, <1>6, <1>7, <1>8 DEF Next, Throw

\* The three copies agree in every state.
THEOREM CopiesAgree == Spec => []CopiesInv
  <1>1. Init => CopiesInv
    BY DEF Init, CopiesInv, ContextInv, ReportInv, SettledPoints, ToolPoints, EndPoints
  <1>2. TypeInv /\ ControlInv /\ CopiesInv /\ [Next]_vars => CopiesInv'
    BY CopiesNext
  <1> QED
    BY <1>1, <1>2, TypeInvariant, ControlInvariant, PTL DEF Spec

\* What the next request sends and what the client sees agree at every point
\* of every run, whatever was injected, refused, aborted or reset.
THEOREM TranscriptFollows == Spec => []TranscriptFollowsContext
  <1>1. ASSUME TypeInv, CopiesInv
        PROVE  TranscriptFollowsContext
    <2>1. /\ messages \o prompts \in Seq(Message)
          /\ context \o toolResults \in Seq(Message)
      BY <1>1, MessageLists, ConcatProperties
    <2>2. Front(context) \in Seq(Message)
      BY <1>1, MessageLists, SubSeqProperties, LenProperties, ElementOfSeq DEF Front
    <2> QED
      BY <1>1, <2>1, <2>2, MessageLists, SuffixIs
         DEF CopiesInv, ContextInv, TranscriptFollowsContext, SettledPoints
  <1> QED
    BY <1>1, TypeInvariant, CopiesAgree, PTL

-----------------------------------------------------------------------------
\* What a run reports: unless something throws, agent_end is its last event.

EndedInv ==
    throws = 0 =>
        /\ ~afterEnd
        /\ stale = {}
        /\ ended => pc \in {"idle", "finish", "finishFailed"}
        /\ pc \in {"finish", "finishFailed"} => ended

\* An event, or none, before agent_end.
LEMMA EndedStays ==
    ASSUME TypeInv, EndedInv, Emit \/ UNCHANGED eventVars,
           UNCHANGED <<throws, stale>>,
           pc \notin {"idle", "finish", "finishFailed"},
           pc' \notin {"finish", "finishFailed"}
    PROVE  EndedInv'
  BY DEF EndedInv, Emit, TypeInv, TypeOK, AgentTypeOK

\* A step that emits nothing and stays where it is.
LEMMA EndedUnchanged ==
    ASSUME EndedInv, UNCHANGED eventVars, UNCHANGED <<throws, stale, pc>>
    PROVE  EndedInv'
  BY DEF EndedInv

\* Once something threw, nothing is promised.
LEMMA EndedThrows ==
    ASSUME TypeInv, throws' = throws + 1
    PROVE  EndedInv'
  BY DEF EndedInv, TypeInv, TypeOK

\* agent_end.
LEMMA EndedEnds ==
    ASSUME TypeInv, EndedInv, AgentEnd \/ FailureAgentEnd
    PROVE  EndedInv'
  <1>1. /\ afterEnd' = (afterEnd \/ ended) /\ ended' = TRUE
        /\ UNCHANGED <<throws, stale>>
        /\ pc \in {"agentEnd", "failedAgentEnd"}
        /\ pc' \in {"finish", "finishFailed"}
    BY DEF AgentEnd, FailureAgentEnd, EmitAgentEnd
  <1> QED
    BY <1>1 DEF EndedInv, TypeInv, TypeOK, AgentTypeOK

\* Every step of the loop keeps EndedInv.
LEMMA EndedLoop ==
    ASSUME TypeInv, EndedInv, LoopStep
    PROVE  EndedInv'
  <1>1. CASE EmitPrompt \/ PollInitialSteering \/ InjectPending \/ RequestReply
    BY <1>1, EndedStays
       DEF EmitPrompt, PollInitialSteering, InjectPending, RequestReply, MessageEnd
  <1>2. CASE RequestAborted
    BY <1>2, EndedStays DEF RequestAborted, ReplyArrives, MessageEnd
  <1>3. CASE ToolStart \/ RefuseCall \/ PrepareCall \/ RefusedCallEnd
    BY <1>3, EndedStays DEF ToolStart, RefuseCall, PrepareCall, RefusedCallEnd,
                            ToolExecutionStart, ToolExecutionEnd
  <1>4. CASE NextToolCall \/ LaunchPrepared \/ JoinTools \/ EmitResult \/ FinishBatch
    BY <1>4, EndedStays DEF NextToolCall, LaunchPrepared, JoinTools, EmitResult,
                            FinishBatch, MessageEnd
  <1>5. CASE TurnEnd \/ PrepareNextTurn \/ LastTurnEnd
    BY <1>5, EndedStays DEF TurnEnd, PrepareNextTurn, LastTurnEnd, TurnEndEvent
  <1>6. CASE PollSteering \/ PollFollowUps
    <2>1. /\ pc \in {"pollSteering", "pollFollowUps"}
          /\ pc' \in {"pollFollowUps", "agentEnd", "turn", "failed"}
          /\ UNCHANGED eventVars /\ UNCHANGED <<throws, stale>>
      BY <1>6 DEF PollSteering, PollFollowUps, RunFails
    <2> QED
      BY <2>1, EndedStays
  <1>7. CASE AgentEnd \/ FailureAgentEnd
    BY <1>7, EndedEnds
  <1>8. CASE FailureMessage \/ FailureTurnEnd
    BY <1>8, EndedStays DEF FailureMessage, FailureTurnEnd, MessageEnd, TurnEndEvent
  <1>9. CASE FinishRun
    BY <1>9 DEF FinishRun, EndRun, EndedInv
  <1> QED
    BY <1>1, <1>2, <1>3, <1>4, <1>5, <1>6, <1>7, <1>8, <1>9 DEF LoopStep

\* Every step of the system keeps EndedInv.
LEMMA EndedNext ==
    ASSUME TypeInv, EndedInv, [Next]_vars
    PROVE  EndedInv'
  <1>1. CASE StartRun
    <2>1. /\ ended' = FALSE /\ afterEnd' = FALSE /\ pc' = "prompts"
          /\ UNCHANGED <<throws, stale>>
      BY <1>1 DEF StartRun, Prompt, ContinueWithSteering, ContinueWithFollowUps,
                  ContinueTranscript, RunPromptMessages, BeginRun
    <2> QED
      BY <2>1 DEF EndedInv
  <1>2. CASE LoopStep
    BY <1>2, EndedLoop
  <1>3. CASE ProviderStep
    <2>1. CASE StreamStart
      BY <2>1, EndedStays DEF StreamStart, MessageStart
    <2>2. CASE ReplyWithoutCalls \/ ReplyWithCalls \/ ReplyFails
      <3>1. PICK m : ReplyArrives(m)
        BY <2>2 DEF ReplyWithoutCalls, ReplyWithCalls, ReplyFails
      <3>2. /\ pc \in {"request", "partial"}
            /\ pc' \in {"turnEnd", "toolStart", "lastTurnEnd"}
        BY <2>2 DEF ReplyWithoutCalls, ReplyWithCalls, ReplyFails
      <3>3. Emit /\ UNCHANGED <<throws, stale>>
        BY <3>1 DEF ReplyArrives, MessageEnd
      <3> QED
        BY <3>2, <3>3, EndedStays
    <2> QED
      BY <1>3, <2>1, <2>2 DEF ProviderStep
  <1>4. CASE ToolStep
    <2>1. ASSUME NEW i \in Running, ToolEnd(i)
          PROVE  EndedInv'
      <3>1. /\ Emit /\ UNCHANGED <<throws, stale>>
            /\ pc = "exec" /\ pc' \in {"result", "exec"}
        BY <2>1 DEF ToolEnd, ToolExecutionEnd
      <3> QED
        BY <3>1, EndedStays
    <2>2. ASSUME NEW c \in stale, StaleToolEnd(c)
          PROVE  EndedInv'
      <3>1. throws # 0 /\ throws' = throws
        BY <2>2 DEF StaleToolEnd, EndedInv
      <3> QED
        BY <3>1 DEF EndedInv
    <2> QED
      BY <1>4, <2>1, <2>2 DEF ToolStep
  <1>5. CASE Throw
    BY <1>5, EndedThrows DEF Throw, ListenerThrows, FailureThrows
  <1>6. CASE ClientStep
    <2>1. UNCHANGED eventVars /\ UNCHANGED <<throws, stale, pc>>
      BY <1>6 DEF ClientStep, ClientCall, loopVars, Steer, FollowUp, ClearSteeringQueue,
                  ClearFollowUpQueue, Abort, Reset
    <2> QED
      BY <2>1, EndedUnchanged
  <1>7. CASE UNCHANGED vars
    BY <1>7, EndedUnchanged DEF vars, loopVars
  <1> QED
    BY <1>1, <1>2, <1>3, <1>4, <1>5, <1>6, <1>7 DEF Next

\* A failed reply at the end of the transcript is, or is about to be, in the
\* state; only the messages of a new run may still follow it.
FailureInv ==
    throws = 0 /\ messages # <<>> /\ IsFailure(Last(messages)) =>
        \/ errorMessage
        \/ pc \in {"lastTurnEnd", "failedTurnEnd"}
        \/ pc = "prompts" /\ prompts # <<>>

\* A step that leaves the transcript and its end points alone.
LEMMA FailureStays ==
    ASSUME TypeInv, FailureInv, UNCHANGED <<messages, throws>>,
           pc \notin {"prompts", "lastTurnEnd", "failedTurnEnd"},
           errorMessage => errorMessage'
    PROVE  FailureInv'
  BY DEF FailureInv

\* A step that changes nothing FailureInv reads.
LEMMA FailureUnchanged ==
    ASSUME FailureInv, UNCHANGED <<messages, throws, pc, prompts, errorMessage>>
    PROVE  FailureInv'
  BY DEF FailureInv

\* The transcript ends with something else.
LEMMA FailureOther ==
    ASSUME messages \in Seq(Message), NEW m \in Message, ~IsFailure(m),
           messages' = Append(messages, m)
    PROVE  FailureInv'
  <1>1. Last(messages') = m
    BY FrontAppend
  <1> QED
    BY <1>1 DEF FailureInv

\* A run starts with a new message, or after one that is no failure.
LEMMA FailureStart ==
    ASSUME TypeInv, ControlInv, FailureInv, StartRun
    PROVE  FailureInv'
  <1>1. pc' = "prompts" /\ UNCHANGED <<messages, throws>>
    BY DEF StartRun, Prompt, ContinueWithSteering, ContinueWithFollowUps,
           ContinueTranscript, RunPromptMessages, BeginRun
  <1>2. CASE Prompt
    <2>1. PICK n \in 1..MaxPrompts :
            prompts' = [i \in 1..n |-> [role |-> "user", via |-> "prompt",
                                        id |-> nextId + i - 1]]
      BY <1>2 DEF Prompt, RunPromptMessages
    <2>2. 1 \in DOMAIN prompts' /\ DOMAIN <<>> = {}
      BY <2>1, LoopAssumption
    <2> QED
      BY <1>1, <2>2 DEF FailureInv
  <1>3. CASE ContinueWithSteering
    <2>1. prompts' # <<>>
      BY <1>3 DEF ContinueWithSteering, RunPromptMessages, Drained
    <2> QED
      BY <1>1, <2>1 DEF FailureInv
  <1>4. CASE ContinueWithFollowUps
    <2>1. prompts' # <<>>
      BY <1>4 DEF ContinueWithFollowUps, RunPromptMessages, Drained
    <2> QED
      BY <1>1, <2>1 DEF FailureInv
  <1>5. CASE ContinueTranscript
    <2>1. messages # <<>> /\ Last(messages).role # "assistant"
      BY <1>5 DEF ContinueTranscript, EndsWithReply
    <2> QED
      BY <1>1, <2>1 DEF FailureInv, IsFailure
  <1> QED
    BY <1>2, <1>3, <1>4, <1>5 DEF StartRun

\* A failed reply goes to the last turn_end.
LEMMA FailureReplies ==
    ASSUME TypeInv, FailureInv,
           ReplyWithoutCalls \/ ReplyWithCalls \/ ReplyFails \/ RequestAborted
    PROVE  FailureInv'
  <1>1. PICK m \in AssistantMessage :
            /\ ReplyArrives(m)
            /\ m.stop \in {"error", "aborted"} <=> pc' = "lastTurnEnd"
    BY ReplyMessage
  <1>2. CASE pc' = "lastTurnEnd"
    BY <1>2 DEF FailureInv
  <1>3. CASE pc' # "lastTurnEnd"
    BY <1>1, <1>3, FailureOther, MessageSeqs, MessageLists
       DEF IsFailure, ReplyArrives, MessageEnd
  <1> QED
    BY <1>2, <1>3

\* Every step of the loop keeps FailureInv.
LEMMA FailureLoop ==
    ASSUME TypeInv, FailureInv, LoopStep
    PROVE  FailureInv'
  <1>1. CASE EmitPrompt
    <2>1. Head(prompts) \in UserMessage /\ messages' = Append(messages, Head(prompts))
      BY <1>1, HeadTailProperties DEF EmitPrompt, MessageEnd, TypeInv, TypeOK
    <2>2. Head(prompts) \in Message /\ ~IsFailure(Head(prompts))
      BY <2>1 DEF Message, UserMessage, IsFailure
    <2> QED
      BY <2>1, <2>2, MessageLists, FailureOther
  <1>2. CASE InjectPending
    <2>1. /\ Head(pendingMessages) \in UserMessage
          /\ messages' = Append(messages, Head(pendingMessages))
      BY <1>2, HeadTailProperties DEF InjectPending, MessageEnd, TypeInv, TypeOK
    <2>2. Head(pendingMessages) \in Message /\ ~IsFailure(Head(pendingMessages))
      BY <2>1 DEF Message, UserMessage, IsFailure
    <2> QED
      BY <2>1, <2>2, MessageLists, FailureOther
  <1>3. CASE PollInitialSteering
    BY <1>3 DEF PollInitialSteering, FailureInv
  <1>4. CASE RequestReply
    BY <1>4, FailureStays DEF RequestReply
  <1>5. CASE RequestAborted
    BY <1>5, FailureReplies
  <1>6. CASE ToolStart \/ RefuseCall \/ PrepareCall \/ RefusedCallEnd
    BY <1>6, FailureStays DEF ToolStart, RefuseCall, PrepareCall, RefusedCallEnd
  <1>7. CASE NextToolCall \/ LaunchPrepared \/ JoinTools \/ FinishBatch
    BY <1>7, FailureStays DEF NextToolCall, LaunchPrepared, JoinTools, FinishBatch
  <1>8. CASE EmitResult
    <2>1. batch.next \in 1..Len(batch.calls) /\ Len(batch.calls) \in Nat
      BY <1>8 DEF TypeInv, TypeOK, BatchShape, EmitResult, ToolPoints, Batch
    <2>2. NextResult \in 1..Len(batch.calls)
      BY <1>8, <2>1 DEF TypeInv, TypeOK, EmitResult, NextResult
    <2> DEFINE m == Result(batch.calls[NextResult])
    <2>3. m \in Message /\ ~IsFailure(m)
      BY <2>2, BatchFacts DEF Result, Message, ToolResult, IsFailure
    <2>4. messages' = Append(messages, m)
      BY <1>8 DEF EmitResult, MessageEnd
    <2> HIDE DEF m
    <2> QED
      BY <2>3, <2>4, MessageLists, FailureOther
  <1>9. CASE TurnEnd \/ PrepareNextTurn \/ AgentEnd
    BY <1>9, FailureStays
       DEF TurnEnd, PrepareNextTurn, AgentEnd, TurnEndEvent, EmitAgentEnd,
           TypeInv, TypeOK, AgentTypeOK
  <1>10. CASE PollSteering \/ PollFollowUps
    <2>1. /\ pc \in {"pollSteering", "pollFollowUps"}
          /\ UNCHANGED <<messages, throws, errorMessage>>
      BY <1>10 DEF PollSteering, PollFollowUps
    <2> QED
      BY <2>1, FailureStays
  <1>11. CASE LastTurnEnd \/ FailureTurnEnd
    <2>1. errorMessage' = (errorMessage \/ TRUE)
      BY <1>11 DEF LastTurnEnd, FailureTurnEnd, TurnEndEvent
    <2> QED
      BY <2>1 DEF FailureInv
  <1>12. CASE FailureMessage
    BY <1>12 DEF FailureMessage, FailureInv
  <1>13. CASE FailureAgentEnd
    BY <1>13, FailureStays DEF FailureAgentEnd
  <1>14. CASE FinishRun
    BY <1>14, FailureStays DEF FinishRun, EndRun
  <1> QED
    BY <1>1, <1>2, <1>3, <1>4, <1>5, <1>6, <1>7, <1>8, <1>9, <1>10, <1>11, <1>12,
       <1>13, <1>14 DEF LoopStep

\* Every step of the system keeps FailureInv.
LEMMA FailureNext ==
    ASSUME TypeInv, ControlInv, FailureInv, [Next]_vars
    PROVE  FailureInv'
  <1>1. CASE StartRun
    BY <1>1, FailureStart
  <1>2. CASE LoopStep
    BY <1>2, FailureLoop
  <1>3. CASE ProviderStep
    <2>1. CASE StreamStart
      BY <2>1, FailureStays DEF StreamStart
    <2> QED
      BY <1>3, <2>1, FailureReplies DEF ProviderStep
  <1>4. CASE ToolStep
    <2>1. ASSUME NEW i \in Running, ToolEnd(i)
          PROVE  FailureInv'
      BY <2>1, FailureStays DEF ToolEnd
    <2>2. ASSUME NEW c \in stale, StaleToolEnd(c)
          PROVE  FailureInv'
      BY <2>2, FailureUnchanged DEF StaleToolEnd
    <2> QED
      BY <1>4, <2>1, <2>2 DEF ToolStep
  <1>5. CASE Throw
    <2>1. throws' # 0
      BY <1>5 DEF Throw, ListenerThrows, FailureThrows, TypeInv, TypeOK
    <2> QED
      BY <2>1 DEF FailureInv
  <1>6. CASE ClientStep
    <2>1. UNCHANGED <<throws, pc, prompts>>
      BY <1>6 DEF ClientStep, loopVars
    <2>2. messages' = <<>> \/ UNCHANGED <<messages, errorMessage>>
      BY <1>6 DEF ClientStep, ClientCall, Steer, FollowUp, ClearSteeringQueue,
                  ClearFollowUpQueue, Abort, Reset
    <2> QED
      BY <2>1, <2>2 DEF FailureInv
  <1>7. CASE UNCHANGED vars
    BY <1>7, FailureUnchanged DEF vars, loopVars
  <1> QED
    BY <1>1, <1>2, <1>3, <1>4, <1>5, <1>6, <1>7 DEF Next

\* Unless something throws agent_end is the last event of its run and the
\* error of a failed reply shows once the agent is idle; agent_end reports the
\* messages the run added, for any batch, queue mode and interleaving.
THEOREM RunsReported == Spec => []RunIsReported
  <1>1. Init => EndedInv /\ FailureInv
    BY DEF Init, AgentInit, EndedInv, FailureInv
  <1>2. TypeInv /\ ControlInv /\ EndedInv /\ FailureInv /\ [Next]_vars
            => EndedInv' /\ FailureInv'
    BY EndedNext, FailureNext
  <1>3. ASSUME TypeInv, ControlInv, CopiesInv, EndedInv, FailureInv
        PROVE  RunIsReported
    <2>1. AgentEndOnce
      BY <1>3 DEF EndedInv, AgentEndOnce
    <2>2. AgentEndReportsRun
      <3>1. SUFFICES ASSUME pc \in {"agentEnd", "finish"}
                     PROVE  IsSuffix(newMessages, messages)
                            \/ IsSuffix(messages, newMessages)
        BY DEF AgentEndReportsRun
      <3>2. toolResults = <<>> /\ Agree(messages, newMessages \o toolResults)
        BY <1>3, <3>1
           DEF CopiesInv, ReportInv, SettledPoints, ToolPoints, EndPoints
      <3>3. newMessages \in Seq(Message) /\ messages \in Seq(Message)
        BY <1>3, MessageLists
      <3>4. newMessages \o toolResults = newMessages
        BY <3>2, <3>3, ConcatEmptySeq
      <3> QED
        BY <3>2, <3>3, <3>4, SuffixIs DEF Agree
    <2>3. FailureIsVisible
      BY <1>3 DEF FailureInv, FailureIsVisible, ControlInv
    <2> QED
      BY <2>1, <2>2, <2>3 DEF RunIsReported
  <1> QED
    BY <1>1, <1>2, <1>3, TypeInvariant, ControlInvariant, CopiesAgree, PTL DEF Spec

-----------------------------------------------------------------------------
\* What a request holds.  Without a reset the copies of the run are equal, so
\* that a result which answers its call in one answers it in the others.

\* The result at position i answers a call of the closest reply before it.
Answers(s, i) ==
    \E r \in 1..(i - 1) :
        /\ s[r].role = "assistant"
        /\ i - r <= Len(s[r].calls)
        /\ \A j \in (r + 1)..i : s[j] = Result(s[r].calls[j - r])

Answered(s) == \A i \in DOMAIN s : s[i].role = "toolResult" => Answers(s, i)

\* The reply being worked on is the last message of the context, and the
\* results so far are those of its first calls.
BatchInv ==
    /\ context # <<>>
    /\ Last(context).role = "assistant"
    /\ Last(context).calls = batch.calls
    /\ Len(toolResults) <= Len(batch.calls)
    /\ \A i \in 1..Len(toolResults) : toolResults[i] = Result(batch.calls[i])

Partial == Reply("partial", <<>>)

AnswerInv ==
    resets = 0 =>
        /\ Answered(messages)
        /\ Answered(context)
        /\ pc = "prompts" => messages \o prompts = context
        /\ pc \in SettledPoints => messages = context \o toolResults
        /\ pc = "partial" => context = Append(messages, Partial)
        /\ pc \in ToolPoints => BatchInv

\* Messages that are not results may follow.
LEMMA AnsweredExtended ==
    ASSUME NEW s \in Seq(Message), NEW t \in Seq(Message), Answered(s),
           Len(s) <= Len(t),
           \A i \in 1..Len(s) : t[i] = s[i],
           \A i \in 1..Len(t) : i > Len(s) => t[i].role # "toolResult"
    PROVE  Answered(t)
  <1>1. Len(s) \in Nat /\ Len(t) \in Nat /\ DOMAIN s = 1..Len(s) /\ DOMAIN t = 1..Len(t)
    BY LenProperties
  <1>2. ASSUME NEW i \in 1..Len(t), t[i].role = "toolResult"
        PROVE  Answers(t, i)
    <2>1. i \in 1..Len(s) /\ s[i].role = "toolResult"
      BY <1>1, <1>2
    <2>2. PICK r \in 1..(i - 1) :
            /\ s[r].role = "assistant"
            /\ i - r <= Len(s[r].calls)
            /\ \A j \in (r + 1)..i : s[j] = Result(s[r].calls[j - r])
      BY <1>1, <2>1 DEF Answered, Answers
    <2>3. \A j \in r..i : t[j] = s[j]
      BY <1>1, <2>1, <2>2
    <2>4. t[r] = s[r] /\ \A j \in (r + 1)..i : t[j] = s[j]
      BY <1>1, <2>1, <2>2
    <2> QED
      BY <2>2, <2>4 DEF Answers
  <1> QED
    BY <1>1, <1>2 DEF Answered

\* A message that is no result keeps every result answered.
LEMMA AnsweredAppend ==
    ASSUME NEW s \in Seq(Message), Answered(s), NEW m \in Message,
           m.role # "toolResult"
    PROVE  Answered(Append(s, m))
  <1> DEFINE t == Append(s, m)
  <1>1. /\ t \in Seq(Message) /\ Len(t) = Len(s) + 1 /\ t[Len(s) + 1] = m
        /\ \A i \in 1..Len(s) : t[i] = s[i]
        /\ Len(s) \in Nat
    BY AppendProperties, LenProperties
  <1> HIDE DEF t
  <1>2. \A i \in 1..Len(t) : i > Len(s) => t[i].role # "toolResult"
    BY <1>1
  <1>3. Len(s) <= Len(t)
    BY <1>1
  <1>4. Answered(t)
    BY <1>1, <1>2, <1>3, AnsweredExtended
  <1> QED
    BY <1>4 DEF t

\* So do user messages appended together.
LEMMA AnsweredUsers ==
    ASSUME NEW s \in Seq(Message), Answered(s), NEW p \in Seq(UserMessage)
    PROVE  Answered(s \o p)
  <1> DEFINE t == s \o p
  <1>1. /\ t \in Seq(Message) /\ Len(t) = Len(s) + Len(p)
        /\ \A i \in 1..(Len(s) + Len(p)) :
                t[i] = IF i <= Len(s) THEN s[i] ELSE p[i - Len(s)]
        /\ Len(s) \in Nat /\ Len(p) \in Nat
    BY ConcatProperties, LenProperties, MessageSeqs
  <1> HIDE DEF t
  <1>2. \A i \in 1..Len(p) : p[i].role = "user"
    <2>1. \A i \in 1..Len(p) : p[i] \in UserMessage
      BY ElementOfSeq
    <2> QED
      BY <2>1 DEF UserMessage
  <1>3. ASSUME NEW i \in 1..Len(t), i > Len(s)
        PROVE  t[i].role # "toolResult"
    <2>1. i - Len(s) \in 1..Len(p) /\ t[i] = p[i - Len(s)]
      BY <1>1, <1>3
    <2> QED
      BY <1>2, <2>1
  <1>4. Len(s) <= Len(t) /\ \A i \in 1..Len(s) : t[i] = s[i]
    BY <1>1
  <1>5. Answered(t)
    BY <1>1, <1>3, <1>4, AnsweredExtended
  <1> QED
    BY <1>5 DEF t

\* The result of the next call of the reply follows.
LEMMA AnsweredResult ==
    ASSUME NEW c \in Seq(Message), NEW rs \in Seq(Message), NEW calls \in Seq(Nat),
           c # <<>>, Last(c).role = "assistant", Last(c).calls = calls,
           Len(rs) < Len(calls),
           \A i \in 1..Len(rs) : rs[i] = Result(calls[i]),
           NEW m \in Message, m = Result(calls[Len(rs) + 1]),
           Answered(c \o rs)
    PROVE  Answered(Append(c \o rs, m))
  <1> DEFINE s == c \o rs  t == Append(s, m)
  <1>1. /\ s \in Seq(Message) /\ Len(s) = Len(c) + Len(rs)
        /\ \A i \in 1..(Len(c) + Len(rs)) :
                s[i] = IF i <= Len(c) THEN c[i] ELSE rs[i - Len(c)]
        /\ Len(c) \in Nat /\ Len(c) # 0 /\ Len(rs) \in Nat /\ Len(calls) \in Nat
    BY ConcatProperties, LenProperties, EmptySeq
  <1>2. /\ t \in Seq(Message) /\ Len(t) = Len(s) + 1 /\ t[Len(s) + 1] = m
        /\ \A i \in 1..Len(s) : t[i] = s[i]
    <2>1. s \in Seq(Message)
      BY <1>1
    <2> HIDE DEF s
    <2> QED
      BY <2>1, AppendProperties
  <1>3. Answered(s)
    OBVIOUS
  <1> HIDE DEF s, t
  <1>4. Len(s) \in Nat /\ DOMAIN s = 1..Len(s) /\ DOMAIN t = 1..Len(t)
    BY <1>1, <1>2, LenProperties
  <1> DEFINE r == Len(c)
  <1>5. r \in 1..Len(s) /\ t[r] = Last(c)
    BY <1>1, <1>2 DEF Last
  <1>6. ASSUME NEW j \in (r + 1)..(Len(s) + 1)
        PROVE  t[j] = Result(calls[j - r])
    <2>1. CASE j = Len(s) + 1
      <3>1. j - r = Len(rs) + 1
        BY <1>1, <2>1
      <3> QED
        BY <1>2, <2>1, <3>1
    <2>2. CASE j # Len(s) + 1
      <3>1. /\ j \in 1..Len(s) /\ ~(j <= Len(c)) /\ j - r \in 1..Len(rs)
            /\ j \in 1..(Len(c) + Len(rs))
        <4>1. /\ Len(s) = Len(c) + Len(rs) /\ Len(c) \in Nat /\ Len(rs) \in Nat
              /\ r = Len(c) /\ j \in (r + 1)..(Len(s) + 1)
          BY <1>1
        <4> HIDE DEF r
        <4>2. j \in Int /\ r + 1 <= j /\ j <= Len(s)
          <5>1. Len(s) \in Int /\ r \in Int
            BY <4>1
          <5>2. j \in Int /\ r + 1 <= j /\ j <= Len(s) + 1 /\ j # Len(s) + 1
            BY <2>2, <4>1, <5>1
          <5> QED
            BY <5>1, <5>2
        <4>3. j \in 1..Len(s) /\ ~(j <= Len(c))
          BY <4>1, <4>2
        <4>4. j - r \in 1..Len(rs)
          BY <4>1, <4>2
        <4>5. j \in 1..(Len(c) + Len(rs))
          BY <4>1, <4>2
        <4> QED
          BY <4>3, <4>4, <4>5
      <3>2. t[j] = s[j] /\ s[j] = rs[j - r]
        BY <1>1, <1>2, <3>1
      <3> QED
        BY <3>1, <3>2
    <2> QED
      BY <2>1, <2>2
  <1>7. Answers(t, Len(s) + 1)
    <2>1. r \in 1..((Len(s) + 1) - 1)
      BY <1>1, <1>5
    <2>2. (Len(s) + 1) - r <= Len(t[r].calls)
      BY <1>1, <1>5
    <2>3. \A j \in (r + 1)..(Len(s) + 1) : t[j] = Result(t[r].calls[j - r])
      BY <1>5, <1>6
    <2>4. t[r].role = "assistant"
      BY <1>5
    <2> QED
      BY <2>1, <2>2, <2>3, <2>4 DEF Answers
  <1>8. ASSUME NEW i \in 1..Len(s), t[i].role = "toolResult"
        PROVE  Answers(t, i)
    <2>1. s[i].role = "toolResult"
      BY <1>2, <1>8
    <2>2. PICK q \in 1..(i - 1) :
            /\ s[q].role = "assistant"
            /\ i - q <= Len(s[q].calls)
            /\ \A j \in (q + 1)..i : s[j] = Result(s[q].calls[j - q])
      BY <1>3, <1>4, <2>1 DEF Answered, Answers
    <2>3. t[q] = s[q] /\ \A j \in (q + 1)..i : t[j] = s[j]
      BY <1>2, <1>4, <2>2
    <2> QED
      BY <2>2, <2>3 DEF Answers
  <1>9. ASSUME NEW i \in 1..Len(t), t[i].role = "toolResult"
        PROVE  Answers(t, i)
    <2>1. i \in 1..Len(s) \/ i = Len(s) + 1
      BY <1>2, <1>4
    <2> QED
      BY <1>7, <1>8, <1>9, <2>1
  <1>10. Answered(t)
    BY <1>4, <1>9 DEF Answered
  <1> QED
    BY <1>10 DEF s, t

\* The calls of a batch are not touched while it is worked on.
LEMMA AnswerStays ==
    ASSUME AnswerInv, UNCHANGED <<messages, context, prompts, toolResults>>,
           resets' = 0 => resets = 0,
           \/ pc' = pc /\ batch' = batch
           \/ /\ pc \in SettledPoints /\ pc' \in SettledPoints
              /\ pc' \in ToolPoints => pc \in ToolPoints /\ batch'.calls = batch.calls
    PROVE  AnswerInv'
  <1>1. "prompts" \notin SettledPoints /\ "partial" \notin SettledPoints
        /\ ToolPoints \subseteq SettledPoints
    BY DEF SettledPoints, ToolPoints, EndPoints
  <1> QED
    BY <1>1 DEF AnswerInv, BatchInv

\* Nothing is left unanswered in the empty list.
LEMMA AnswerEmpty == Answered(<<>>)
  BY DEF Answered

\* The run is over or fails.
LEMMA AnswerGone ==
    ASSUME AnswerInv, resets' = 0 => resets = 0,
           pc' \in {"idle"} \union FailurePoints,
           UNCHANGED messages, UNCHANGED context \/ context' = <<>>
    PROVE  AnswerInv'
  BY AnswerEmpty DEF AnswerInv, SettledPoints, ToolPoints, EndPoints, FailurePoints

\* A run starts from the transcript and its prompts.
LEMMA AnswerStart ==
    ASSUME TypeInv, ControlInv, AnswerInv, StartRun
    PROVE  AnswerInv'
  <1>1. PICK ps, skip : RunPromptMessages(ps, skip)
    BY DEF StartRun, Prompt, ContinueWithSteering, ContinueWithFollowUps,
           ContinueTranscript
  <1>2. /\ pc' = "prompts" /\ context' = messages \o ps
        /\ prompts' = ps /\ UNCHANGED <<messages, resets>>
    BY <1>1 DEF RunPromptMessages, BeginRun
  <1>3. ps \in Seq(UserMessage)
    BY <1>2, TypeStartRun DEF TypeInv, TypeOK
  <1>4. resets = 0 => Answered(context')
    BY <1>2, <1>3, MessageLists, AnsweredUsers DEF AnswerInv
  <1> QED
    BY <1>2, <1>4 DEF AnswerInv, SettledPoints, ToolPoints, EndPoints

\* A prompt moves to the transcript; the context had it already.
LEMMA AnswerEmitPrompt ==
    ASSUME TypeInv, AnswerInv, EmitPrompt
    PROVE  AnswerInv'
  <1>1. /\ pc = "prompts" /\ pc' = pc /\ prompts # <<>>
        /\ messages' = Append(messages, Head(prompts)) /\ prompts' = Tail(prompts)
        /\ UNCHANGED <<context, resets>>
    BY DEF EmitPrompt, MessageEnd
  <1>2. messages' \o prompts' = messages \o prompts
    BY <1>1, MessageLists, MoveHead
  <1>3. Head(prompts) \in Message /\ Head(prompts).role # "toolResult"
    <2>1. Head(prompts) \in UserMessage
      BY <1>1, HeadTailProperties DEF TypeInv, TypeOK
    <2> QED
      BY <2>1 DEF Message, UserMessage
  <1>4. resets = 0 => Answered(messages')
    BY <1>1, <1>3, MessageLists, AnsweredAppend DEF AnswerInv
  <1> QED
    BY <1>1, <1>2, <1>4 DEF AnswerInv, SettledPoints, ToolPoints, EndPoints

\* The first poll touches no copy.
LEMMA AnswerPollInitial ==
    ASSUME TypeInv, CopiesInv, AnswerInv, PollInitialSteering
    PROVE  AnswerInv'
  <1>1. /\ pc = "prompts" /\ pc' = "turn" /\ prompts = <<>>
        /\ UNCHANGED <<messages, context, toolResults, resets>>
    BY DEF PollInitialSteering
  <1>2. toolResults = <<>>
    BY <1>1 DEF CopiesInv, ToolPoints
  <1>3. messages \o prompts = messages /\ context \o toolResults = context
    BY <1>1, <1>2, MessageLists, ConcatEmptySeq
  <1> QED
    BY <1>1, <1>3 DEF AnswerInv, SettledPoints, ToolPoints, EndPoints

\* An injected message joins the transcript and the context.
LEMMA AnswerInject ==
    ASSUME TypeInv, CopiesInv, AnswerInv, InjectPending
    PROVE  AnswerInv'
  <1> DEFINE m == Head(pendingMessages)
  <1>1. /\ pc = "turn" /\ pc' = pc /\ pendingMessages # <<>>
        /\ messages' = Append(messages, m) /\ context' = Append(context, m)
        /\ UNCHANGED <<toolResults, resets>>
    BY DEF InjectPending, MessageEnd
  <1>2. m \in Message /\ m.role # "toolResult"
    <2>1. m \in UserMessage
      BY <1>1, HeadTailProperties DEF TypeInv, TypeOK
    <2> QED
      BY <2>1 DEF Message, UserMessage
  <1> HIDE DEF m
  <1>3. toolResults = <<>>
    BY <1>1 DEF CopiesInv, ToolPoints
  <1>4. context' \in Seq(Message)
    BY <1>1, <1>2, MessageLists, AppendProperties
  <1>5. context \o toolResults = context /\ context' \o toolResults' = context'
    BY <1>1, <1>3, <1>4, MessageLists, ConcatEmptySeq
  <1>6. resets = 0 => messages = context
    BY <1>1, <1>5 DEF AnswerInv, SettledPoints
  <1>7. resets = 0 => Answered(messages')
    BY <1>1, <1>2, MessageLists, AnsweredAppend DEF AnswerInv
  <1>8. resets = 0 => messages' = context'
    BY <1>1, <1>6
  <1> QED
    BY <1>1, <1>5, <1>7, <1>8 DEF AnswerInv, ToolPoints

\* The partial reply joins the context only.
LEMMA AnswerStreamStart ==
    ASSUME TypeInv, CopiesInv, AnswerInv, StreamStart
    PROVE  AnswerInv'
  <1>1. /\ pc = "request" /\ pc' = "partial"
        /\ context' = Append(context, Partial)
        /\ UNCHANGED <<messages, toolResults, resets>>
    BY DEF StreamStart, Partial
  <1>2. toolResults = <<>>
    BY <1>1 DEF CopiesInv, ToolPoints
  <1>3. Partial \in Message /\ Partial.role # "toolResult"
    BY ReplyType, EmptySeq, MessageSeqs DEF StopReasons, Partial, Reply
  <1>4. context \o toolResults = context
    BY <1>2, MessageLists, ConcatEmptySeq
  <1>5. resets = 0 => Answered(context')
    BY <1>1, <1>3, MessageLists, AnsweredAppend DEF AnswerInv
  <1>6. resets = 0 => messages = context
    BY <1>1, <1>4 DEF AnswerInv, SettledPoints
  <1> QED
    BY <1>1, <1>5, <1>6 DEF AnswerInv, SettledPoints, ToolPoints, EndPoints

\* The reply is the last message of both copies; its calls are the batch.
LEMMA AnswerReplies ==
    ASSUME TypeInv, CopiesInv, AnswerInv,
           ReplyWithoutCalls \/ ReplyWithCalls \/ ReplyFails \/ RequestAborted
    PROVE  AnswerInv'
  <1>1. PICK m \in AssistantMessage :
            /\ ReplyArrives(m)
            /\ pc' = "toolStart" =>
                    /\ m.calls # <<>>
                    /\ \E sequential \in BOOLEAN : batch' = NewBatch(m.calls, sequential)
            /\ pc' \in {"turnEnd", "toolStart", "lastTurnEnd"}
            /\ pc \in {"turn", "request", "partial"}
    BY ReplyMessage
  <1>2. m \in Message /\ m.role = "assistant" /\ m.calls \in Seq(Nat)
    BY MessageSeqs DEF AssistantMessage
  <1>3. /\ messages' = Append(messages, m) /\ context' = ContextWithReply(m)
        /\ UNCHANGED <<toolResults, resets>>
    BY <1>1 DEF ReplyArrives, MessageEnd
  <1>4. toolResults = <<>>
    BY <1>1 DEF CopiesInv, ToolPoints
  <1>5. ASSUME resets = 0
        PROVE  context' = messages'
    <2>1. CASE pc = "partial"
      <3>1. Partial \in Message
        BY ReplyType, EmptySeq, MessageSeqs DEF StopReasons, Partial
      <3>2. Front(context) = messages
        BY <1>5, <2>1, <3>1, MessageLists, FrontAppend DEF AnswerInv
      <3> QED
        BY <1>3, <2>1, <3>2 DEF ContextWithReply
    <2>2. CASE pc # "partial"
      <3>1. messages = context \o toolResults
        BY <1>1, <1>5, <2>2 DEF AnswerInv, SettledPoints
      <3>2. messages = context
        BY <1>4, <3>1, MessageLists, ConcatEmptySeq
      <3> QED
        BY <1>3, <2>2, <3>2 DEF ContextWithReply
    <2> QED
      BY <2>1, <2>2
  <1>6. messages' \in Seq(Message) /\ messages' # <<>>
    BY <1>2, <1>3, MessageLists, AppendProperties
  <1>7. messages' = messages' \o toolResults'
    BY <1>3, <1>4, <1>6, ConcatEmptySeq
  <1>8. Last(messages') = m
    BY <1>2, <1>3, MessageLists, FrontAppend
  <1>9. resets = 0 => Answered(messages')
    BY <1>2, <1>3, MessageLists, AnsweredAppend DEF AnswerInv
  <1>10. ASSUME pc' \in ToolPoints, resets = 0
         PROVE  BatchInv'
    <2>1. batch'.calls = m.calls
      BY <1>1, <1>2, <1>10, NewBatchType DEF ToolPoints
    <2>2. Len(toolResults') = 0 /\ Len(batch'.calls) \in Nat
      BY <1>2, <1>3, <1>4, <2>1, LenProperties
    <2> QED
      BY <1>2, <1>5, <1>6, <1>8, <1>10, <2>1, <2>2 DEF BatchInv
  <1> QED
    BY <1>1, <1>3, <1>5, <1>7, <1>9, <1>10
       DEF AnswerInv

\* A result is emitted in the order of the calls.
LEMMA AnswerEmitResult ==
    ASSUME TypeInv, CopiesInv, AnswerInv, EmitResult
    PROVE  AnswerInv'
  <1>1. batch.next \in 1..Len(batch.calls) /\ Len(batch.calls) \in Nat
        /\ batch.calls \in Seq(Nat) /\ Len(toolResults) \in Nat
        /\ NextResult <= batch.next
    BY LenProperties DEF TypeInv, TypeOK, BatchShape, EmitResult, ToolPoints, Batch
  <1>2. NextResult \in 1..Len(batch.calls) /\ Len(toolResults) < Len(batch.calls)
    BY <1>1 DEF NextResult
  <1> DEFINE m == Result(batch.calls[NextResult])
  <1>3. m \in Message
    BY <1>2, BatchFacts DEF Result, Message, ToolResult
  <1>4. /\ pc = "result" /\ pc' \in ToolPoints
        /\ messages' = Append(messages, m)
        /\ toolResults' = Append(toolResults, m)
        /\ UNCHANGED <<context, prompts, batch, resets>>
        /\ m = Result(batch.calls[Len(toolResults) + 1])
    BY DEF EmitResult, MessageEnd, ToolPoints, NextResult
  <1> HIDE DEF m
  <1> SUFFICES ASSUME resets = 0
               PROVE  AnswerInv'
    BY <1>4 DEF AnswerInv
  <1>5. /\ messages = context \o toolResults /\ BatchInv
        /\ Answered(messages) /\ Answered(context)
    BY <1>4 DEF AnswerInv, SettledPoints, ToolPoints
  <1>6. context' \o toolResults' = messages'
    <2>1. context \o Append(toolResults, m) = Append(context \o toolResults, m)
      BY <1>3, MessageLists, ConcatAppend
    <2> QED
      BY <1>4, <1>5, <2>1
  <1>7. Answered(messages')
    <2>1. /\ context \in Seq(Message) /\ toolResults \in Seq(Message)
          /\ Answered(context \o toolResults)
      BY <1>5, MessageLists
    <2>2. Answered(Append(context \o toolResults, m))
      BY <1>1, <1>2, <1>3, <1>4, <1>5, <2>1, AnsweredResult DEF BatchInv
    <2> QED
      BY <1>4, <1>5, <2>2
  <1>8. BatchInv'
    <2>1. /\ Len(toolResults') = Len(toolResults) + 1
          /\ \A i \in 1..Len(toolResults) : toolResults'[i] = toolResults[i]
          /\ toolResults'[Len(toolResults) + 1] = m
      BY <1>3, <1>4, MessageLists, AppendProperties
    <2>2. \A i \in 1..Len(toolResults') : toolResults'[i] = Result(batch.calls[i])
      BY <1>1, <1>4, <1>5, <2>1 DEF BatchInv
    <2>3. Len(toolResults') <= Len(batch.calls)
      BY <1>1, <1>2, <2>1
    <2> QED
      BY <1>4, <1>5, <2>2, <2>3 DEF BatchInv
  <1>9. pc' # "prompts" /\ pc' # "partial"
    BY <1>4 DEF ToolPoints
  <1> QED
    BY <1>4, <1>5, <1>6, <1>7, <1>8, <1>9 DEF AnswerInv

\* The results of the batch join the context.
LEMMA AnswerFinishBatch ==
    ASSUME TypeInv, AnswerInv, FinishBatch
    PROVE  AnswerInv'
  <1>1. /\ pc \in ToolPoints /\ pc' = "turnEnd"
        /\ context' = context \o toolResults
        /\ toolResults' = <<>> /\ UNCHANGED <<messages, resets>>
    BY DEF FinishBatch, ToolPoints
  <1>2. context' \in Seq(Message)
    BY <1>1, MessageLists, ConcatProperties
  <1>3. context' \o toolResults' = context'
    BY <1>1, <1>2, ConcatEmptySeq
  <1>4. resets = 0 => messages = context'
    BY <1>1 DEF AnswerInv, SettledPoints
  <1> QED
    BY <1>1, <1>3, <1>4 DEF AnswerInv, SettledPoints, ToolPoints, EndPoints

\* The hook may replace the context by the transcript.
LEMMA AnswerPrepare ==
    ASSUME TypeInv, CopiesInv, AnswerInv, PrepareNextTurn
    PROVE  AnswerInv'
  <1>1. /\ pc = "prepareNextTurn" /\ pc' = "pollSteering"
        /\ context' = context \/ context' = messages
        /\ UNCHANGED <<messages, toolResults, resets>>
    BY DEF PrepareNextTurn
  <1>2. toolResults = <<>>
    BY <1>1 DEF CopiesInv, ToolPoints
  <1>3. messages \o toolResults = messages
    BY <1>2, MessageLists, ConcatEmptySeq
  <1> QED
    BY <1>1, <1>3 DEF AnswerInv, SettledPoints, ToolPoints, EndPoints

\* The message of a failed run answers no call.
LEMMA AnswerFailureMessage ==
    ASSUME TypeInv, AnswerInv, FailureMessage
    PROVE  AnswerInv'
  <1>1. PICK m \in AssistantMessage : messages' = Append(messages, m)
    <2>1. \A stop \in {"aborted", "error"} : Reply(stop, <<>>) \in AssistantMessage
      BY ReplyType, EmptySeq DEF StopReasons
    <2> QED
      BY <2>1 DEF FailureMessage, MessageEnd
  <1>2. m \in Message /\ m.role # "toolResult"
    BY MessageSeqs DEF AssistantMessage
  <1>3. resets = 0 => Answered(messages')
    BY <1>1, <1>2, MessageLists, AnsweredAppend DEF AnswerInv
  <1>4. pc' = "failedTurnEnd" /\ UNCHANGED <<context, resets>>
    BY DEF FailureMessage
  <1> QED
    BY <1>3, <1>4 DEF AnswerInv, SettledPoints, ToolPoints, EndPoints

\* Every step of the loop keeps AnswerInv.
LEMMA AnswerLoop ==
    ASSUME TypeInv, ControlInv, CopiesInv, AnswerInv, LoopStep
    PROVE  AnswerInv'
  <1>1. CASE EmitPrompt \/ PollInitialSteering \/ InjectPending
    BY <1>1, AnswerEmitPrompt, AnswerPollInitial, AnswerInject
  <1>2. CASE RequestReply
    <2>1. /\ pc = "turn" /\ pc' = "request"
          /\ UNCHANGED <<messages, context, prompts, toolResults, resets>>
      BY <1>2 DEF RequestReply
    <2> QED
      BY <2>1, AnswerStays DEF SettledPoints, ToolPoints
  <1>3. CASE RequestAborted
    BY <1>3, AnswerReplies
  <1>4. CASE \/ ToolStart \/ RefuseCall \/ PrepareCall \/ RefusedCallEnd
             \/ NextToolCall \/ LaunchPrepared \/ JoinTools
    <2>1. /\ pc \in ToolPoints /\ pc' \in ToolPoints
          /\ UNCHANGED <<messages, context, prompts, toolResults, resets>>
      BY <1>4 DEF ToolStart, RefuseCall, PrepareCall, RefusedCallEnd, NextToolCall,
                  LaunchPrepared, JoinTools, ToolPoints
    <2>2. batch'.calls = batch.calls
      BY <1>4, BatchFacts
         DEF ToolStart, RefuseCall, PrepareCall, RefusedCallEnd, NextToolCall,
             LaunchPrepared, JoinTools, Batch
    <2> QED
      BY <2>1, <2>2, AnswerStays DEF SettledPoints
  <1>5. CASE EmitResult \/ FinishBatch \/ PrepareNextTurn
    BY <1>5, AnswerEmitResult, AnswerFinishBatch, AnswerPrepare
  <1>6. CASE TurnEnd \/ LastTurnEnd \/ AgentEnd
    <2>1. /\ pc \in EndPoints /\ pc' \in EndPoints
          /\ UNCHANGED <<messages, context, prompts, toolResults, resets>>
      BY <1>6 DEF TurnEnd, LastTurnEnd, AgentEnd, EndPoints
    <2>2. \A p \in EndPoints : p \in SettledPoints /\ p \notin ToolPoints
      BY DEF SettledPoints, ToolPoints, EndPoints
    <2> QED
      BY <2>1, <2>2, AnswerStays
  <1>7. CASE PollSteering \/ PollFollowUps
    <2>1. pc \in EndPoints /\ UNCHANGED <<messages, resets>>
      BY <1>7 DEF PollSteering, PollFollowUps, EndPoints
    <2>2. \/ /\ pc' \in {"pollFollowUps", "agentEnd", "turn"}
             /\ UNCHANGED <<context, prompts, toolResults>>
          \/ pc' = "failed" /\ context' = <<>>
      BY <1>7 DEF PollSteering, PollFollowUps, RunFails, DropLocals
    <2>3. \A p \in EndPoints \union {"pollFollowUps", "agentEnd", "turn"} :
                p \in SettledPoints /\ p \notin ToolPoints
      BY DEF SettledPoints, ToolPoints, EndPoints
    <2>4. CASE pc' \in {"pollFollowUps", "agentEnd", "turn"}
               /\ UNCHANGED <<context, prompts, toolResults>>
      BY <2>1, <2>3, <2>4, AnswerStays
    <2>5. CASE pc' = "failed" /\ context' = <<>>
      BY <2>1, <2>5, AnswerGone DEF FailurePoints
    <2> QED
      BY <2>2, <2>4, <2>5
  <1>8. CASE FailureMessage
    BY <1>8, AnswerFailureMessage
  <1>9. CASE FailureTurnEnd \/ FailureAgentEnd
    BY <1>9, AnswerGone DEF FailureTurnEnd, FailureAgentEnd, FailurePoints
  <1>10. CASE FinishRun
    BY <1>10, AnswerGone DEF FinishRun, EndRun, DropLocals
  <1> QED
    BY <1>1, <1>2, <1>3, <1>4, <1>5, <1>6, <1>7, <1>8, <1>9, <1>10 DEF LoopStep

\* Every step of the system keeps AnswerInv.
LEMMA AnswerNext ==
    ASSUME TypeInv, ControlInv, CopiesInv, AnswerInv, [Next]_vars
    PROVE  AnswerInv'
  <1>1. CASE StartRun
    BY <1>1, AnswerStart
  <1>2. CASE LoopStep
    BY <1>2, AnswerLoop
  <1>3. CASE ProviderStep
    BY <1>3, AnswerStreamStart, AnswerReplies DEF ProviderStep
  <1>4. CASE ToolStep
    <2>1. ASSUME NEW i \in Running, ToolEnd(i)
          PROVE  AnswerInv'
      <3>1. /\ pc \in ToolPoints /\ pc' \in ToolPoints
            /\ UNCHANGED <<messages, context, prompts, toolResults, resets>>
        BY <2>1 DEF ToolEnd, ToolPoints
      <3>2. batch'.calls = batch.calls
        BY <2>1, BatchFacts DEF ToolEnd, Batch
      <3> QED
        BY <3>1, <3>2, AnswerStays DEF SettledPoints
    <2>2. ASSUME NEW c \in stale, StaleToolEnd(c)
          PROVE  AnswerInv'
      <3>1. UNCHANGED <<pc, messages, context, prompts, toolResults, batch, resets>>
        BY <2>2 DEF StaleToolEnd
      <3> QED
        BY <3>1, AnswerStays
    <2> QED
      BY <1>4, <2>1, <2>2 DEF ToolStep
  <1>5. CASE Throw
    <2>1. /\ pc' \in {"idle"} \union FailurePoints
          /\ UNCHANGED <<messages, resets>>
          /\ UNCHANGED context \/ context' = <<>>
      BY <1>5 DEF Throw, ListenerThrows, FailureThrows, RunFails, DropLocals,
                  FailurePoints
    <2> QED
      BY <2>1, AnswerGone
  <1>6. CASE ClientStep
    <2>1. UNCHANGED <<pc, context, prompts, toolResults, batch>>
      BY <1>6 DEF ClientStep, loopVars
    <2>2. resets' = resets + 1 \/ UNCHANGED <<messages, resets>>
      BY <1>6 DEF ClientStep, ClientCall, Steer, FollowUp, ClearSteeringQueue,
                  ClearFollowUpQueue, Abort, Reset
    <2>3. CASE resets' = resets + 1
      BY <2>3 DEF AnswerInv, TypeInv, TypeOK, AgentTypeOK
    <2> QED
      BY <2>1, <2>2, <2>3, AnswerStays
  <1>7. CASE UNCHANGED vars
    BY <1>7, AnswerStays DEF vars, loopVars
  <1> QED
    BY <1>1, <1>2, <1>3, <1>4, <1>5, <1>6, <1>7 DEF Next

\* Every tool result a request holds answers a call of the reply before it, in
\* the order of the calls: for batches of any size, sequential or parallel,
\* refused, aborted or terminated, in runs of any length.
THEOREM RequestsAnswered == Spec => []ResultsAnswerCalls
  <1>1. Init => AnswerInv
    BY AnswerEmpty DEF Init, AgentInit, AnswerInv, SettledPoints, ToolPoints, EndPoints
  <1>2. TypeInv /\ ControlInv /\ CopiesInv /\ AnswerInv /\ [Next]_vars => AnswerInv'
    BY AnswerNext
  <1>3. AnswerInv => ResultsAnswerCalls
    BY DEF AnswerInv, Answered, Answers, ResultsAnswerCalls
  <1> QED
    BY <1>1, <1>2, <1>3, TypeInvariant, ControlInvariant, CopiesAgree, PTL DEF Spec

-----------------------------------------------------------------------------
\* The two queues.  The messages of one origin are followed from their queue
\* through the hands of the loop into the transcript.

Queued == {"steer", "followUp"}

QueueOf(via) == IF via = "steer" THEN steeringQueue ELSE followUpQueue

ModeOf(via) == IF via = "steer" THEN SteeringMode ELSE FollowUpMode

\* The identities of the user messages of one origin.
IdsVia(via, s) == {s[i].id : i \in Of(via, s)}

\* Every identity of A was given before every identity of B.
Before(A, B) == \A a \in A, b \in B : a < b

\* The positions of a concatenation are those of its two parts.
LEMMA ConcatAt ==
    ASSUME NEW s \in Seq(Message), NEW t \in Seq(Message)
    PROVE  /\ s \o t \in Seq(Message) /\ Len(s) \in Nat /\ Len(t) \in Nat
           /\ DOMAIN s = 1..Len(s) /\ DOMAIN t = 1..Len(t)
           /\ DOMAIN (s \o t) = 1..(Len(s) + Len(t))
           /\ \A i \in 1..Len(s) : (s \o t)[i] = s[i]
           /\ \A k \in 1..Len(t) : (s \o t)[Len(s) + k] = t[k]
           /\ \A i \in 1..(Len(s) + Len(t)) :
                    i \in 1..Len(s) \/ \E k \in 1..Len(t) : i = Len(s) + k
  <1> DEFINE u == s \o t
  <1>1. /\ u \in Seq(Message) /\ Len(u) = Len(s) + Len(t)
        /\ \A i \in 1..(Len(s) + Len(t)) :
                u[i] = IF i <= Len(s) THEN s[i] ELSE t[i - Len(s)]
    BY ConcatProperties
  <1>2. /\ Len(s) \in Nat /\ Len(t) \in Nat
        /\ DOMAIN s = 1..Len(s) /\ DOMAIN t = 1..Len(t) /\ DOMAIN u = 1..Len(u)
    BY <1>1, LenProperties
  <1> HIDE DEF u
  <1>3. \A i \in 1..Len(s) : u[i] = s[i]
    BY <1>1, <1>2
  <1>4. ASSUME NEW k \in 1..Len(t)
        PROVE  u[Len(s) + k] = t[k]
    <2>1. /\ Len(s) + k \in 1..(Len(s) + Len(t)) /\ ~(Len(s) + k <= Len(s))
          /\ (Len(s) + k) - Len(s) = k
      BY <1>2
    <2> QED
      BY <1>1, <2>1
  <1>5. ASSUME NEW i \in 1..(Len(s) + Len(t)), i \notin 1..Len(s)
        PROVE  \E k \in 1..Len(t) : i = Len(s) + k
    <2>1. i - Len(s) \in 1..Len(t) /\ i = Len(s) + (i - Len(s))
      BY <1>2, <1>5
    <2> QED
      BY <2>1
  <1> QED
    BY <1>1, <1>2, <1>3, <1>4, <1>5 DEF u

\* The messages of one origin in a concatenation.
LEMMA OfConcat ==
    ASSUME NEW s \in Seq(Message), NEW t \in Seq(Message), NEW via
    PROVE  /\ \A i \in Of(via, s) : i \in Of(via, s \o t) /\ (s \o t)[i] = s[i]
           /\ \A k \in Of(via, t) : /\ Len(s) + k \in Of(via, s \o t)
                                    /\ (s \o t)[Len(s) + k] = t[k]
           /\ \A i \in Of(via, s \o t) :
                    i \in Of(via, s) \/ \E k \in Of(via, t) : i = Len(s) + k
           /\ Of(via, s) \subseteq 1..Len(s) /\ Of(via, t) \subseteq 1..Len(t)
           /\ Len(s) \in Nat /\ Len(t) \in Nat
  <1> DEFINE u == s \o t
  <1>1. /\ Len(s) \in Nat /\ Len(t) \in Nat
        /\ DOMAIN s = 1..Len(s) /\ DOMAIN t = 1..Len(t)
        /\ DOMAIN u = 1..(Len(s) + Len(t))
        /\ \A i \in 1..Len(s) : u[i] = s[i]
        /\ \A k \in 1..Len(t) : u[Len(s) + k] = t[k]
        /\ \A i \in 1..(Len(s) + Len(t)) :
                 i \in 1..Len(s) \/ \E k \in 1..Len(t) : i = Len(s) + k
    BY ConcatAt
  <1> HIDE DEF u
  <1>2. \A i \in Of(via, s) : i \in Of(via, u) /\ u[i] = s[i]
    <2>1. \A i \in 1..Len(s) : i \in 1..(Len(s) + Len(t))
      BY <1>1
    <2> QED
      BY <1>1, <2>1 DEF Of
  <1>3. \A k \in Of(via, t) : Len(s) + k \in Of(via, u) /\ u[Len(s) + k] = t[k]
    <2>1. \A k \in 1..Len(t) : Len(s) + k \in 1..(Len(s) + Len(t))
      BY <1>1
    <2> QED
      BY <1>1, <2>1 DEF Of
  <1>4. ASSUME NEW i \in Of(via, u)
        PROVE  i \in Of(via, s) \/ \E k \in Of(via, t) : i = Len(s) + k
    <2>1. i \in 1..(Len(s) + Len(t)) /\ IsUser(u[i]) /\ u[i].via = via
      BY <1>1 DEF Of
    <2>2. CASE i \in 1..Len(s)
      BY <1>1, <2>1, <2>2 DEF Of
    <2>3. CASE \E k \in 1..Len(t) : i = Len(s) + k
      <3>1. PICK k \in 1..Len(t) : i = Len(s) + k
        BY <2>3
      <3>2. k \in Of(via, t)
        BY <1>1, <2>1, <3>1 DEF Of
      <3> QED
        BY <3>1, <3>2
    <2> QED
      BY <1>1, <2>1, <2>2, <2>3
  <1>5. Of(via, s) \subseteq 1..Len(s) /\ Of(via, t) \subseteq 1..Len(t)
    BY <1>1 DEF Of
  <1> QED
    BY <1>1, <1>2, <1>3, <1>4, <1>5 DEF u

\* Their identities.
LEMMA IdsViaConcat ==
    ASSUME NEW s \in Seq(Message), NEW t \in Seq(Message), NEW via
    PROVE  IdsVia(via, s \o t) = IdsVia(via, s) \union IdsVia(via, t)
  <1> DEFINE u == s \o t
  <1>1. /\ \A i \in Of(via, s) : i \in Of(via, u) /\ u[i] = s[i]
        /\ \A k \in Of(via, t) : Len(s) + k \in Of(via, u) /\ u[Len(s) + k] = t[k]
        /\ \A i \in Of(via, u) :
                 i \in Of(via, s) \/ \E k \in Of(via, t) : i = Len(s) + k
    BY OfConcat
  <1> HIDE DEF u
  <1>2. IdsVia(via, s) \subseteq IdsVia(via, u)
    BY <1>1 DEF IdsVia
  <1>3. IdsVia(via, t) \subseteq IdsVia(via, u)
    BY <1>1 DEF IdsVia
  <1>4. ASSUME NEW i \in Of(via, u)
        PROVE  u[i].id \in IdsVia(via, s) \union IdsVia(via, t)
    BY <1>1 DEF IdsVia
  <1>5. IdsVia(via, u) \subseteq IdsVia(via, s) \union IdsVia(via, t)
    BY <1>4 DEF IdsVia
  <1>6. IdsVia(via, u) = IdsVia(via, s) \union IdsVia(via, t)
    BY <1>2, <1>3, <1>5
  <1> QED
    BY <1>6 DEF u

\* A concatenation is in order when its parts are, one after the other.
LEMMA SortedConcat ==
    ASSUME NEW s \in Seq(Message), NEW t \in Seq(Message), NEW via
    PROVE  Sorted(via, s \o t) <=> /\ Sorted(via, s) /\ Sorted(via, t)
                                   /\ Before(IdsVia(via, s), IdsVia(via, t))
  <1> DEFINE u == s \o t
  <1>1. /\ \A i \in Of(via, s) : i \in Of(via, u) /\ u[i] = s[i]
        /\ \A k \in Of(via, t) : Len(s) + k \in Of(via, u) /\ u[Len(s) + k] = t[k]
        /\ \A i \in Of(via, u) :
                 i \in Of(via, s) \/ \E k \in Of(via, t) : i = Len(s) + k
        /\ Of(via, s) \subseteq 1..Len(s) /\ Of(via, t) \subseteq 1..Len(t)
        /\ Len(s) \in Nat /\ Len(t) \in Nat
    BY OfConcat
  <1> HIDE DEF u
  <1>2. ASSUME Sorted(via, u)
        PROVE  /\ Sorted(via, s) /\ Sorted(via, t)
               /\ Before(IdsVia(via, s), IdsVia(via, t))
    <2>1. Sorted(via, s)
      BY <1>1, <1>2 DEF Sorted
    <2>2. ASSUME NEW i \in Of(via, t), NEW j \in Of(via, t), i < j
          PROVE  t[i].id < t[j].id
      <3>1. Len(s) + i < Len(s) + j
        BY <1>1, <2>2
      <3> QED
        BY <1>1, <1>2, <3>1 DEF Sorted
    <2>3. ASSUME NEW i \in Of(via, s), NEW k \in Of(via, t)
          PROVE  s[i].id < t[k].id
      <3>1. i < Len(s) + k
        BY <1>1
      <3> QED
        BY <1>1, <1>2, <3>1 DEF Sorted
    <2> QED
      BY <2>1, <2>2, <2>3 DEF Sorted, Before, IdsVia
  <1>3. ASSUME Sorted(via, s), Sorted(via, t),
               Before(IdsVia(via, s), IdsVia(via, t)),
               NEW i \in Of(via, u), NEW j \in Of(via, u), i < j
        PROVE  u[i].id < u[j].id
    <2>1. CASE i \in Of(via, s) /\ j \in Of(via, s)
      BY <1>1, <1>3, <2>1 DEF Sorted
    <2>2. CASE i \in Of(via, s) /\ \E k \in Of(via, t) : j = Len(s) + k
      BY <1>1, <1>3, <2>2 DEF Before, IdsVia
    <2>3. CASE (\E k \in Of(via, t) : i = Len(s) + k) /\ j \in Of(via, s)
      <3>1. PICK k \in Of(via, t) : i = Len(s) + k
        BY <2>3
      <3>2. j <= Len(s) /\ j \in Nat /\ k \in Nat
        BY <1>1, <2>3
      <3> QED
        BY <1>1, <1>3, <3>1, <3>2
    <2>4. CASE /\ \E k \in Of(via, t) : i = Len(s) + k
               /\ \E k \in Of(via, t) : j = Len(s) + k
      <3>1. PICK k \in Of(via, t) : i = Len(s) + k
        BY <2>4
      <3>2. PICK l \in Of(via, t) : j = Len(s) + l
        BY <2>4
      <3>3. k < l
        BY <1>1, <1>3, <3>1, <3>2
      <3> QED
        BY <1>1, <1>3, <3>1, <3>2, <3>3 DEF Sorted
    <2> QED
      BY <1>1, <2>1, <2>2, <2>3, <2>4
  <1>4. Sorted(via, s) /\ Sorted(via, t) /\ Before(IdsVia(via, s), IdsVia(via, t))
        => Sorted(via, u)
    BY <1>3 DEF Sorted
  <1> QED
    BY <1>2, <1>4 DEF u

\* Four lists, each in order and each before those that follow it.
Line(via, m, p, r, q) ==
    /\ Sorted(via, m) /\ Sorted(via, p) /\ Sorted(via, r) /\ Sorted(via, q)
    /\ Before(IdsVia(via, m), IdsVia(via, p))
    /\ Before(IdsVia(via, m), IdsVia(via, r))
    /\ Before(IdsVia(via, m), IdsVia(via, q))
    /\ Before(IdsVia(via, p), IdsVia(via, r))
    /\ Before(IdsVia(via, p), IdsVia(via, q))
    /\ Before(IdsVia(via, r), IdsVia(via, q))

\* The journey of the messages is in order when its four stages are.
LEMMA LineIs ==
    ASSUME NEW m \in Seq(Message), NEW p \in Seq(Message), NEW r \in Seq(Message),
           NEW q \in Seq(Message), NEW via
    PROVE  Sorted(via, m \o p \o r \o q) <=> Line(via, m, p, r, q)
  <1> DEFINE a == m \o p  b == a \o r  c == b \o q
  <1>1. /\ a \in Seq(Message)
        /\ IdsVia(via, a) = IdsVia(via, m) \union IdsVia(via, p)
        /\ Sorted(via, a) <=> /\ Sorted(via, m) /\ Sorted(via, p)
                              /\ Before(IdsVia(via, m), IdsVia(via, p))
    BY ConcatAt, IdsViaConcat, SortedConcat
  <1> HIDE DEF a
  <1>2. /\ b \in Seq(Message)
        /\ IdsVia(via, b) = IdsVia(via, a) \union IdsVia(via, r)
        /\ Sorted(via, b) <=> /\ Sorted(via, a) /\ Sorted(via, r)
                              /\ Before(IdsVia(via, a), IdsVia(via, r))
    <2>1. a \in Seq(Message) /\ r \in Seq(Message)
      BY <1>1
    <2>2. b \in Seq(Message)
      BY <2>1, ConcatAt
    <2>3. IdsVia(via, b) = IdsVia(via, a) \union IdsVia(via, r)
      BY <2>1, IdsViaConcat
    <2> QED
      BY <2>1, <2>2, <2>3, SortedConcat
  <1> HIDE DEF b
  <1>3. Sorted(via, c) <=> /\ Sorted(via, b) /\ Sorted(via, q)
                           /\ Before(IdsVia(via, b), IdsVia(via, q))
    BY <1>2, SortedConcat
  <1> HIDE DEF c
  <1>4. Sorted(via, c) <=> Line(via, m, p, r, q)
    BY <1>1, <1>2, <1>3 DEF Line, Before
  <1> QED
    BY <1>4 DEF a, b, c

\* s holds no message of the origin that t does not hold, in the same order.
Keeps(via, s, t) ==
    /\ IdsVia(via, s) \subseteq IdsVia(via, t)
    /\ Sorted(via, t) => Sorted(via, s)

\* No message of the origin.
LEMMA ViaNone ==
    ASSUME NEW via, NEW s, Of(via, s) = {}
    PROVE  IdsVia(via, s) = {} /\ Sorted(via, s) /\ \A t : Keeps(via, s, t)
  BY DEF IdsVia, Sorted, Keeps

\* The empty list holds none.
LEMMA ViaEmpty == \A via : Of(via, <<>>) = {}
  BY DEF Of

\* Neither does a list of messages of another origin.
LEMMA ViaOther ==
    ASSUME NEW s \in Seq(UserMessage), NEW other, \A i \in DOMAIN s : s[i].via = other,
           NEW via, via # other
    PROVE  Of(via, s) = {}
  BY DEF Of

\* A list keeps what it holds.
LEMMA KeepsSelf == \A via, s : Keeps(via, s, s)
  BY DEF Keeps

\* Appending a message of the origin, or another one.
LEMMA ViaAppend ==
    ASSUME NEW s \in Seq(Message), NEW m \in Message, NEW via
    PROVE  /\ ~(IsUser(m) /\ m.via = via) =>
                /\ Of(via, Append(s, m)) = Of(via, s)
                /\ Keeps(via, Append(s, m), s)
           /\ IsUser(m) /\ m.via = via =>
                /\ IdsVia(via, Append(s, m)) = IdsVia(via, s) \union {m.id}
                /\ Sorted(via, Append(s, m)) <=>
                        Sorted(via, s) /\ \A a \in IdsVia(via, s) : a < m.id
                /\ Of(via, Append(s, m)) = Of(via, s) \union {Len(s) + 1}
  <1> DEFINE t == Append(s, m)
  <1>1. /\ Len(t) = Len(s) + 1 /\ t[Len(s) + 1] = m
        /\ \A i \in 1..Len(s) : t[i] = s[i]
        /\ Len(s) \in Nat /\ DOMAIN s = 1..Len(s) /\ DOMAIN t = 1..Len(t)
    BY AppendProperties, LenProperties
  <1> HIDE DEF t
  <1>2. /\ 1..(Len(s) + 1) = 1..Len(s) \union {Len(s) + 1}
        /\ Len(s) + 1 \notin 1..Len(s)
    BY <1>1
  <1>3. CASE ~(IsUser(m) /\ m.via = via)
    <2>1. Of(via, t) = Of(via, s)
      BY <1>1, <1>2, <1>3 DEF Of
    <2>2. \A i \in Of(via, s) : t[i] = s[i]
      BY <1>1 DEF Of
    <2>3. IdsVia(via, t) = IdsVia(via, s)
      BY <2>1, <2>2 DEF IdsVia
    <2>4. Sorted(via, s) => Sorted(via, t)
      BY <2>1, <2>2 DEF Sorted
    <2>5. Keeps(via, t, s)
      BY <2>3, <2>4 DEF Keeps
    <2> QED
      BY <1>3, <2>1, <2>5 DEF t
  <1>4. CASE IsUser(m) /\ m.via = via
    <2>1. Of(via, t) = Of(via, s) \union {Len(s) + 1}
      BY <1>1, <1>2, <1>4 DEF Of
    <2>2. Of(via, s) \subseteq 1..Len(s) /\ \A i \in Of(via, s) : t[i] = s[i]
      BY <1>1 DEF Of
    <2>3. IdsVia(via, t) = IdsVia(via, s) \union {m.id}
      BY <1>1, <2>1, <2>2 DEF IdsVia
    <2>4. \A i \in Of(via, s) : i < Len(s) + 1 /\ ~(Len(s) + 1 < i)
      BY <1>1, <2>2
    <2>5. ~(Len(s) + 1 < Len(s) + 1)
      BY <1>1
    <2>6. Sorted(via, t) <=> Sorted(via, s) /\ \A i \in Of(via, s) : s[i].id < m.id
      BY <1>1, <2>1, <2>2, <2>4, <2>5 DEF Sorted
    <2>7. (\A i \in Of(via, s) : s[i].id < m.id)
            <=> \A a \in IdsVia(via, s) : a < m.id
      BY DEF IdsVia
    <2> QED
      BY <1>4, <2>1, <2>3, <2>6, <2>7 DEF t
  <1> QED
    BY <1>3, <1>4

\* A drain splits a queue in two.
LEMMA DrainConcat ==
    ASSUME NEW mode, NEW q \in Seq(UserMessage)
    PROVE  Drained(mode, q) \o AfterDrain(mode, q) = q
  <1>1. CASE mode = "all" \/ q = <<>>
    BY <1>1, ConcatEmptySeq DEF Drained, AfterDrain
  <1>2. CASE ~(mode = "all" \/ q = <<>>)
    <2>1. /\ Drained(mode, q) = <<Head(q)>> /\ AfterDrain(mode, q) = Tail(q)
          /\ q # <<>>
      BY <1>2 DEF Drained, AfterDrain
    <2>2. <<>> \in Seq(UserMessage) /\ Head(q) \in UserMessage
      BY <2>1, EmptySeq, HeadTailProperties
    <2>3. Append(<<>>, Head(q)) \o Tail(q) = <<>> \o q
      BY <2>1, <2>2, MoveHead
    <2>4. Append(<<>>, Head(q)) = <<Head(q)>> /\ <<>> \o q = q
      BY <2>2, AppendIsConcat, ConcatEmptySeq
    <2> QED
      BY <2>1, <2>3, <2>4
  <1> QED
    BY <1>1, <1>2

\* Neither half of a drain adds a message or changes the order.
LEMMA DrainKeeps ==
    ASSUME NEW mode, NEW q \in Seq(UserMessage), NEW via
    PROVE  /\ Keeps(via, Drained(mode, q), q)
           /\ Keeps(via, AfterDrain(mode, q), q)
  <1> DEFINE d == Drained(mode, q)  a == AfterDrain(mode, q)
  <1>1. d \in Seq(Message) /\ a \in Seq(Message) /\ d \o a = q
    BY DrainType, DrainConcat, MessageSeqs
  <1> HIDE DEF d, a
  <1>2. /\ IdsVia(via, d \o a) = IdsVia(via, d) \union IdsVia(via, a)
        /\ Sorted(via, d \o a) => Sorted(via, d) /\ Sorted(via, a)
    BY <1>1, IdsViaConcat, SortedConcat
  <1>3. Keeps(via, d, q) /\ Keeps(via, a, q)
    BY <1>1, <1>2 DEF Keeps
  <1> QED
    BY <1>3 DEF d, a

-----------------------------------------------------------------------------
\* Both queues hold only messages of their own, and the messages of either
\* origin are in order all along their journey.

Own(via) == \A i \in DOMAIN QueueOf(via) : QueueOf(via)[i].via = via

InLine(via) == Sorted(via, Journey(QueueOf(via)))

LineInv == \A via \in Queued : Own(via) /\ InLine(via)

\* The queues are sequences of user messages.
LEMMA QueueTypes ==
    ASSUME TypeInv
    PROVE  \A via : QueueOf(via) \in Seq(UserMessage) /\ QueueOf(via) \in Seq(Message)
  BY MessageSeqs DEF QueueOf, TypeInv, TypeOK, AgentTypeOK

\* The four stages of the journey.
LEMMA InLineIs ==
    ASSUME TypeInv, NEW via
    PROVE  InLine(via) <=> Line(via, messages, prompts, pendingMessages, QueueOf(via))
  <1>1. /\ messages \in Seq(Message) /\ prompts \in Seq(Message)
        /\ pendingMessages \in Seq(Message) /\ QueueOf(via) \in Seq(Message)
    BY MessageLists, QueueTypes
  <1> QED
    BY <1>1, LineIs DEF InLine, Journey

\* A step after which every stage holds no more than before, in its order.
LEMMA LineKeeps ==
    ASSUME TypeInv, TypeInv', NEW via, InLine(via),
           Keeps(via, messages', messages), Keeps(via, prompts', prompts),
           Keeps(via, pendingMessages', pendingMessages),
           Keeps(via, QueueOf(via)', QueueOf(via))
    PROVE  InLine(via)'
  <1>1. Line(via, messages, prompts, pendingMessages, QueueOf(via))
    BY InLineIs
  <1>2. InLine(via)' <=>
            Line(via, messages', prompts', pendingMessages', QueueOf(via)')
    <2>1. /\ messages' \in Seq(Message) /\ prompts' \in Seq(Message)
          /\ pendingMessages' \in Seq(Message) /\ QueueOf(via)' \in Seq(Message)
      BY MessageSeqs DEF QueueOf, TypeInv, TypeOK, AgentTypeOK
    <2> QED
      BY <2>1, LineIs DEF InLine, Journey
  <1>3. Line(via, messages', prompts', pendingMessages', QueueOf(via)')
    BY <1>1 DEF Line, Keeps, Before
  <1> QED
    BY <1>2, <1>3

\* The halves of a drained queue hold its own messages.
LEMMA OwnDrain ==
    ASSUME NEW mode, NEW q \in Seq(UserMessage), NEW via,
           \A i \in DOMAIN q : q[i].via = via
    PROVE  /\ \A i \in DOMAIN Drained(mode, q) : Drained(mode, q)[i].via = via
           /\ \A i \in DOMAIN AfterDrain(mode, q) : AfterDrain(mode, q)[i].via = via
  <1> DEFINE d == Drained(mode, q)  a == AfterDrain(mode, q)
  <1>1. d \in Seq(Message) /\ a \in Seq(Message) /\ d \o a = q
    BY DrainType, DrainConcat, MessageSeqs
  <1> HIDE DEF d, a
  <1>2. /\ Len(d) \in Nat /\ Len(a) \in Nat
        /\ DOMAIN d = 1..Len(d) /\ DOMAIN a = 1..Len(a)
        /\ DOMAIN q = 1..(Len(d) + Len(a))
        /\ \A i \in 1..Len(d) : q[i] = d[i]
        /\ \A k \in 1..Len(a) : q[Len(d) + k] = a[k]
    BY <1>1, ConcatAt
  <1>3. /\ \A i \in 1..Len(d) : i \in DOMAIN q
        /\ \A k \in 1..Len(a) : Len(d) + k \in DOMAIN q
    BY <1>2
  <1>4. /\ \A i \in DOMAIN d : d[i].via = via
        /\ \A i \in DOMAIN a : a[i].via = via
    BY <1>2, <1>3
  <1> QED
    BY <1>4 DEF d, a

\* A step that moves no user message.
LEMMA LineUnchanged ==
    ASSUME LineInv, UNCHANGED <<messages, prompts, pendingMessages, queueVars>>
    PROVE  LineInv'
  BY DEF LineInv, Own, InLine, Journey, QueueOf

\* The loop takes messages from one queue: as prompts, as pending messages, or
\* to drop them with a run that fails.
LEMMA LineDrain ==
    ASSUME TypeInv, TypeInv', LineInv, NEW taken \in Queued,
           UNCHANGED messages, prompts = <<>>, pendingMessages = <<>>,
           QueueOf(taken)' = AfterDrain(ModeOf(taken), QueueOf(taken)),
           \A via \in Queued \ {taken} : QueueOf(via)' = QueueOf(via),
           \/ prompts' = <<>> /\ pendingMessages' = <<>>
           \/ /\ prompts' = Drained(ModeOf(taken), QueueOf(taken))
              /\ pendingMessages' = <<>>
           \/ /\ pendingMessages' = Drained(ModeOf(taken), QueueOf(taken))
              /\ prompts' = <<>>
    PROVE  LineInv'
  <1> DEFINE q == QueueOf(taken)  mode == ModeOf(taken)
  <1>1. q \in Seq(UserMessage) /\ Own(taken) /\ \A i \in DOMAIN q : q[i].via = taken
    BY QueueTypes DEF LineInv, Own
  <1>2. /\ \A i \in DOMAIN Drained(mode, q) : Drained(mode, q)[i].via = taken
        /\ \A i \in DOMAIN AfterDrain(mode, q) : AfterDrain(mode, q)[i].via = taken
        /\ Drained(mode, q) \in Seq(UserMessage)
        /\ AfterDrain(mode, q) \in Seq(UserMessage)
    BY <1>1, OwnDrain, DrainType
  <1>3. \A via \in Queued : Own(via)'
    BY <1>2 DEF LineInv, Own
  <1>4. InLine(taken)'
    <2> DEFINE d == Drained(mode, q)  a == AfterDrain(mode, q)
    <2>1. d \in Seq(Message) /\ a \in Seq(Message) /\ d \o a = q
      BY <1>1, DrainType, DrainConcat, MessageSeqs
    <2>2. Line(taken, messages, <<>>, <<>>, d \o a)
      BY <2>1, InLineIs DEF LineInv
    <2>3. InLine(taken)' <=> Line(taken, messages', prompts', pendingMessages', a)
      <3>1. /\ messages' \in Seq(Message) /\ prompts' \in Seq(Message)
            /\ pendingMessages' \in Seq(Message) /\ QueueOf(taken)' \in Seq(Message)
            /\ QueueOf(taken)' = a
        BY MessageSeqs DEF QueueOf, TypeInv, TypeOK, AgentTypeOK
      <3> QED
        BY <3>1, LineIs DEF InLine, Journey
    <2>4. \/ prompts' = <<>> /\ pendingMessages' = <<>>
          \/ prompts' = d /\ pendingMessages' = <<>>
          \/ prompts' = <<>> /\ pendingMessages' = d
      OBVIOUS
    <2> HIDE DEF d, a
    <2>5. /\ IdsVia(taken, d \o a) = IdsVia(taken, d) \union IdsVia(taken, a)
          /\ Sorted(taken, d \o a) => /\ Sorted(taken, d) /\ Sorted(taken, a)
                                      /\ Before(IdsVia(taken, d), IdsVia(taken, a))
      BY <2>1, IdsViaConcat, SortedConcat
    <2>6. IdsVia(taken, <<>>) = {} /\ Sorted(taken, <<>>)
      BY ViaEmpty, ViaNone
    <2>7. /\ Line(taken, messages, <<>>, <<>>, a)
          /\ Line(taken, messages, d, <<>>, a)
          /\ Line(taken, messages, <<>>, d, a)
      BY <2>2, <2>5, <2>6 DEF Line, Before
    <2> QED
      BY <2>3, <2>4, <2>7
  <1>5. ASSUME NEW via \in Queued \ {taken}
        PROVE  InLine(via)'
    <2>1. Of(via, Drained(mode, q)) = {} /\ Of(via, <<>>) = {}
      BY <1>2, ViaOther, ViaEmpty
    <2>2. Of(via, prompts') = {} /\ Of(via, pendingMessages') = {}
      BY <2>1
    <2>3. Keeps(via, prompts', prompts) /\ Keeps(via, pendingMessages', pendingMessages)
      BY <2>2, ViaNone
    <2> QED
      BY <2>3, KeepsSelf, LineKeeps DEF LineInv
  <1> QED
    BY <1>3, <1>4, <1>5 DEF LineInv

\* A run starts with the messages of a prompt, those of a drain or none.
LEMMA LineStart ==
    ASSUME TypeInv, TypeInv', ControlInv, LineInv, StartRun
    PROVE  LineInv'
  <1>1. /\ UNCHANGED <<messages, pendingMessages>>
        /\ prompts = <<>> /\ pendingMessages = <<>>
    BY DEF ControlInv, StartRun, Prompt, ContinueWithSteering,
           ContinueWithFollowUps, ContinueTranscript, RunPromptMessages, BeginRun
  <1>2. CASE Prompt \/ ContinueTranscript
    <2>1. UNCHANGED queueVars
      BY <1>2 DEF Prompt, ContinueTranscript
    <2>2. ASSUME NEW via \in Queued
          PROVE  Of(via, prompts') = {}
      <3>1. CASE Prompt
        <4>1. PICK n \in 1..MaxPrompts :
                prompts' = [i \in 1..n |-> [role |-> "user", via |-> "prompt",
                                            id |-> nextId + i - 1]]
          BY <3>1 DEF Prompt, RunPromptMessages
        <4>2. \A i \in DOMAIN prompts' : prompts'[i].via = "prompt"
          BY <4>1
        <4> QED
          BY <4>2 DEF Of, Queued
      <3>2. CASE ContinueTranscript
        <4>1. prompts' = <<>>
          BY <3>2 DEF ContinueTranscript, RunPromptMessages
        <4> QED
          BY <4>1, ViaEmpty
      <3> QED
        BY <1>2, <3>1, <3>2
    <2>3. ASSUME NEW via \in Queued
          PROVE  Own(via)' /\ InLine(via)'
      <3>1. QueueOf(via)' = QueueOf(via)
        BY <2>1 DEF QueueOf
      <3>2. Keeps(via, prompts', prompts)
        BY <2>2, ViaNone
      <3>3. InLine(via)'
        BY <1>1, <3>1, <3>2, KeepsSelf, LineKeeps DEF LineInv
      <3> QED
        BY <3>1, <3>3 DEF LineInv, Own
    <2> QED
      BY <2>3 DEF LineInv
  <1>3. CASE ContinueWithSteering
    <2>1. /\ prompts' = Drained(ModeOf("steer"), QueueOf("steer"))
          /\ QueueOf("steer")' = AfterDrain(ModeOf("steer"), QueueOf("steer"))
          /\ \A via \in Queued \ {"steer"} : QueueOf(via)' = QueueOf(via)
          /\ pendingMessages' = <<>>
      BY <1>1, <1>3 DEF ContinueWithSteering, RunPromptMessages, ModeOf, QueueOf,
                        Queued
    <2> QED
      BY <1>1, <2>1, LineDrain DEF Queued
  <1>4. CASE ContinueWithFollowUps
    <2>1. /\ prompts' = Drained(ModeOf("followUp"), QueueOf("followUp"))
          /\ QueueOf("followUp")' = AfterDrain(ModeOf("followUp"), QueueOf("followUp"))
          /\ \A via \in Queued \ {"followUp"} : QueueOf(via)' = QueueOf(via)
          /\ pendingMessages' = <<>>
      BY <1>1, <1>4 DEF ContinueWithFollowUps, RunPromptMessages, ModeOf, QueueOf,
                        Queued
    <2> QED
      BY <1>1, <2>1, LineDrain DEF Queued
  <1> QED
    BY <1>2, <1>3, <1>4 DEF StartRun

\* A held message moves to the transcript: the journey is the same.
LEMMA LineEmit ==
    ASSUME TypeInv, ControlInv, LineInv, EmitPrompt \/ InjectPending
    PROVE  LineInv'
  <1>1. messages \in Seq(Message) /\ prompts \in Seq(Message)
        /\ pendingMessages \in Seq(Message)
    BY MessageLists
  <1>2. UNCHANGED queueVars
    BY DEF EmitPrompt, InjectPending
  <1>3. messages' \o prompts' \o pendingMessages' = messages \o prompts \o pendingMessages
    <2>1. CASE EmitPrompt
      <3>1. /\ prompts # <<>> /\ messages' = Append(messages, Head(prompts))
            /\ prompts' = Tail(prompts) /\ pendingMessages' = pendingMessages
        BY <2>1 DEF EmitPrompt, MessageEnd
      <3> QED
        BY <1>1, <3>1, MoveHead
    <2>2. CASE InjectPending
      <3>1. /\ pendingMessages # <<>> /\ prompts = <<>> /\ prompts' = <<>>
            /\ messages' = Append(messages, Head(pendingMessages))
            /\ pendingMessages' = Tail(pendingMessages)
        BY <2>2 DEF InjectPending, MessageEnd, ControlInv
      <3>2. Append(messages, Head(pendingMessages)) \in Seq(Message)
        BY <1>1, <3>1, HeadTailProperties, AppendProperties
      <3>3. messages' \o <<>> = messages' /\ messages \o <<>> = messages
        BY <1>1, <3>1, <3>2, ConcatEmptySeq
      <3>4. messages' \o pendingMessages' = messages \o pendingMessages
        BY <1>1, <3>1, MoveHead
      <3> QED
        BY <3>1, <3>3, <3>4
    <2> QED
      BY <2>1, <2>2
  <1> QED
    BY <1>2, <1>3 DEF LineInv, Own, InLine, Journey, QueueOf

\* The polls of the loop drain one queue.
LEMMA LinePoll ==
    ASSUME TypeInv, TypeInv', ControlInv, LineInv,
           PollInitialSteering \/ PollSteering \/ PollFollowUps
    PROVE  LineInv'
  <1>1. /\ prompts = <<>> /\ pendingMessages = <<>>
        /\ prompts' = <<>> /\ UNCHANGED messages
    BY DEF ControlInv, PollInitialSteering, PollSteering, PollFollowUps, RunFails,
           DropLocals
  <1>2. CASE PollInitialSteering /\ skipInitialSteeringPoll
    <2>1. UNCHANGED <<messages, prompts, pendingMessages, queueVars>>
      BY <1>2 DEF PollInitialSteering
    <2> QED
      BY <2>1, LineUnchanged
  <1>3. CASE \/ PollInitialSteering /\ ~skipInitialSteeringPoll
             \/ PollSteering
    <2>1. /\ QueueOf("steer")' = AfterDrain(ModeOf("steer"), QueueOf("steer"))
          /\ \A via \in Queued \ {"steer"} : QueueOf(via)' = QueueOf(via)
      BY <1>3 DEF PollInitialSteering, PollSteering, ModeOf, QueueOf, Queued
    <2>2. \/ pendingMessages' = <<>>
          \/ pendingMessages' = Drained(ModeOf("steer"), QueueOf("steer"))
      BY <1>1, <1>3 DEF PollInitialSteering, PollSteering, ModeOf, QueueOf, RunFails,
                        DropLocals
    <2> QED
      BY <1>1, <2>1, <2>2, LineDrain DEF Queued
  <1>4. CASE PollFollowUps
    <2>1. /\ QueueOf("followUp")' = AfterDrain(ModeOf("followUp"), QueueOf("followUp"))
          /\ \A via \in Queued \ {"followUp"} : QueueOf(via)' = QueueOf(via)
      BY <1>4 DEF PollFollowUps, ModeOf, QueueOf, Queued
    <2>2. \/ pendingMessages' = <<>>
          \/ pendingMessages' = Drained(ModeOf("followUp"), QueueOf("followUp"))
      BY <1>1, <1>4 DEF PollFollowUps, ModeOf, QueueOf, RunFails, DropLocals
    <2> QED
      BY <1>1, <2>1, <2>2, LineDrain DEF Queued
  <1> QED
    BY <1>2, <1>3, <1>4

\* A message that is not from a user joins the transcript.
LEMMA LineAppend ==
    ASSUME TypeInv, TypeInv', LineInv, NEW m \in Message, ~IsUser(m),
           messages' = Append(messages, m),
           UNCHANGED <<prompts, pendingMessages, queueVars>>
    PROVE  LineInv'
  <1>1. ASSUME NEW via \in Queued
        PROVE  Own(via)' /\ InLine(via)'
    <2>1. QueueOf(via)' = QueueOf(via)
      BY DEF QueueOf
    <2>2. Keeps(via, messages', messages)
      BY MessageLists, ViaAppend
    <2>3. InLine(via)'
      BY <2>1, <2>2, KeepsSelf, LineKeeps DEF LineInv
    <2> QED
      BY <2>1, <2>3 DEF LineInv, Own
  <1> QED
    BY <1>1 DEF LineInv

\* The locals of a run are dropped, or a client clears a queue or resets.
LEMMA LineDrop ==
    ASSUME TypeInv, TypeInv', LineInv,
           messages' \in {messages, <<>>}, prompts' \in {prompts, <<>>},
           pendingMessages' \in {pendingMessages, <<>>},
           steeringQueue' \in {steeringQueue, <<>>},
           followUpQueue' \in {followUpQueue, <<>>}
    PROVE  LineInv'
  <1>1. ASSUME NEW via \in Queued
        PROVE  Own(via)' /\ InLine(via)'
    <2>1. QueueOf(via)' \in {QueueOf(via), <<>>}
      BY DEF QueueOf
    <2>2. \A s, t : s \in {t, <<>>} => Keeps(via, s, t)
      BY KeepsSelf, ViaEmpty, ViaNone
    <2>3. InLine(via)'
      BY <2>1, <2>2, LineKeeps DEF LineInv
    <2>4. Own(via)'
      BY <2>1 DEF LineInv, Own
    <2> QED
      BY <2>3, <2>4
  <1> QED
    BY <1>1 DEF LineInv

\* A new message joins the end of its queue: its identity is the greatest.
LEMMA LineEnqueue ==
    ASSUME TypeInv, TypeInv', PlacesInv, LineInv, Steer \/ FollowUp,
           UNCHANGED loopVars
    PROVE  LineInv'
  <1>1. PICK own \in Queued :
            /\ QueueOf(own)' = Append(QueueOf(own),
                    [role |-> "user", via |-> own, id |-> nextId])
            /\ \A via \in Queued \ {own} : QueueOf(via)' = QueueOf(via)
    <2>1. CASE Steer
      BY <2>1 DEF Steer, QueueOf, Queued
    <2>2. CASE FollowUp
      BY <2>2 DEF FollowUp, QueueOf, Queued
    <2> QED
      BY <2>1, <2>2
  <1>2. UNCHANGED <<messages, prompts, pendingMessages>> /\ nextId \in Nat
    BY DEF Steer, FollowUp, loopVars, TypeInv, TypeOK, AgentTypeOK
  <1> DEFINE m == [role |-> "user", via |-> own, id |-> nextId]
             q == QueueOf(own)
  <1>3. m \in Message /\ IsUser(m) /\ m.via = own /\ m.id = nextId
    BY <1>2 DEF Queued, Message, UserMessage, Origins, IsUser
  <1>4. /\ IdsVia(own, messages) \subseteq Ids(messages)
        /\ IdsVia(own, prompts) \subseteq Ids(prompts)
        /\ IdsVia(own, pendingMessages) \subseteq Ids(pendingMessages)
        /\ IdsVia(own, q) \subseteq Ids(q)
    BY DEF IdsVia, Of, Ids
  <1>5. \A x \in Ids(messages) \union Ids(prompts) \union Ids(pendingMessages)
                    \union Ids(q) : x < nextId
    <2>1. \A x \in Ids(messages) \union Held \union Ids(q) : x \in 1..(nextId - 1)
      BY DEF PlacesInv, Places, QueueOf
    <2> QED
      BY <1>2, <2>1 DEF Held
  <1>6. q \in Seq(Message)
    BY QueueTypes
  <1> HIDE DEF m, q
  <1>7. /\ IdsVia(own, Append(q, m)) = IdsVia(own, q) \union {nextId}
        /\ Sorted(own, Append(q, m)) <=>
                Sorted(own, q) /\ \A a \in IdsVia(own, q) : a < nextId
    BY <1>3, <1>6, ViaAppend
  <1>8. Line(own, messages, prompts, pendingMessages, q)
    BY InLineIs DEF LineInv, q
  <1>9. Line(own, messages, prompts, pendingMessages, Append(q, m))
    BY <1>4, <1>5, <1>7, <1>8 DEF Line, Before
  <1>10. InLine(own)'
    <2>1. /\ messages \in Seq(Message) /\ prompts \in Seq(Message)
          /\ pendingMessages \in Seq(Message) /\ Append(q, m) \in Seq(Message)
          /\ QueueOf(own)' = Append(q, m)
      BY <1>1, <1>3, <1>6, MessageLists, AppendProperties DEF m, q
    <2> QED
      BY <1>2, <1>9, <2>1, LineIs DEF InLine, Journey
  <1>11. Own(own)'
    <2>1. /\ Len(Append(q, m)) = Len(q) + 1 /\ Append(q, m)[Len(q) + 1] = m
          /\ \A i \in 1..Len(q) : Append(q, m)[i] = q[i]
          /\ Len(q) \in Nat /\ DOMAIN q = 1..Len(q)
          /\ DOMAIN Append(q, m) = 1..(Len(q) + 1)
      BY <1>3, <1>6, AppendProperties, LenProperties
    <2>2. QueueOf(own)' = Append(q, m) /\ \A i \in DOMAIN q : q[i].via = own
      BY <1>1 DEF LineInv, Own, m, q
    <2>3. \A i \in 1..(Len(q) + 1) : i \in 1..Len(q) \/ i = Len(q) + 1
      BY <2>1
    <2> QED
      BY <1>3, <2>1, <2>2, <2>3 DEF Own
  <1>12. ASSUME NEW via \in Queued \ {own}
         PROVE  Own(via)' /\ InLine(via)'
    BY <1>1, <1>2 DEF LineInv, Own, InLine, Journey
  <1> QED
    BY <1>10, <1>11, <1>12 DEF LineInv

\* A reply, a result or the message of a failed run is not from a user.
LEMMA NotFromUser ==
    ASSUME TypeInv,
           \/ ReplyWithoutCalls \/ ReplyWithCalls \/ ReplyFails \/ RequestAborted
           \/ FailureMessage \/ EmitResult
    PROVE  \E m \in Message :
                /\ ~IsUser(m) /\ messages' = Append(messages, m)
                /\ m.role = "assistant" \/ EmitResult
                /\ UNCHANGED <<prompts, pendingMessages, queueVars>>
  <1>1. CASE ReplyWithoutCalls \/ ReplyWithCalls \/ ReplyFails \/ RequestAborted
    <2>1. PICK m \in AssistantMessage : ReplyArrives(m)
      BY <1>1, ReplyMessage
    <2>2. m \in Message /\ ~IsUser(m) /\ m.role = "assistant"
      BY MessageSeqs DEF AssistantMessage, IsUser
    <2>3. /\ messages' = Append(messages, m)
          /\ UNCHANGED <<prompts, pendingMessages, queueVars>>
      BY <2>1 DEF ReplyArrives, MessageEnd
    <2> QED
      BY <2>2, <2>3
  <1>2. CASE FailureMessage
    <2>1. PICK m \in AssistantMessage : messages' = Append(messages, m)
      <3>1. \A stop \in {"aborted", "error"} : Reply(stop, <<>>) \in AssistantMessage
        BY ReplyType, EmptySeq DEF StopReasons
      <3> QED
        BY <1>2, <3>1 DEF FailureMessage, MessageEnd
    <2>2. m \in Message /\ ~IsUser(m) /\ m.role = "assistant"
      BY MessageSeqs DEF AssistantMessage, IsUser
    <2>3. UNCHANGED <<prompts, pendingMessages, queueVars>>
      BY <1>2 DEF FailureMessage
    <2> QED
      BY <2>1, <2>2, <2>3
  <1>3. CASE EmitResult
    <2>1. batch.next \in 1..Len(batch.calls) /\ Len(batch.calls) \in Nat
      BY <1>3 DEF TypeInv, TypeOK, BatchShape, EmitResult, ToolPoints, Batch
    <2>2. NextResult \in 1..Len(batch.calls)
      BY <1>3, <2>1 DEF TypeInv, TypeOK, EmitResult, NextResult
    <2> DEFINE m == Result(batch.calls[NextResult])
    <2>3. m \in Message /\ ~IsUser(m)
      BY <2>2, BatchFacts DEF Result, Message, ToolResult, IsUser
    <2>4. /\ messages' = Append(messages, m)
          /\ UNCHANGED <<prompts, pendingMessages, queueVars>>
      BY <1>3 DEF EmitResult, MessageEnd
    <2> HIDE DEF m
    <2> QED
      BY <1>3, <2>3, <2>4
  <1> QED
    BY <1>1, <1>2, <1>3

\* The steps that touch neither the transcript nor a queue nor what the loop
\* holds.
LEMMA QuietSteps ==
    ASSUME \/ RequestReply \/ StreamStart \/ ToolStart \/ RefuseCall \/ PrepareCall
           \/ RefusedCallEnd \/ NextToolCall \/ LaunchPrepared \/ JoinTools
           \/ FinishBatch \/ TurnEnd \/ PrepareNextTurn \/ LastTurnEnd \/ AgentEnd
           \/ FailureTurnEnd \/ FailureAgentEnd \/ FailureThrows \/ ToolStep
    PROVE  UNCHANGED <<messages, prompts, pendingMessages, queueVars>>
  <1>1. CASE RequestReply \/ StreamStart \/ ToolStart \/ RefuseCall \/ PrepareCall
    BY <1>1 DEF RequestReply, StreamStart, ToolStart, RefuseCall, PrepareCall
  <1>2. CASE RefusedCallEnd \/ NextToolCall \/ LaunchPrepared \/ JoinTools
    BY <1>2 DEF RefusedCallEnd, NextToolCall, LaunchPrepared, JoinTools
  <1>3. CASE FinishBatch \/ TurnEnd \/ PrepareNextTurn \/ LastTurnEnd \/ AgentEnd
    BY <1>3 DEF FinishBatch, TurnEnd, PrepareNextTurn, LastTurnEnd, AgentEnd
  <1>4. CASE FailureTurnEnd \/ FailureAgentEnd \/ FailureThrows
    BY <1>4 DEF FailureTurnEnd, FailureAgentEnd, FailureThrows
  <1>5. CASE ToolStep
    <2>1. ASSUME NEW i \in Running, ToolEnd(i)
          PROVE  UNCHANGED <<messages, prompts, pendingMessages, queueVars>>
      BY <2>1 DEF ToolEnd
    <2>2. ASSUME NEW c \in stale, StaleToolEnd(c)
          PROVE  UNCHANGED <<messages, prompts, pendingMessages, queueVars>>
      BY <2>2 DEF StaleToolEnd
    <2> QED
      BY <1>5, <2>1, <2>2 DEF ToolStep
  <1> QED
    BY <1>1, <1>2, <1>3, <1>4, <1>5

\* Every step of the loop keeps the journeys in order.
LEMMA LineLoop ==
    ASSUME TypeInv, TypeInv', ControlInv, LineInv, LoopStep
    PROVE  LineInv'
  <1>1. CASE EmitPrompt \/ InjectPending
    BY <1>1, LineEmit
  <1>2. CASE PollInitialSteering \/ PollSteering \/ PollFollowUps
    BY <1>2, LinePoll
  <1>3. CASE RequestAborted \/ FailureMessage \/ EmitResult
    BY <1>3, NotFromUser, LineAppend
  <1>4. CASE \/ RequestReply \/ ToolStart \/ RefuseCall \/ PrepareCall
             \/ RefusedCallEnd \/ NextToolCall \/ LaunchPrepared \/ JoinTools
             \/ FinishBatch \/ TurnEnd \/ PrepareNextTurn \/ LastTurnEnd
             \/ AgentEnd \/ FailureTurnEnd \/ FailureAgentEnd
    BY <1>4, QuietSteps, LineUnchanged
  <1>5. CASE FinishRun
    BY <1>5, LineDrop DEF FinishRun, EndRun, DropLocals
  <1> QED
    BY <1>1, <1>2, <1>3, <1>4, <1>5 DEF LoopStep

\* Every step of the system keeps the journeys in order.
LEMMA LineNext ==
    ASSUME TypeInv, TypeInv', ControlInv, PlacesInv, LineInv, [Next]_vars
    PROVE  LineInv'
  <1>1. CASE StartRun
    BY <1>1, LineStart
  <1>2. CASE LoopStep
    BY <1>2, LineLoop
  <1>3. CASE ProviderStep
    <2>1. CASE StreamStart
      BY <2>1, QuietSteps, LineUnchanged
    <2>2. CASE ReplyWithoutCalls \/ ReplyWithCalls \/ ReplyFails
      BY <2>2, NotFromUser, LineAppend
    <2> QED
      BY <1>3, <2>1, <2>2 DEF ProviderStep
  <1>4. CASE ToolStep
    BY <1>4, QuietSteps, LineUnchanged
  <1>5. CASE Throw
    <2>1. CASE ListenerThrows
      BY <2>1, LineDrop DEF ListenerThrows, RunFails, DropLocals
    <2>2. CASE FailureThrows
      BY <2>2, QuietSteps, LineUnchanged
    <2> QED
      BY <1>5, <2>1, <2>2 DEF Throw
  <1>6. CASE ClientStep
    <2>1. CASE Steer \/ FollowUp
      BY <1>6, <2>1, LineEnqueue DEF ClientStep
    <2>2. CASE ClearSteeringQueue \/ ClearFollowUpQueue \/ Abort \/ Reset
      BY <1>6, <2>2, LineDrop
         DEF ClientStep, loopVars, ClearSteeringQueue, ClearFollowUpQueue, Abort, Reset
    <2> QED
      BY <1>6, <2>1, <2>2 DEF ClientStep, ClientCall
  <1>7. CASE UNCHANGED vars
    BY <1>7, LineUnchanged DEF vars, loopVars
  <1> QED
    BY <1>1, <1>2, <1>3, <1>4, <1>5, <1>6, <1>7 DEF Next

\* Before the first call nothing is on its way.
LEMMA LineInit == Init => LineInv
  <1> SUFFICES ASSUME Init
               PROVE  LineInv
    OBVIOUS
  <1>1. /\ messages = <<>> /\ prompts = <<>> /\ pendingMessages = <<>>
        /\ \A via : QueueOf(via) = <<>>
    BY DEF Init, AgentInit, QueueOf
  <1>2. <<>> \in Seq(Message)
    OBVIOUS
  <1>3. \A via : Line(via, <<>>, <<>>, <<>>, <<>>)
    BY ViaEmpty, ViaNone DEF Line, Before
  <1>4. \A via : InLine(via)
    BY <1>1, <1>2, <1>3, LineIs DEF InLine, Journey
  <1> QED
    BY <1>1, <1>4 DEF LineInv, Own

\* Steering messages, and follow-up messages, reach the transcript in the order
\* they were queued, for any modes of the queues and whatever the client, the
\* tools and the listeners do meanwhile.
THEOREM LinesKept == Spec => []LineInv
  <1>1. Init => LineInv
    BY LineInit
  <1>2. TypeInv /\ TypeInv' /\ ControlInv /\ PlacesInv /\ LineInv /\ [Next]_vars
        => LineInv'
    BY LineNext
  <1>3. Init => PlacesInv
    BY PlacesInit
  <1>4. TypeInv /\ ControlInv /\ PlacesInv /\ [Next]_vars => PlacesInv'
    BY PlacesNext
  <1> QED
    BY <1>1, <1>2, <1>3, <1>4, TypeInvariant, ControlInvariant, PTL DEF Spec

-----------------------------------------------------------------------------
\* One at a time: between two messages of a queue the model replies.

\* Between two messages of the origin there is a reply.
Spaced(via, s) ==
    \A i, j \in Of(via, s) :
        i < j => \E k \in (i + 1)..(j - 1) : s[k].role = "assistant"

\* After every message of the origin there is a reply.
Replied(via, s) ==
    \A i \in Of(via, s) : \E k \in (i + 1)..Len(s) : s[k].role = "assistant"

\* There is at most one message of the origin.
One(via, s) == \A i, j \in Of(via, s) : i = j

\* What the loop holds of a queue is one message, taken when all the others
\* were answered.  `unanswered` are the points at which the last one may still
\* wait for its reply; a run that polls before its first request starts with
\* an answered transcript.
Unanswered == {"prompts"} \union TurnPoints

SpacedBy(via) ==
    /\ Spaced(via, messages)
    /\ One(via, prompts) /\ One(via, pendingMessages)
    /\ Of(via, prompts) # {} \/ Of(via, pendingMessages) # {} => Replied(via, messages)
    /\ pc \notin Unanswered => Replied(via, messages)
    /\ via = "steer" /\ pc = "prompts" /\ ~skipInitialSteeringPoll =>
            Of(via, prompts) = {} /\ Replied(via, messages)

SpacedInv ==
    throws = 0 =>
        \A via \in Queued : ModeOf(via) = "one-at-a-time" => SpacedBy(via)

\* Appending a message to an answered, or to a spaced transcript.
LEMMA SpacedAppend ==
    ASSUME NEW s \in Seq(Message), NEW m \in Message, NEW via, Spaced(via, s)
    PROVE  /\ ~(IsUser(m) /\ m.via = via) =>
                /\ Spaced(via, Append(s, m))
                /\ Replied(via, s) => Replied(via, Append(s, m))
                /\ m.role = "assistant" => Replied(via, Append(s, m))
           /\ IsUser(m) /\ m.via = via /\ Replied(via, s) => Spaced(via, Append(s, m))
  <1> DEFINE t == Append(s, m)
  <1>1. /\ Len(t) = Len(s) + 1 /\ t[Len(s) + 1] = m
        /\ \A i \in 1..Len(s) : t[i] = s[i]
        /\ Len(s) \in Nat /\ DOMAIN s = 1..Len(s)
    BY AppendProperties, LenProperties
  <1>2. Of(via, s) \subseteq 1..Len(s)
    BY <1>1 DEF Of
  <1>3. /\ ~(IsUser(m) /\ m.via = via) => Of(via, t) = Of(via, s)
        /\ IsUser(m) /\ m.via = via => Of(via, t) = Of(via, s) \union {Len(s) + 1}
    BY ViaAppend
  <1> HIDE DEF t
  \* replies found in s are found in t
  <1>4. ASSUME NEW i \in Of(via, s), NEW j \in Of(via, s), i < j
        PROVE  \E k \in (i + 1)..(j - 1) : t[k].role = "assistant"
    <2>1. PICK k \in (i + 1)..(j - 1) : s[k].role = "assistant"
      BY <1>4 DEF Spaced
    <2>2. k \in 1..Len(s)
      BY <1>1, <1>2, <2>1
    <2> QED
      BY <1>1, <2>1, <2>2
  <1>5. ASSUME Replied(via, s), NEW i \in Of(via, s)
        PROVE  \E k \in (i + 1)..Len(s) : t[k].role = "assistant"
    <2>1. PICK k \in (i + 1)..Len(s) : s[k].role = "assistant"
      BY <1>5 DEF Replied
    <2>2. k \in 1..Len(s)
      BY <1>1, <1>2, <2>1
    <2> QED
      BY <1>1, <2>1, <2>2
  <1>6. CASE ~(IsUser(m) /\ m.via = via)
    <2>1. Spaced(via, t)
      BY <1>3, <1>4, <1>6 DEF Spaced
    <2>2. ASSUME Replied(via, s)
          PROVE  Replied(via, t)
      <3>1. \A i \in Of(via, s) : (i + 1)..Len(s) \subseteq (i + 1)..Len(t)
        BY <1>1, <1>2
      <3> QED
        BY <1>3, <1>5, <1>6, <2>2, <3>1 DEF Replied
    <2>3. ASSUME m.role = "assistant"
          PROVE  Replied(via, t)
      <3>1. \A i \in Of(via, s) : Len(s) + 1 \in (i + 1)..Len(t)
        BY <1>1, <1>2
      <3> QED
        BY <1>1, <1>3, <1>6, <2>3, <3>1 DEF Replied
    <2> QED
      BY <1>6, <2>1, <2>2, <2>3 DEF t
  <1>7. CASE IsUser(m) /\ m.via = via /\ Replied(via, s)
    <2>1. ASSUME NEW i \in Of(via, t), NEW j \in Of(via, t), i < j
          PROVE  \E k \in (i + 1)..(j - 1) : t[k].role = "assistant"
      <3>1. i \in Of(via, s) /\ (j \in Of(via, s) \/ j = Len(s) + 1)
        BY <1>1, <1>2, <1>3, <1>7, <2>1
      <3>2. CASE j \in Of(via, s)
        BY <1>4, <2>1, <3>1, <3>2
      <3>3. CASE j = Len(s) + 1
        <4>1. j - 1 = Len(s)
          BY <1>1, <3>3
        <4> QED
          BY <1>5, <1>7, <3>1, <4>1
      <3> QED
        BY <3>1, <3>2, <3>3
    <2>2. Spaced(via, t)
      BY <2>1 DEF Spaced
    <2> QED
      BY <1>7, <2>2 DEF t
  <1> QED
    BY <1>6, <1>7

\* What is left of a list when its head is taken.
LEMMA ViaTail ==
    ASSUME NEW p \in Seq(Message), p # <<>>, NEW via, One(via, p)
    PROVE  /\ One(via, Tail(p))
           /\ Of(via, p) = {} => Of(via, Tail(p)) = {}
           /\ IsUser(Head(p)) /\ Head(p).via = via <=> 1 \in Of(via, p)
           /\ IsUser(Head(p)) /\ Head(p).via = via => Of(via, Tail(p)) = {}
  <1> DEFINE q == Tail(p)
  <1>1. /\ Len(q) = Len(p) - 1 /\ \A i \in 1..Len(q) : q[i] = p[i + 1]
        /\ Len(p) \in Nat \ {0} /\ DOMAIN p = 1..Len(p) /\ DOMAIN q = 1..Len(q)
        /\ Head(p) = p[1]
    BY HeadTailProperties, EmptySeq, LenProperties
  <1> HIDE DEF q
  <1>2. \A i \in Of(via, q) : i + 1 \in Of(via, p) /\ i \in Nat /\ i # 0
    <2>1. \A i \in 1..Len(q) : i + 1 \in 1..Len(p) /\ i \in Nat /\ i # 0
      BY <1>1
    <2> QED
      BY <1>1, <2>1 DEF Of
  <1>3. One(via, q)
    <2>1. \A i, j \in Of(via, q) : i + 1 = j + 1
      BY <1>2 DEF One
    <2> QED
      BY <1>2, <2>1 DEF One
  <1>4. Of(via, p) = {} => Of(via, q) = {}
    BY <1>2
  <1>5. IsUser(Head(p)) /\ Head(p).via = via <=> 1 \in Of(via, p)
    <2>1. 1 \in 1..Len(p)
      BY <1>1
    <2> QED
      BY <1>1, <2>1 DEF Of
  <1>6. 1 \in Of(via, p) => Of(via, q) = {}
    <2>1. ASSUME 1 \in Of(via, p), NEW i \in Of(via, q)
          PROVE  FALSE
      <3>1. i + 1 = 1
        BY <1>2, <2>1 DEF One
      <3> QED
        BY <1>2, <2>1, <3>1
    <2> QED
      BY <2>1
  <1> QED
    BY <1>3, <1>4, <1>5, <1>6 DEF q

\* The head of what the loop holds moves to the transcript.
LEMMA SpacedMove ==
    ASSUME NEW s \in Seq(Message), NEW p \in Seq(Message), p # <<>>, NEW via,
           Spaced(via, s), One(via, p), Of(via, p) # {} => Replied(via, s)
    PROVE  /\ Spaced(via, Append(s, Head(p)))
           /\ One(via, Tail(p))
           /\ Of(via, Tail(p)) # {} => Replied(via, Append(s, Head(p)))
           /\ Of(via, p) = {} =>
                /\ Of(via, Tail(p)) = {}
                /\ Replied(via, s) => Replied(via, Append(s, Head(p)))
  <1>1. Head(p) \in Message
    BY HeadTailProperties
  <1>2. CASE IsUser(Head(p)) /\ Head(p).via = via
    <2>1. Of(via, p) # {} /\ Of(via, Tail(p)) = {} /\ One(via, Tail(p))
      BY <1>2, ViaTail
    <2>2. Spaced(via, Append(s, Head(p)))
      BY <1>1, <1>2, <2>1, SpacedAppend
    <2> QED
      BY <2>1, <2>2
  <1>3. CASE ~(IsUser(Head(p)) /\ Head(p).via = via)
    <2>1. /\ Spaced(via, Append(s, Head(p)))
          /\ Replied(via, s) => Replied(via, Append(s, Head(p)))
      BY <1>1, <1>3, SpacedAppend
    <2>2. One(via, Tail(p)) /\ (Of(via, p) = {} => Of(via, Tail(p)) = {})
      BY ViaTail
    <2> QED
      BY <2>1, <2>2
  <1> QED
    BY <1>2, <1>3

\* A drain of one message at a time returns at most one.
LEMMA OneDrained ==
    ASSUME NEW q \in Seq(UserMessage), NEW via
    PROVE  One(via, Drained("one-at-a-time", q))
  <1>1. CASE q = <<>>
    BY <1>1 DEF Drained, One, Of
  <1>2. CASE q # <<>>
    <2>1. Drained("one-at-a-time", q) = <<Head(q)>>
      BY <1>2 DEF Drained
    <2>2. DOMAIN <<Head(q)>> = {1}
      OBVIOUS
    <2> QED
      BY <2>1, <2>2 DEF One, Of
  <1> QED
    BY <1>1, <1>2

\* No message of the origin in an empty list.
LEMMA SpacedEmpty ==
    \A via : /\ Spaced(via, <<>>) /\ Replied(via, <<>>) /\ One(via, <<>>)
             /\ Of(via, <<>>) = {}
  BY ViaEmpty DEF Spaced, Replied, One

\* A step that emits no message and takes none.
LEMMA SpacedQuiet ==
    ASSUME SpacedInv, throws' = throws,
           messages' \in {messages, <<>>}, prompts' \in {prompts, <<>>},
           pendingMessages' \in {pendingMessages, <<>>},
           pc \in Unanswered => pc' \in Unanswered,
           pc' = "prompts" => pc = "prompts" /\ UNCHANGED skipInitialSteeringPoll
    PROVE  SpacedInv'
  <1>1. ASSUME NEW via \in Queued, SpacedBy(via)
        PROVE  SpacedBy(via)'
    <2>1. /\ Spaced(via, messages') /\ One(via, prompts') /\ One(via, pendingMessages')
          /\ Replied(via, messages) => Replied(via, messages')
          /\ Of(via, prompts') # {} => Of(via, prompts) # {}
          /\ Of(via, pendingMessages') # {} => Of(via, pendingMessages) # {}
      BY <1>1, SpacedEmpty DEF SpacedBy
    <2> QED
      BY <1>1, <2>1 DEF SpacedBy
  <1>2. \A via : ModeOf(via)' = ModeOf(via)
    BY DEF ModeOf
  <1> QED
    BY <1>1, <1>2 DEF SpacedInv

\* Once something threw, nothing is promised.
LEMMA SpacedThrows ==
    ASSUME TypeInv, throws' = throws + 1
    PROVE  SpacedInv'
  BY DEF SpacedInv, TypeInv, TypeOK

\* The loop takes messages of one queue.
LEMMA SpacedDrain ==
    ASSUME TypeInv, LineInv, SpacedInv, NEW taken \in Queued,
           UNCHANGED <<messages, throws>>, prompts = <<>>, pendingMessages = <<>>,
           \/ prompts' = <<>> /\ pendingMessages' = <<>>
           \/ /\ prompts' = Drained(ModeOf(taken), QueueOf(taken))
              /\ pendingMessages' = <<>>
           \/ /\ pendingMessages' = Drained(ModeOf(taken), QueueOf(taken))
              /\ prompts' = <<>>,
           pc \notin Unanswered \/ (pc = "prompts" /\ taken = "steer"
                                       /\ ~skipInitialSteeringPoll),
           pc \in Unanswered => pc' \in Unanswered,
           pc' = "prompts" => \/ taken = "steer" /\ skipInitialSteeringPoll'
                              \/ taken # "steer" /\ pc \notin Unanswered
    PROVE  SpacedInv'
  <1> DEFINE d == Drained(ModeOf(taken), QueueOf(taken))
  <1>1. \A via : ModeOf(via)' = ModeOf(via)
    BY DEF ModeOf
  <1>2. d \in Seq(UserMessage) /\ \A i \in DOMAIN d : d[i].via = taken
    BY QueueTypes, DrainType, OwnDrain DEF LineInv, Own
  <1>3. ModeOf(taken) = "one-at-a-time" => One(taken, d)
    BY QueueTypes, OneDrained
  <1>4. \/ prompts' = <<>> /\ pendingMessages' = <<>>
        \/ prompts' = d /\ pendingMessages' = <<>>
        \/ prompts' = <<>> /\ pendingMessages' = d
    OBVIOUS
  <1> HIDE DEF d
  <1>5. ASSUME NEW via \in Queued, ModeOf(via) = "one-at-a-time", SpacedBy(via)
        PROVE  SpacedBy(via)'
    <2>1. via # taken => Of(via, d) = {}
      BY <1>2, ViaOther
    <2>2. One(via, d)
      BY <1>3, <1>5, <2>1 DEF One
    <2>3. One(via, prompts') /\ One(via, pendingMessages')
      BY <1>4, <2>2, SpacedEmpty
    <2>4. /\ pc \notin Unanswered => Replied(via, messages)
          /\ via = taken => Replied(via, messages)
      BY <1>5 DEF SpacedBy
    <2>5. Of(via, prompts') # {} \/ Of(via, pendingMessages') # {}
            => Replied(via, messages')
      BY <1>4, <2>1, <2>4, SpacedEmpty
    <2>6. pc' \notin Unanswered => Replied(via, messages')
      BY <2>4
    <2>7. via = "steer" /\ pc' = "prompts" /\ ~skipInitialSteeringPoll' =>
            Of(via, prompts') = {} /\ Replied(via, messages')
      BY <1>4, <2>1, <2>4, SpacedEmpty
    <2> QED
      BY <1>5, <2>3, <2>5, <2>6, <2>7 DEF SpacedBy
  <1> QED
    BY <1>1, <1>5 DEF SpacedInv

\* A run starts when the last message was answered.
LEMMA SpacedStart ==
    ASSUME TypeInv, ControlInv, LineInv, SpacedInv, StartRun
    PROVE  SpacedInv'
  <1>1. /\ UNCHANGED <<messages, pendingMessages, throws>>
        /\ prompts = <<>> /\ pendingMessages = <<>>
        /\ pc = "idle" /\ pc' = "prompts" /\ pc \notin Unanswered
    BY DEF ControlInv, StartRun, Prompt, ContinueWithSteering, Unanswered, TurnPoints,
           ContinueWithFollowUps, ContinueTranscript, RunPromptMessages, BeginRun
  <1>2. CASE ContinueWithSteering
    <2>1. /\ prompts' = Drained(ModeOf("steer"), QueueOf("steer"))
          /\ skipInitialSteeringPoll' /\ "steer" \in Queued
      BY <1>2 DEF ContinueWithSteering, RunPromptMessages, ModeOf, QueueOf, Queued
    <2> QED
      BY <1>1, <2>1, SpacedDrain
  <1>3. CASE ContinueWithFollowUps
    <2>1. /\ prompts' = Drained(ModeOf("followUp"), QueueOf("followUp"))
          /\ "followUp" \in Queued
      BY <1>3 DEF ContinueWithFollowUps, RunPromptMessages, ModeOf, QueueOf, Queued
    <2> QED
      BY <1>1, <2>1, SpacedDrain
  <1>4. CASE Prompt \/ ContinueTranscript
    <2>1. ASSUME NEW via \in Queued
          PROVE  Of(via, prompts') = {}
      <3>1. CASE Prompt
        <4>1. PICK n \in 1..MaxPrompts :
                prompts' = [i \in 1..n |-> [role |-> "user", via |-> "prompt",
                                            id |-> nextId + i - 1]]
          BY <3>1 DEF Prompt, RunPromptMessages
        <4>2. \A i \in DOMAIN prompts' : prompts'[i].via = "prompt"
          BY <4>1
        <4> QED
          BY <4>2 DEF Of, Queued
      <3>2. CASE ContinueTranscript
        <4>1. prompts' = <<>>
          BY <3>2 DEF ContinueTranscript, RunPromptMessages
        <4> QED
          BY <4>1, ViaEmpty
      <3> QED
        BY <1>4, <3>1, <3>2
    <2>2. ASSUME NEW via \in Queued, SpacedBy(via)
          PROVE  SpacedBy(via)'
      <3>1. One(via, prompts')
        BY <2>1 DEF One
      <3>2. Replied(via, messages') /\ Spaced(via, messages') /\ One(via, pendingMessages')
        BY <1>1, <2>2 DEF SpacedBy
      <3> QED
        BY <2>1, <3>1, <3>2 DEF SpacedBy
    <2>3. \A via : ModeOf(via)' = ModeOf(via)
      BY DEF ModeOf
    <2> QED
      BY <1>1, <2>2, <2>3 DEF SpacedInv
  <1> QED
    BY <1>2, <1>3, <1>4 DEF StartRun

\* A held message moves to the transcript.
LEMMA SpacedEmit ==
    ASSUME TypeInv, ControlInv, SpacedInv, EmitPrompt \/ InjectPending
    PROVE  SpacedInv'
  <1>1. \A via : ModeOf(via)' = ModeOf(via)
    BY DEF ModeOf
  <1>2. messages \in Seq(Message) /\ prompts \in Seq(Message)
        /\ pendingMessages \in Seq(Message)
    BY MessageLists
  <1>3. CASE EmitPrompt
    <2>1. /\ prompts # <<>> /\ messages' = Append(messages, Head(prompts))
          /\ prompts' = Tail(prompts) /\ pendingMessages = <<>>
          /\ pc = "prompts" /\ pc \in Unanswered
          /\ UNCHANGED <<pendingMessages, pc, skipInitialSteeringPoll, throws>>
      BY <1>3 DEF EmitPrompt, MessageEnd, ControlInv, Unanswered
    <2>2. ASSUME NEW via \in Queued, SpacedBy(via)
          PROVE  SpacedBy(via)'
      <3>1. /\ Spaced(via, messages) /\ One(via, prompts)
            /\ Of(via, prompts) # {} => Replied(via, messages)
        BY <2>2 DEF SpacedBy
      <3>2. /\ Spaced(via, messages') /\ One(via, prompts')
            /\ Of(via, prompts') # {} => Replied(via, messages')
            /\ Of(via, prompts) = {} =>
                    /\ Of(via, prompts') = {}
                    /\ Replied(via, messages) => Replied(via, messages')
        BY <1>2, <2>1, <3>1, SpacedMove
      <3>3. Of(via, pendingMessages') = {} /\ One(via, pendingMessages')
        BY <2>1, SpacedEmpty
      <3> QED
        BY <2>1, <2>2, <3>2, <3>3 DEF SpacedBy
    <2> QED
      BY <1>1, <2>1, <2>2 DEF SpacedInv
  <1>4. CASE InjectPending
    <2>1. /\ pendingMessages # <<>> /\ prompts = <<>>
          /\ messages' = Append(messages, Head(pendingMessages))
          /\ pendingMessages' = Tail(pendingMessages)
          /\ pc = "turn" /\ pc \in Unanswered
          /\ UNCHANGED <<prompts, pc, throws>>
      BY <1>4 DEF InjectPending, MessageEnd, ControlInv, Unanswered, TurnPoints
    <2>2. ASSUME NEW via \in Queued, SpacedBy(via)
          PROVE  SpacedBy(via)'
      <3>1. /\ Spaced(via, messages) /\ One(via, pendingMessages)
            /\ Of(via, pendingMessages) # {} => Replied(via, messages)
        BY <2>2 DEF SpacedBy
      <3>2. /\ Spaced(via, messages') /\ One(via, pendingMessages')
            /\ Of(via, pendingMessages') # {} => Replied(via, messages')
        BY <1>2, <2>1, <3>1, SpacedMove
      <3>3. Of(via, prompts') = {} /\ One(via, prompts')
        BY <2>1, SpacedEmpty
      <3> QED
        BY <2>1, <2>2, <3>2, <3>3 DEF SpacedBy
    <2> QED
      BY <1>1, <2>1, <2>2 DEF SpacedInv
  <1> QED
    BY <1>3, <1>4

\* The polls of the loop.
LEMMA SpacedPoll ==
    ASSUME TypeInv, ControlInv, LineInv, SpacedInv,
           PollInitialSteering \/ PollSteering \/ PollFollowUps
    PROVE  SpacedInv'
  <1>1. /\ prompts = <<>> /\ pendingMessages = <<>> /\ prompts' = <<>>
        /\ UNCHANGED <<messages, throws>> /\ pc' # "prompts"
        /\ "steer" \in Queued /\ "followUp" \in Queued
    BY DEF ControlInv, PollInitialSteering, PollSteering, PollFollowUps, RunFails,
           DropLocals, Queued
  <1>2. CASE PollInitialSteering /\ skipInitialSteeringPoll
    <2>1. /\ UNCHANGED <<messages, prompts, pendingMessages, throws>>
          /\ pc' \in Unanswered /\ pc' # "prompts"
      BY <1>2 DEF PollInitialSteering, Unanswered, TurnPoints
    <2> QED
      BY <2>1, SpacedQuiet
  <1>3. CASE PollInitialSteering /\ ~skipInitialSteeringPoll
    <2>1. /\ pendingMessages' = Drained(ModeOf("steer"), QueueOf("steer"))
          /\ pc = "prompts" /\ pc' \in Unanswered
      BY <1>3 DEF PollInitialSteering, ModeOf, QueueOf, Unanswered, TurnPoints
    <2> QED
      BY <1>1, <1>3, <2>1, SpacedDrain
  <1>4. CASE PollSteering
    <2>1. /\ pendingMessages' = <<>> \/
                pendingMessages' = Drained(ModeOf("steer"), QueueOf("steer"))
          /\ pc \notin Unanswered
      BY <1>1, <1>4 DEF PollSteering, ModeOf, QueueOf, RunFails, DropLocals, Unanswered,
                        TurnPoints
    <2> QED
      BY <1>1, <2>1, SpacedDrain
  <1>5. CASE PollFollowUps
    <2>1. /\ pendingMessages' = <<>> \/
                pendingMessages' = Drained(ModeOf("followUp"), QueueOf("followUp"))
          /\ pc \notin Unanswered
      BY <1>1, <1>5 DEF PollFollowUps, ModeOf, QueueOf, RunFails, DropLocals, Unanswered,
                        TurnPoints
    <2> QED
      BY <1>1, <2>1, SpacedDrain
  <1> QED
    BY <1>2, <1>3, <1>4, <1>5

\* A reply answers; a result or the message of a failed run disturbs nothing.
LEMMA SpacedGrows ==
    ASSUME TypeInv, SpacedInv,
           \/ ReplyWithoutCalls \/ ReplyWithCalls \/ ReplyFails \/ RequestAborted
           \/ FailureMessage \/ EmitResult
    PROVE  SpacedInv'
  <1>1. PICK m \in Message :
            /\ ~IsUser(m) /\ messages' = Append(messages, m)
            /\ m.role = "assistant" \/ EmitResult
            /\ UNCHANGED <<prompts, pendingMessages, queueVars>>
    BY NotFromUser
  <1>2. pc' # "prompts" /\ throws' = throws /\ (EmitResult => pc \notin Unanswered)
    BY DEF ReplyWithoutCalls, ReplyWithCalls, ReplyFails, RequestAborted,
           FailureMessage, EmitResult, ReplyArrives, Unanswered, TurnPoints
  <1>3. ASSUME NEW via \in Queued, SpacedBy(via)
        PROVE  SpacedBy(via)'
    <2>1. /\ Spaced(via, messages')
          /\ Replied(via, messages) => Replied(via, messages')
          /\ m.role = "assistant" => Replied(via, messages')
      BY <1>1, <1>3, MessageLists, SpacedAppend DEF SpacedBy
    <2>2. Replied(via, messages')
      BY <1>1, <1>2, <1>3, <2>1 DEF SpacedBy
    <2>3. One(via, prompts') /\ One(via, pendingMessages')
      BY <1>1, <1>3 DEF SpacedBy
    <2> QED
      BY <1>2, <2>1, <2>2, <2>3 DEF SpacedBy
  <1>4. \A via : ModeOf(via)' = ModeOf(via)
    BY DEF ModeOf
  <1> QED
    BY <1>2, <1>3, <1>4 DEF SpacedInv

\* Every step of the loop keeps the replies between the messages.
LEMMA SpacedLoop ==
    ASSUME TypeInv, ControlInv, LineInv, SpacedInv, LoopStep
    PROVE  SpacedInv'
  <1>1. CASE EmitPrompt \/ InjectPending
    BY <1>1, SpacedEmit
  <1>2. CASE PollInitialSteering \/ PollSteering \/ PollFollowUps
    BY <1>2, SpacedPoll
  <1>3. CASE RequestAborted \/ FailureMessage \/ EmitResult
    BY <1>3, SpacedGrows
  <1>4. CASE RequestReply \/ ToolStart \/ RefuseCall \/ PrepareCall
    BY <1>4, SpacedQuiet
       DEF RequestReply, ToolStart, RefuseCall, PrepareCall, Unanswered, TurnPoints
  <1>5. CASE RefusedCallEnd \/ NextToolCall \/ LaunchPrepared \/ JoinTools
    BY <1>5, SpacedQuiet
       DEF RefusedCallEnd, NextToolCall, LaunchPrepared, JoinTools, Unanswered,
           TurnPoints
  <1>6. CASE FinishBatch \/ TurnEnd \/ PrepareNextTurn \/ LastTurnEnd \/ AgentEnd
    BY <1>6, SpacedQuiet
       DEF FinishBatch, TurnEnd, PrepareNextTurn, LastTurnEnd, AgentEnd, Unanswered,
           TurnPoints
  <1>7. CASE FailureTurnEnd \/ FailureAgentEnd
    BY <1>7, SpacedQuiet DEF FailureTurnEnd, FailureAgentEnd, Unanswered, TurnPoints
  <1>8. CASE FinishRun
    BY <1>8, SpacedQuiet DEF FinishRun, EndRun, DropLocals, Unanswered, TurnPoints
  <1> QED
    BY <1>1, <1>2, <1>3, <1>4, <1>5, <1>6, <1>7, <1>8 DEF LoopStep

\* Every step of the system keeps the replies between the messages.
LEMMA SpacedNext ==
    ASSUME TypeInv, ControlInv, LineInv, SpacedInv, [Next]_vars
    PROVE  SpacedInv'
  <1>1. CASE StartRun
    BY <1>1, SpacedStart
  <1>2. CASE LoopStep
    BY <1>2, SpacedLoop
  <1>3. CASE ProviderStep
    <2>1. CASE StreamStart
      BY <2>1, SpacedQuiet DEF StreamStart, Unanswered, TurnPoints
    <2>2. CASE ReplyWithoutCalls \/ ReplyWithCalls \/ ReplyFails
      BY <2>2, SpacedGrows
    <2> QED
      BY <1>3, <2>1, <2>2 DEF ProviderStep
  <1>4. CASE ToolStep
    <2>1. ASSUME NEW i \in Running, ToolEnd(i)
          PROVE  SpacedInv'
      BY <2>1, SpacedQuiet DEF ToolEnd, Unanswered, TurnPoints
    <2>2. ASSUME NEW c \in stale, StaleToolEnd(c)
          PROVE  SpacedInv'
      BY <2>2, SpacedQuiet DEF StaleToolEnd
    <2> QED
      BY <1>4, <2>1, <2>2 DEF ToolStep
  <1>5. CASE Throw
    BY <1>5, SpacedThrows DEF Throw, ListenerThrows, FailureThrows
  <1>6. CASE ClientStep
    <2>1. messages' \in {messages, <<>>}
      BY <1>6 DEF ClientStep, ClientCall, Steer, FollowUp, ClearSteeringQueue,
                  ClearFollowUpQueue, Abort, Reset
    <2>2. UNCHANGED <<pc, prompts, pendingMessages, skipInitialSteeringPoll, throws>>
      BY <1>6 DEF ClientStep, loopVars
    <2> QED
      BY <2>1, <2>2, SpacedQuiet
  <1>7. CASE UNCHANGED vars
    BY <1>7, SpacedQuiet DEF vars, loopVars
  <1> QED
    BY <1>1, <1>2, <1>3, <1>4, <1>5, <1>6, <1>7 DEF Next

\* Before the first call nothing was said.
LEMMA SpacedInit == Init => SpacedInv
  BY SpacedEmpty DEF Init, AgentInit, SpacedInv, SpacedBy, Unanswered, TurnPoints

\* What the invariants of the two queues say of the transcript.
LEMMA SpacedIsOneAtATime == SpacedInv => OneAtATime
  <1> SUFFICES ASSUME SpacedInv, throws = 0,
                      NEW i \in DOMAIN messages, NEW j \in DOMAIN messages,
                      i < j, IsUser(messages[i]), IsUser(messages[j]),
                      messages[i].via = messages[j].via,
                      \/ messages[i].via = "steer" /\ SteeringMode = "one-at-a-time"
                      \/ messages[i].via = "followUp" /\ FollowUpMode = "one-at-a-time"
               PROVE  \E k \in (i + 1)..(j - 1) : messages[k].role = "assistant"
    BY DEF OneAtATime
  <1> DEFINE via == messages[i].via
  <1>1. via \in Queued /\ ModeOf(via) = "one-at-a-time"
    BY DEF Queued, ModeOf
  <1>2. i \in Of(via, messages) /\ j \in Of(via, messages)
    BY DEF Of
  <1>3. Spaced(via, messages)
    BY <1>1 DEF SpacedInv, SpacedBy
  <1> QED
    BY <1>2, <1>3 DEF Spaced

\* Both queues are drained as the client set them up: their messages reach the
\* transcript in the order they were queued, and in one-at-a-time mode each is
\* answered before the next one of its queue is seen, in the loop and through
\* continue(), unless a listener threw.
THEOREM QueuesDisciplined == Spec => []QueueDiscipline
  <1>1. Init => SpacedInv
    BY SpacedInit
  <1>2. TypeInv /\ ControlInv /\ LineInv /\ SpacedInv /\ [Next]_vars => SpacedInv'
    BY SpacedNext
  <1>3. LineInv /\ SpacedInv => QueueDiscipline
    <2>1. LineInv => QueuedInOrder
      BY DEF LineInv, InLine, QueueOf, QueuedInOrder, Queued
    <2> QED
      BY <2>1, SpacedIsOneAtATime DEF QueueDiscipline
  <1> QED
    BY <1>1, <1>2, <1>3, TypeInvariant, ControlInvariant, LinesKept, PTL DEF Spec
=============================================================================
