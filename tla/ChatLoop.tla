------------------------------ MODULE ChatLoop ------------------------------
(***************************************************************************)
(* One chat completion in llamastack-proxy (main.go,                       *)
(* handleChatCompletion): tool messages that came without content are      *)
(* repaired, tools injected, and then the model is asked, the tools it     *)
(* calls are run and their results shown to it, for a limited number of    *)
(* rounds. Requests share nothing but the tool cache (ToolCache).          *)
(*                                                                         *)
(* A message is its role, its tool calls or the call it answers, and what  *)
(* there is of its content. The model is external, and so is the runtime   *)
(* of the tools: executeToolCall makes a text of whatever happens, an      *)
(* error of any kind included.                                             *)
(***************************************************************************)
EXTENDS Naturals, SequencesExt

CONSTANTS
  Id,            \* the ids of tool calls
  Histories,     \* the message lists a client sends
  MaxCalls,      \* bound: the calls in one answer of the model
  MaxIterations  \* maxIterations

Contents == {"text", "blank", "none"}   \* some text, a single space, the empty string or no field
Message ==
  [role: {"user", "assistant", "tool"}, content: Contents, calls: Seq(Id), answers: Seq(Id)]

ChatLoopAssumption ==
  MaxIterations \in Nat \ {0} /\ MaxCalls \in Nat /\ Histories \subseteq Seq(Message)

VARIABLES
  pc,            \* "idle" | the handler's next step | "answered"
  msgs,          \* chatReq.Messages
  given,         \* how many of them the client sent
  tools,         \* the request carries tools
  stream,        \* chatReq.Stream
  round,         \* i, the forwards so far
  ran,           \* history: the calls run, by message and place in it, and where the result is
  shown,         \* history: how many messages the model was last sent
  status         \* history: the answer, 0 for none yet

vars == <<pc, msgs, given, tools, stream, round, ran, shown, status>>

Assistant(content, calls) ==
  [role |-> "assistant", content |-> content, calls |-> calls, answers |-> <<>>]
ToolResult(content, id) ==
  [role |-> "tool", content |-> content, calls |-> <<>>, answers |-> <<id>>]

Reply(code) == pc' = "answered" /\ status' = code

-----------------------------------------------------------------------------
(* Before the model is asked *)

\* A request that is no POST or cannot be parsed is refused.
Receive ==
  /\ pc = "idle"
  /\ \/ Reply(400) /\ UNCHANGED <<msgs, given, stream>>
     \/ /\ pc' = "repair" /\ UNCHANGED status
        /\ msgs' \in Histories /\ given' = Len(msgs')
        /\ stream' \in BOOLEAN
  /\ UNCHANGED <<tools, round, ran, shown>>

Lacking == {i \in DOMAIN msgs : msgs[i].role = "tool" /\ msgs[i].content = "none"}

\* A call by the message it is in and its place there, and where its result stands.
Ran(t, k, at) == [call |-> <<t, k>>, at |-> at]

\* Tool message i answers the k-th call of message t, by its id.
Answers(i, t, k) ==
  /\ t \in 1..i - 1 /\ msgs[t].role = "assistant"
  /\ k \in DOMAIN msgs[t].calls /\ msgs[t].calls[k] = msgs[i].answers[1]

\* The call found for a tool message: the first with its id in the last message that has one.
CallFound(i, t, k) ==
  /\ Answers(i, t, k)
  /\ \A u \in 1..i - 1 : \A l \in DOMAIN msgs[u].calls :
       Answers(i, u, l) => u < t \/ (u = t /\ k <= l)

NoCallFound(i) == \A t \in 1..i - 1 : \A k \in DOMAIN msgs[t].calls : ~Answers(i, t, k)

\* The next tool message without content gets the result of running its tool again, an
\* error's text, or a sentence if no earlier call has its id.
Repair ==
  /\ pc = "repair"
  /\ IF Lacking = {} THEN pc' = "prepare" /\ UNCHANGED <<msgs, ran>>
     ELSE \E i \in Lacking :
            /\ \A j \in Lacking : i <= j
            /\ msgs' = [msgs EXCEPT ![i].content = "text"]
            /\ \/ \E t \in 1..i - 1 : \E k \in DOMAIN msgs[t].calls :
                    CallFound(i, t, k) /\ ran' = Append(ran, Ran(t, k, i))
               \/ NoCallFound(i) /\ UNCHANGED ran
            /\ UNCHANGED pc
  /\ UNCHANGED <<given, tools, stream, round, shown, status>>

\* The client's tools or injected ones, which may be none. With tools, no message may
\* lack the content field.
Prepare ==
  /\ pc = "prepare" /\ pc' = IF stream THEN "stream" ELSE "forward"
  /\ tools' \in BOOLEAN
  /\ msgs' = IF tools' THEN [i \in DOMAIN msgs |->
                               IF msgs[i].content = "none" THEN [msgs[i] EXCEPT !.content = "blank"]
                                                       ELSE msgs[i]]
                       ELSE msgs
  /\ UNCHANGED <<given, stream, round, ran, shown, status>>

\* handleStreamingRequest forwards once and copies what comes, its status and its tool
\* calls included, or answers 502 itself.
Stream ==
  /\ pc = "stream" /\ shown' = Len(msgs)
  /\ \E code \in {200, 400, 500, 502} : Reply(code)
  /\ UNCHANGED <<msgs, given, tools, stream, round, ran>>

-----------------------------------------------------------------------------
(* The loop *)

\* forwardToLlamaStack: it fails, or the model answers, or it calls tools. Its message
\* usually has no content then.
Forward ==
  /\ pc = "forward" /\ shown' = Len(msgs) /\ round' = round + 1
  /\ \/ Reply(500) /\ UNCHANGED msgs
     \/ Reply(200) /\ UNCHANGED msgs
     \/ /\ pc' = "run" /\ UNCHANGED status
        /\ \E content \in {"text", "none"}, n \in 1..MaxCalls : \E calls \in [1..n -> Id] :
             msgs' = Append(msgs, Assistant(content, calls))
  /\ UNCHANGED <<given, tools, stream, ran>>

\* The assistant's message the loop is at, and how many of its calls have a result.
Turn == SelectLastInSeq(msgs, LAMBDA m : m.role = "assistant")
Done == Len(msgs) - Turn

\* Mutant of Run: a tool that answers with an error is called a second time.
RunAgain ==
  /\ pc = "run"
  /\ msgs' = Append(msgs, ToolResult("text", msgs[Turn].calls[Done + 1]))
  /\ LET once == Append(ran, Ran(Turn, Done + 1, Len(msgs')))
     IN  ran' \in {once, Append(once, Ran(Turn, Done + 1, Len(msgs')))}
  /\ IF Done + 1 < Len(msgs[Turn].calls) THEN UNCHANGED <<pc, status>>
     ELSE IF round = MaxIterations THEN Reply(500)
     ELSE pc' = "forward" /\ UNCHANGED status
  /\ UNCHANGED <<given, tools, stream, round, shown>>

\* The next call is run and its result, never empty, appended; after the last one the
\* model is asked again, unless this was the last round.
Run ==
  /\ pc = "run"
  /\ msgs' = Append(msgs, ToolResult("text", msgs[Turn].calls[Done + 1]))
  /\ ran' = Append(ran, Ran(Turn, Done + 1, Len(msgs')))
  /\ IF Done + 1 < Len(msgs[Turn].calls) THEN UNCHANGED <<pc, status>>
     ELSE IF round = MaxIterations THEN Reply(500)
     ELSE pc' = "forward" /\ UNCHANGED status
  /\ UNCHANGED <<given, tools, stream, round, shown>>

-----------------------------------------------------------------------------

Init ==
  /\ pc = "idle" /\ msgs = <<>> /\ given = 0 /\ tools = FALSE /\ stream = FALSE
  /\ round = 0 /\ ran = <<>> /\ shown = 0 /\ status = 0

Handle == Repair \/ Prepare \/ Stream \/ Forward \/ Run
Next == Receive \/ Handle

\* Every call upstream returns, if only with an error (the client going away is one).
Spec == Init /\ [][Next]_vars /\ WF_vars(Handle)

-----------------------------------------------------------------------------
(* Properties *)

TypeOK ==
  /\ pc \in {"idle", "repair", "prepare", "stream", "forward", "run", "answered"}
  /\ msgs \in Seq(Message) /\ given \in 0..Len(msgs) /\ shown \in 0..Len(msgs)
  /\ tools \in BOOLEAN /\ stream \in BOOLEAN
  /\ round \in 0..MaxIterations
  /\ ran \in Seq([call: Nat \X Nat, at: DOMAIN msgs])
  /\ status \in {0, 200, 400, 500, 502} /\ (status # 0 <=> pc = "answered")

\* The list put before the model: each call it made is followed by its results, one per
\* call and in the order of the calls, also when ids repeat (chat templates need it).
CallsPaired ==
  pc \in {"forward", "stream"} =>
    \A i \in given + 1..Len(msgs) : \A k \in DOMAIN msgs[i].calls :
      i + k <= Len(msgs) /\ msgs[i + k].answers = <<msgs[i].calls[k]>>

\* No tool message without content reaches the model, whatever the client sent
\* ("ensure all tool messages have content", main.go).
ToolsHaveContent == pc \in {"forward", "stream"} => Lacking = {}

\* Before the model is asked again each call it made has been run and its result put in
\* its place. Nothing makes the proxy run one a second time; a call of the client's
\* history is run again for each of its results that came without content, and for
\* nothing else.
CallsRunOnce ==
  /\ pc = "forward" =>
       \A t \in given + 1..Len(msgs) : \A k \in DOMAIN msgs[t].calls : Ran(t, k, t + k) \in Range(ran)
  /\ \A i, j \in DOMAIN ran : i # j /\ ran[i].call = ran[j].call =>
       /\ ran[i].at # ran[j].at /\ {ran[i].at, ran[j].at} \subseteq 1..given
       /\ msgs[ran[i].at].answers[1] = msgs[ran[j].at].answers[1]

\* The model's answer is only passed on after it has seen the result of every tool run.
ResultsSeen == status = 200 => \A i \in DOMAIN ran : ran[i].at <= shown

\* Every list put before the model is complete, and so is its knowledge of what was run.
ResultsReachModel == CallsPaired /\ ToolsHaveContent /\ CallsRunOnce /\ ResultsSeen

=============================================================================
