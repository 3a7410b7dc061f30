------------------------------ MODULE AgentContext ------------------------------
(***************************************************************************)
(* One rollout between the agent and the model: the messages, the view of  *)
(* them that the model is shown, the tokens that a request is made of, and *)
(* the tokens that the learner gets of the whole                           *)
(* (phi_agents/agent/minimal_vllm_react_agent.py, rl/llm/qwen_25.py and    *)
(* qwen_3.py, rl/vllm_client.py, the loop of evals/appworld_evals.py and   *)
(* _get_tensors of rl/train.py).  The world that runs the code is          *)
(* ScenarioRunner's.  Characters are counted as tokens; a text is told     *)
(* apart by its author's turn.  A model stops with <|im_end|> (eom), as    *)
(* the chat template ends a message, or with another stop token (eot).     *)
(***************************************************************************)
EXTENDS Integers, FiniteSets, Sequences, SequencesExt, FiniteSetsExt

CONSTANTS
  Interactions,       \* max_interactions
  MaxModelLen, MaxNewTokens,
  LearningLimits,     \* values of learning_max_seq_len
  SearchRetries,      \* n_search_retries
  MaxOutput,          \* max_allowed_appworld_output
  LongestOutput,      \* bound: what the world prints
  MaxPromptLen, MaxMsgLen, MinBlocks   \* max_character_*, min_truncated_block_idx

ASSUME AgentAssumption ==
  /\ {Interactions, MaxNewTokens, SearchRetries, MinBlocks} \subseteq Nat \ {0}
  /\ {MaxModelLen, MaxPromptLen, MaxMsgLen, LongestOutput} \subseteq Nat
  /\ LearningLimits \subseteq Nat
  /\ MaxOutput \in Nat /\ MaxOutput >= 2

AgentSites == {"start", "observe", "generate", "choose", "execute", "over", "learn",
               "done", "failed", "refused"}

\* A token: what it is and, of a text, the turn it is from and its position.
Mark(kind) == <<kind, 0, 0>>
Text(turn, n) == [k \in 1 .. n |-> <<"text", turn, k>>]
Eom == Mark("eom")
Eot == Mark("eot")
StopTokens == {Eom, Eot}
Newline == Mark("newline")
Note == Mark("note")

VARIABLES
  agent,              \* where the rollout is
  family,             \* the class of the model: "qwen2.5" or "qwen3"
  appworld_style_truncation, search_method, learning_max,
  messages,
  output,             \* what the world printed last
  possible,           \* candidates of this turn, with the result of their test
  attempt,            \* generate calls of this turn
  interaction,
  asked,              \* by answer in `messages`: the tokens of its request
  learned             \* tokens, each with is_output

agentVars == <<agent, family, appworld_style_truncation, search_method, learning_max, messages, output,
               possible, attempt, interaction, asked, learned>>
agentSettings == <<family, appworld_style_truncation, search_method, learning_max>>

Message(role, content) == [role |-> role, content |-> content, generated |-> <<>>, stopped |-> FALSE,
                           cancelled |-> FALSE]
prompt_messages == <<Message("system", Text(0, 1)), Message("user", Text(0, 2))>>

AgentInit ==
  /\ agent = "start"
  /\ family = "qwen3" /\ appworld_style_truncation = FALSE /\ search_method = "none" /\ learning_max = 0
  /\ messages = <<>> /\ output = <<>> /\ possible = <<>> /\ attempt = 0 /\ interaction = 0
  /\ asked = <<>> /\ learned = <<>>

-----------------------------------------------------------------------------
\* The chat template of the tokenizer.  That of Qwen 2.5 puts a system message
\* in front of a conversation that has none.  (That of Qwen 3 is given no answers.)
rendered(m) == <<Mark(m.role)>> \o m.content \o <<Eom, Newline>>
ChatTemplate(conversation) ==
  LET preset == IF family = "qwen2.5" /\ conversation[1].role # "system"
                THEN rendered(Message("system", <<Note>>)) ELSE <<>>
  IN preset \o FlattenSeq([i \in DOMAIN conversation |-> rendered(conversation[i])])

\* _tokenize_with_tokenizer: a dummy system message, and its tokens taken off.
tokenized(conversation) ==
  LET dummy == Message("system", Text(0, 1))
  IN IF family = "qwen3" \/ conversation[1].role = "system" THEN ChatTemplate(conversation)
     ELSE SubSeq(ChatTemplate(<<dummy>> \o conversation), Len(ChatTemplate(<<dummy>>)) + 1,
                 Len(ChatTemplate(<<dummy>> \o conversation)))

\* Qwen 3 is run without thinking: its prompt ends with an empty block of thoughts.
GenerationPrompt == IF family = "qwen3" THEN <<Mark("assistant"), Mark("think")>> ELSE <<Mark("assistant")>>
Stops(m) == m.generated # <<>> /\ Last(m.generated) \in StopTokens
maybe_stop(m) == IF Stops(m) THEN <<>> ELSE <<Eom>>

IsPolicy(m) == m.role = "assistant"

\* get_tokens refuses an answer that neither a stop token nor the limit ended and,
\* of Qwen 2.5, one whose text is not what was generated.
Unended(m) == m.generated # <<>> /\ ~m.stopped /\ ~Stops(m)
Altered(m) == m.content # (IF Stops(m) THEN Front(m.generated) ELSE m.generated)
Refused(m) == IsPolicy(m) /\ (Unended(m) \/ (family = "qwen2.5" /\ Altered(m)))

\* get_tokens: what precedes the first answer of the policy at once, what follows
\* message by message, with the generated tokens as they are.
masked(tokens) == [k \in DOMAIN tokens |-> <<tokens[k], FALSE>>]
answer_tokens(m) == masked(GenerationPrompt) \o [k \in DOMAIN m.generated |-> <<m.generated[k], TRUE>>]
                    \o masked(maybe_stop(m) \o <<Newline>>)
message_tokens(m) == IF IsPolicy(m) THEN answer_tokens(m) ELSE masked(tokenized(<<m>>))
get_tokens(conversation) ==
  LET policy == {i \in DOMAIN conversation : IsPolicy(conversation[i])}
      first == IF policy = {} THEN Len(conversation) + 1 ELSE Min(policy)
  IN masked(tokenized(SubSeq(conversation, 1, first - 1)))
     \o FlattenSeq([k \in 1 .. Len(conversation) + 1 - first |-> message_tokens(conversation[first + k - 1])])
Bare(tokens) == [k \in DOMAIN tokens |-> tokens[k][1]]

-----------------------------------------------------------------------------
\* truncate_messages: the oldest observations are hidden, long ones are cut, the
\* oldest blocks are removed; each only while the view is too long.
Size(blocks) == FoldLeft(LAMBDA n, m : n + Len(m.content), 0, blocks)
TooLong(blocks) == Size(blocks) > MaxPromptLen

\* (Each goes over the blocks from the oldest, as far as it must; k: how many.)
hidden(blocks, k) ==
  [i \in DOMAIN blocks |-> IF i <= k /\ blocks[i].role = "user" THEN [blocks[i] EXCEPT !.content = <<Note>>]
                           ELSE blocks[i]]
hide(blocks) ==
  hidden(blocks, Min({k \in 0 .. Len(blocks) : ~TooLong(hidden(blocks, k)) \/ k >= Len(blocks) - MinBlocks}))

shortened(blocks, k) ==
  [i \in DOMAIN blocks |->
     IF i <= k /\ blocks[i].role = "user" /\ Len(blocks[i].content) > MaxMsgLen
     THEN [blocks[i] EXCEPT !.content = SubSeq(@, 1, Max({1, MaxMsgLen - 1})) \o <<Note>>] ELSE blocks[i]]
cut(blocks) ==
  shortened(blocks, Min({k \in 0 .. Len(blocks) : ~TooLong(shortened(blocks, k)) \/ k = Len(blocks)}))

remove(blocks) ==
  LET rest(k) == SubSeq(blocks, k + 1, Len(blocks))
  IN rest(Min({k \in 0 .. Len(blocks) : ~TooLong(rest(k)) \/ Len(rest(k)) <= MinBlocks}))

truncate_messages(history) ==
  LET prompt == SubSeq(history, 1, Len(prompt_messages))
      blocks == SubSeq(history, Len(prompt_messages) + 1, Len(history))
  IN prompt \o remove(cut(hide(blocks)))

view == IF appworld_style_truncation THEN truncate_messages(messages) ELSE messages

-----------------------------------------------------------------------------
Searched == search_method # "none"

Fresh ==
  /\ messages' = prompt_messages
  /\ output' = <<>> /\ possible' = <<>> /\ attempt' = 0 /\ interaction' = 0 /\ asked' = <<>>

\* (Search and truncation of the view are enumerated apart: they meet nowhere.)
AgentStarts ==
  /\ agent = "start"
  /\ agent' = "generate"
  /\ family' \in {"qwen2.5", "qwen3"}
  /\ appworld_style_truncation' \in BOOLEAN
  /\ search_method' \in {"none", "syntax", "syntax_reward"}
  /\ Searched' => ~appworld_style_truncation'
  /\ Fresh
  /\ UNCHANGED <<learning_max, learned>>

\* An output that is too long is cut at a newline or a space, and must then be
\* short enough; the reminder of the task follows it.
Observe ==
  /\ agent = "observe"
  /\ \/ /\ Len(output) <= MaxOutput
        /\ agent' = "generate"
        /\ messages' = Append(messages, Message("user", output \o <<Mark("reminder")>>))
     \/ /\ Len(output) > MaxOutput
        /\ agent' = "generate"
        /\ \E n \in 1 .. MaxOutput - 1 :
             messages' = Append(messages, Message("user", SubSeq(output, 1, n) \o <<Note, Mark("reminder")>>))
     \/ /\ Len(output) > MaxOutput
        /\ agent' = "failed"
        /\ UNCHANGED messages
  /\ UNCHANGED <<agentSettings, output, possible, attempt, interaction, asked, learned>>

\* Mutant of request: messages joined as they were generated, without the newline
\* that the template puts after each.
request_concatenated(conversation) ==
  LET tokens == Bare(get_tokens(conversation)) \o GenerationPrompt
  IN SelectSeq(tokens, LAMBDA t : t # Newline)
request(conversation) == Bare(get_tokens(conversation)) \o GenerationPrompt

\* generate asks for no more tokens than fit.
max_new(prompt_tokens) ==
  IF Len(prompt_tokens) + MaxNewTokens >= MaxModelLen THEN MaxModelLen - Len(prompt_tokens) - 1
  ELSE MaxNewTokens

\* The stream ends with a stop token, at the limit, with nothing, or where the
\* rollout is cancelled.
Answer(text, stop, limit, cancelled) ==
  LET generated == Text(interaction + 1, text) \o stop
  IN [role |-> "assistant", generated |-> generated, stopped |-> limit, cancelled |-> cancelled,
      content |-> IF cancelled THEN generated ELSE Text(interaction + 1, text)]

Completions(limit) ==
  {Answer(0, <<Eom>>, FALSE, FALSE), Answer(0, <<>>, FALSE, FALSE),
   Answer(limit, <<>>, TRUE, FALSE), Answer(limit - 1, <<Eom>>, TRUE, FALSE)}
    \cup {Answer(Min({2, limit - 1}), <<stop>>, FALSE, FALSE) : stop \in StopTokens}
    \cup {Answer(1, stop, FALSE, TRUE) : stop \in {<<>>, <<Eom>>}}

\* With search, a candidate is run on the state of the world before it, which is
\* put back.  (passes: the tests it makes pass.)
test_code(m) ==
  {[valid |-> valid, passes |-> passes] : valid \in {v \in BOOLEAN : IF Searched THEN m.content = <<>> => ~v ELSE v},
                                          passes \in IF search_method = "syntax_reward" THEN {0, 1} ELSE {0}}

\* A valid one ends the search unless all are to be compared.
LastAttempt(candidate) ==
  \/ ~Searched \/ attempt + 1 = SearchRetries
  \/ search_method = "syntax" /\ candidate # <<>> /\ candidate[1].valid

Generate ==
  /\ agent = "generate"
  /\ LET prompt_tokens == request(view)
         limit == max_new(prompt_tokens)
         goes_on(candidate) ==
           /\ possible' = possible \o candidate
           /\ attempt' = attempt + 1
           /\ agent' = IF LastAttempt(candidate) THEN "choose" ELSE "generate"
     IN IF \E i \in DOMAIN view : Refused(view[i]) THEN agent' = "refused" /\ UNCHANGED <<possible, attempt>>
        ELSE IF limit <= 1 THEN goes_on(<<>>)
        ELSE \E m \in Completions(limit) : \E result \in test_code(m) :
               goes_on(<<[message |-> m, valid |-> result.valid, passes |-> result.passes,
                          asked |-> prompt_tokens]>>)
  /\ UNCHANGED <<agentSettings, messages, output, interaction, asked, learned>>

\* choose_msg: the first valid one, or the first of those with the highest
\* pseudo-reward, or the first.
choose_msg ==
  LET valid == {i \in DOMAIN possible : possible[i].valid}
      best == {i \in valid : \A j \in valid : possible[j].passes <= possible[i].passes}
  IN possible[IF valid = {} THEN 1 ELSE IF search_method = "syntax_reward" THEN Min(best) ELSE Min(valid)]

\* The message joins the history; without one, the context is exhausted.
Choose ==
  /\ agent = "choose"
  /\ IF possible = <<>> THEN agent' = "over" /\ output' = <<Note>> /\ UNCHANGED <<messages, asked>>
     ELSE /\ messages' = Append(messages, choose_msg.message)
          /\ asked' = Append(asked, choose_msg.asked)
          /\ IF choose_msg.message.cancelled THEN agent' = "over" /\ output' = <<Note>>
             ELSE agent' = "execute" /\ UNCHANGED output
  /\ possible' = <<>> /\ attempt' = 0
  /\ UNCHANGED <<agentSettings, interaction, learned>>

\* The world runs the code; the episode ends with the task or the last interaction.
Execute ==
  /\ agent = "execute"
  /\ \E n \in {1, LongestOutput} : output' = Text(100 + interaction, n)
  /\ interaction' = interaction + 1
  /\ \/ agent' = "over"
     \/ interaction + 1 < Interactions /\ agent' = "observe"
  /\ UNCHANGED <<agentSettings, messages, possible, attempt, asked, learned>>

\* A crash of the world or of the request: another agent on another world, up to
\* max_retries times.
Retry ==
  /\ agent \in {"generate", "execute"}
  /\ \/ agent' = "generate" /\ Fresh
     \/ agent' = "failed" /\ UNCHANGED <<messages, output, possible, attempt, interaction, asked>>
  /\ UNCHANGED <<agentSettings, learned>>

\* The rollout: the history, what the world printed last, and their tokens, none
\* if it was cancelled.
WasCancelled == \E i \in DOMAIN messages : messages[i].cancelled
EpisodeTaken ==
  /\ agent = "over"
  /\ messages' = Append(messages, Message("user", output))
  /\ IF WasCancelled THEN agent' = "learn" /\ UNCHANGED learned
     ELSE IF \E i \in DOMAIN messages : Refused(messages[i]) THEN agent' = "refused" /\ UNCHANGED learned
     ELSE agent' = "learn" /\ learned' = get_tokens(messages')
  /\ UNCHANGED <<agentSettings, output, possible, attempt, interaction, asked>>

\* _get_tensors: what exceeds learning_max_seq_len is left out.
GetTensors ==
  /\ agent = "learn"
  /\ agent' = "done"
  /\ learning_max' \in LearningLimits
  /\ learned' = SubSeq(learned, 1, Min({learning_max', Len(learned)}))
  /\ UNCHANGED <<family, appworld_style_truncation, search_method, messages, output, possible, attempt,
                 interaction, asked>>

AgentNext == AgentStarts \/ Observe \/ Generate \/ Choose \/ Execute \/ Retry \/ EpisodeTaken \/ GetTensors
AgentSpec == AgentInit /\ [][AgentNext]_agentVars

-----------------------------------------------------------------------------
\* Answers and observations take turns after the prompt.
AnswerTo(j) == messages[Len(prompt_messages) + 2 * j - 1]
Outputs == {k \in DOMAIN learned : learned[k][2]}

\* What the model generated ends as the template ends a message.
EndsAsRendered(m) == IsPolicy(m) /\ Stops(m) => Last(m.generated) = Eom

(***************************************************************************)
(* The learner sees every answer in the context the model gave it in: the  *)
(* tokens of the request precede the generated ones, and those alone are   *)
(* trained on.  For Qwen 2.5 the whole reads as the chat template renders  *)
(* it, although it was put together message by message, unless the model   *)
(* stopped with another token than the template's.  This is for histories  *)
(* shown in full; a learner's limit no lower than the model's cuts nothing *)
(* that was generated.                                                     *)
(***************************************************************************)
TokensAreGenerated ==
  /\ agent # "refused"
  /\ agent = "done" /\ ~WasCancelled /\ ~appworld_style_truncation /\ learning_max >= MaxModelLen =>
       LET start(j) == Len(asked[j])
           own(j) == start(j) + 1 .. start(j) + Len(AnswerTo(j).generated)
       IN /\ \A j \in DOMAIN asked :
               IsPrefix(asked[j] \o AnswerTo(j).generated, Bare(learned))
          /\ Outputs = UNION {own(j) : j \in DOMAIN asked}
          /\ family = "qwen2.5" /\ (\A i \in DOMAIN messages : EndsAsRendered(messages[i])) =>
               IsPrefix(Bare(learned), ChatTemplate(messages))

\* The view the model is shown has the prompt and the latest blocks, every answer
\* in it whole; it is too long only when these blocks alone are.
ViewKeepsRecent ==
  agent = "generate" =>
    LET shown == Len(view) - Len(prompt_messages)
        all == Len(messages) - Len(prompt_messages)
        blocks == SubSeq(view, Len(prompt_messages) + 1, Len(view))
        original(i) == messages[Len(messages) - shown + i]
    IN /\ SubSeq(view, 1, Len(prompt_messages)) = prompt_messages
       /\ shown >= Min({MinBlocks, all})
       /\ \A i \in 1 .. shown : /\ IsPolicy(original(i)) => blocks[i] = original(i)
                                /\ i > shown - MinBlocks => blocks[i].content # <<Note>>
       /\ appworld_style_truncation /\ TooLong(blocks) =>
            /\ shown <= MinBlocks
            /\ \A i \in 1 .. shown : IsPolicy(blocks[i]) \/ Len(blocks[i].content) <= Max({2, MaxMsgLen})

ContextIsKept == TokensAreGenerated /\ ViewKeepsRecent
=================================================================================
