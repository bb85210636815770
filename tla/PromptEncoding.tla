--------------------------- MODULE PromptEncoding ---------------------------
(***************************************************************************)
(* docker/overlay-025-vision/encoding_dsv4.py: how a conversation becomes  *)
(* a prompt, and how what the model wrote becomes a message again.         *)
(*                                                                         *)
(* A chat goes in turns.  The client adds messages; encode_messages()      *)
(* encodes them, the earlier turns being the context, "already encoded     *)
(* prefix"; the model continues the prompt; parse_message_from_completion_ *)
(* text() makes a message of that, and the conversation so far becomes the *)
(* context of the next turn.                                               *)
(*                                                                         *)
(* Text is a sequence of tokens <<kind, id>>.  Each message has a text of  *)
(* its own, its number, and a placeholder says which image it stands for.  *)
(***************************************************************************)
EXTENDS Integers, SequencesExt

CONSTANTS
  Roles,        \* roles a client uses
  MaxTurns,     \* turns of a chat
  MaxMessages,  \* messages of a turn
  Tasks,        \* "none", or a task of DS_TASK_SP_TOKENS a message may have
  WithImages,   \* BOOLEAN: messages may have an image
  Garbled       \* BOOLEAN: the model may leave out or repeat a token

VARIABLES
  thinking,     \* thinking_mode = "thinking"
  dropThinking, \* drop_thinking
  context,      \* the messages of earlier turns
  messages,     \* the messages of this turn
  written,      \* prompts and completions so far: what the KV cache holds
  images,       \* the image records returned so far
  turn,         \* turns begun
  asked,        \* the model is to answer
  open          \* calls of the last answer without a result

encodingVars == <<thinking, dropThinking, context, messages, written, images,
                  turn, asked, open>>

Tok(kind) == << <<kind, 0>> >>
Spoken(kind, id) == << <<kind, id>> >>

\* Blocks of a message's content.
Text(s) == [type |-> "text", text |-> s]
Image(i) == [type |-> "image", image |-> i]
Result(id, blocks) == [type |-> "tool_result", id |-> id, content |-> blocks]

Message(role, blocks) ==
  [role |-> role, blocks |-> blocks, tools |-> FALSE, task |-> "none",
   reasoning |-> <<>>, calls |-> <<>>, id |-> 0]

JoinAll(f(_), s) == FoldLeft(LAMBDA acc, x : acc \o f(x), <<>>, s)

-----------------------------------------------------------------------------
(* Images.                                                                 *)

\* _process_image_blocks(): a placeholder for each image, and the images.
Placed(b) ==
  CASE b.type = "image" -> Text(Spoken("image", b.image))
    [] b.type = "tool_result" ->
         Result(b.id, [k \in DOMAIN b.content |->
           IF b.content[k].type = "image"
             THEN Text(Spoken("image", b.content[k].image)) ELSE b.content[k]])
    [] OTHER -> b

ImagesIn(b) ==
  CASE b.type = "image" -> <<b.image>>
    [] b.type = "tool_result" ->
         JoinAll(LAMBDA c : IF c.type = "image" THEN <<c.image>> ELSE <<>>, b.content)
    [] OTHER -> <<>>

\* process_image_messages().
Processed(msgs) ==
  [i \in DOMAIN msgs |->
     [msgs[i] EXCEPT !.blocks = [k \in DOMAIN @ |-> Placed(@[k])]]]

ImageRecords(msgs) == JoinAll(LAMBDA m : JoinAll(ImagesIn, m.blocks), msgs)

-----------------------------------------------------------------------------
(* Preparing the messages.                                                 *)

\* merge_tool_messages(): there are no tool messages, they join the user's.
MergeToolMessages(msgs) ==
  LET Merge(merged, m) ==
        LET afterUser == merged # <<>> /\ Last(merged).role = "user"
            Extended(blocks) ==
              [merged EXCEPT ![Len(merged)].blocks = @ \o blocks]
            result == <<Result(m.id, m.blocks)>>
        IN CASE m.role = "tool" /\ afterUser -> Extended(result)
             [] m.role = "tool" /\ ~afterUser ->
                  Append(merged, Message("user", result))
             [] m.role = "user" /\ afterUser /\ Last(merged).task = "none" ->
                  Extended(m.blocks)
             [] OTHER -> Append(merged, m)
  IN FoldLeft(Merge, <<>>, msgs)

\* The places of a user message that hold tool results, filled in call order:
\* a stable sort, in which a result nobody called for counts as the first.
InCallOrder(blocks, calls) ==
  LET results == SelectSeq(blocks, LAMBDA b : b.type = "tool_result")
      Place(b) == IF Contains(calls, b.id) THEN SelectInSeq(calls, LAMBDA c : c = b.id) ELSE 1
      sorted == JoinAll(LAMBDA p : SelectSeq(results, LAMBDA b : Place(b) = p),
                        [p \in DOMAIN calls |-> p])
      Before(k) == Len(SelectSeq(SubSeq(blocks, 1, k), LAMBDA b : b.type = "tool_result"))
  IN IF Len(results) > 1 /\ calls # <<>>
       THEN [k \in DOMAIN blocks |->
               IF blocks[k].type = "tool_result" THEN sorted[Before(k)] ELSE blocks[k]]
       ELSE blocks

\* sort_tool_results_by_call_order().
SortToolResults(msgs) ==
  LET Calls(i) ==
        LET callers == {j \in 1..(i-1) : msgs[j].role = "assistant" /\ msgs[j].calls # <<>>}
        IN IF callers = {} THEN <<>>
           ELSE [k \in DOMAIN msgs[Max(callers)].calls |-> msgs[Max(callers)].calls[k].id]
  IN [i \in DOMAIN msgs |->
        IF msgs[i].role = "user"
          THEN [msgs[i] EXCEPT !.blocks = InCallOrder(@, Calls(i))]
          ELSE msgs[i]]

\* find_last_user_index(): 0 if there is none.
LastUser(msgs) == SelectLastInSeq(msgs, LAMBDA m : m.role \in {"user", "developer"})

\* _drop_thinking_messages().
DropThinkingMessages(msgs) ==
  LET last == LastUser(msgs)
      Dropped(kept, i) ==
        CASE msgs[i].role \in {"user", "system", "tool", "latest_reminder"} \/ i >= last ->
               Append(kept, msgs[i])
          [] msgs[i].role = "assistant" /\ i < last ->
               Append(kept, [msgs[i] EXCEPT !.reasoning = <<>>])
          [] OTHER -> kept
  IN FoldLeftDomain(Dropped, <<>>, msgs)

-----------------------------------------------------------------------------
(* Writing them.                                                           *)

\* encode_arguments_to_dsml() and the templates of a tool call.
CallTokens(call) ==
  Tok("invoke") \o call.name \o Tok(">")
    \o (IF call.params = <<>> THEN Tok("blank")
        ELSE JoinAll(LAMBDA p : Tok("param") \o Spoken("key", p.key)
                                  \o p.value \o Tok("/param") \o Tok(">"),
                     call.params))
    \o Tok("/invoke") \o Tok(">")

AssistantTokens(m, thinks) ==
  (IF thinks THEN m.reasoning \o Tok("/think") ELSE <<>>)
    \o JoinAll(LAMBDA b : b.text, m.blocks)
    \o (IF m.calls = <<>> THEN <<>>
        ELSE Tok("calls") \o Tok(">") \o JoinAll(CallTokens, m.calls) \o Tok("/calls"))
    \o Tok("eos")

BlockTokens(b) ==
  IF b.type = "text" THEN b.text
  ELSE Tok("result") \o JoinAll(LAMBDA c : c.text, b.content) \o Tok("/result")

\* render_message(): what opens the turn of the model, after the last message
\* before it.
Transition(m, i, last, drop) ==
  LET opens == IF thinking /\ (~drop \/ i >= last) THEN Tok("think") ELSE Tok("/think")
  IN CASE m.task = "action" ->
            Tok("Assistant") \o (IF thinking THEN Tok("think") ELSE Tok("/think"))
              \o Spoken("task", m.task)
       [] m.task \notin {"none", "action"} -> Spoken("task", m.task)
       [] m.task = "none" /\ m.role \in {"user", "developer"} -> Tok("Assistant") \o opens
       [] OTHER -> <<>>

\* render_message().
RenderMessage(i, msgs, drop) ==
  LET m == msgs[i]
      last == LastUser(msgs)
      texts == JoinAll(BlockTokens, m.blocks)
      tools == IF m.tools THEN Tok("tools") ELSE <<>>
      afterTask == i > 1 /\ msgs[i - 1].task # "none"
      body ==
        CASE m.role = "system" -> texts \o tools
          [] m.role = "developer" -> Tok("User") \o texts \o tools
          [] m.role = "user" -> Tok("User") \o texts
          [] m.role = "latest_reminder" -> Tok("reminder") \o texts
          [] m.role = "assistant" ->
               AssistantTokens(m, thinking /\ ~afterTask /\ (~drop \/ i > last))
  IN (IF i = 1 /\ thinking THEN Tok("effort") ELSE <<>>)
       \o body
       \o (IF i < Len(msgs) /\ msgs[i + 1].role \notin {"assistant", "latest_reminder"}
             THEN <<>> ELSE Transition(m, i, last, drop))

\* Fault: only what is new is put in call order.
SortedApart(msgs, ctx) == ctx \o SortToolResults(MergeToolMessages(msgs))

\* The calls of this turn's results are in the context.
SortedTogether(msgs, ctx) == SortToolResults(ctx \o MergeToolMessages(msgs))

\* _encode_messages_text().  sort_tool_results_by_call_order() changes the
\* blocks of the context it is given in place.
EncodeMessagesText(msgs, ctx) ==
  LET sorted == SortedTogether(msgs, ctx)
      now == SubSeq(sorted, Len(ctx) + 1, Len(sorted))
      before == SortToolResults(MergeToolMessages(SubSeq(sorted, 1, Len(ctx))))
      full == before \o now
      drop == dropThinking /\ \A i \in DOMAIN full : ~full[i].tools
      shown == IF thinking /\ drop THEN DropThinkingMessages(full) ELSE full
      skip == IF thinking /\ drop THEN Len(DropThinkingMessages(before)) ELSE Len(before)
  IN (IF before = <<>> THEN Tok("bos") ELSE <<>>)
       \o FlattenSeq([k \in 1..(Len(shown) - skip) |-> RenderMessage(skip + k, shown, drop)])

\* encode_messages(): the prompt; its images are ImageRecords(msgs).
EncodeMessages(msgs, ctx) == EncodeMessagesText(Processed(msgs), Processed(ctx))

-----------------------------------------------------------------------------
(* Reading what the model wrote.                                           *)

Rejected == [ok |-> FALSE]

\* _read_until_stop().
ReadUntilStop(text, i, stops) ==
  LET hits == {j \in i..Len(text) : text[j][1] \in stops}
      at == IF hits = {} THEN Len(text) + 1 ELSE Min(hits)
  IN [content |-> SubSeq(text, i, at - 1),
      stop |-> IF hits = {} THEN "none" ELSE text[at][1],
      next |-> IF hits = {} THEN at ELSE at + 1]

\* The inner loop of parse_tool_calls(): a value is any text.
RECURSIVE ParseParams(_, _, _)
ParseParams(text, read, params) ==
  LET param == ReadUntilStop(text, read.next, {"/param"})
      after == ReadUntilStop(text, param.next, {"param", "/invoke"})
      new == [key |-> param.content[1][2], value |-> Tail(param.content)]
  IN IF read.stop # "param"
       THEN [ok |-> TRUE, next |-> read.next, params |-> params]
     ELSE IF \/ param.stop = "none" \/ param.content = <<>>
             \/ param.content[1][1] # "key"
             \/ \E k \in DOMAIN params : params[k].key = new.key
             \/ after.content # Tok(">")
       THEN Rejected
     ELSE ParseParams(text, after, Append(params, new))

\* The text of a call's name, up to the end of its line or an empty one; empty
\* if it is no name.
NameOf(text) ==
  LET names == SelectSeq(text, LAMBDA t : t[1] = "name")
  IN IF \E end \in {Tok(">"), Tok(">") \o Tok("blank")} : text = names \o end
       THEN names ELSE <<>>

\* parse_tool_calls(): the server gives the calls their ids.
RECURSIVE ParseToolCalls(_, _, _)
ParseToolCalls(text, i, calls) ==
  LET head == ReadUntilStop(text, i, {"invoke", "/calls"})
      name == ReadUntilStop(text, head.next, {"param", "/invoke"})
      read == ParseParams(text, name, <<>>)
  IN IF i > Len(text) THEN [ok |-> TRUE, next |-> i, calls |-> calls]
     ELSE IF head.content # Tok(">") \/ head.stop = "none" THEN Rejected
     ELSE IF head.stop = "/calls" THEN [ok |-> TRUE, next |-> head.next, calls |-> calls]
     ELSE IF NameOf(name.content) = <<>> \/ ~read.ok THEN Rejected
     ELSE ParseToolCalls(text, read.next,
            Append(calls, [name |-> NameOf(name.content), params |-> read.params,
                           id |-> 10 * turn + Len(calls) + 1]))

\* parse_message_from_completion_text().
ParseMessage(text, thinks) ==
  LET reasoning == ReadUntilStop(text, 1, {"/think", "calls"})
      summary == ReadUntilStop(text, IF thinks THEN reasoning.next ELSE 1, {"eos", "calls"})
      read == IF summary.stop = "calls" THEN ParseToolCalls(text, summary.next, <<>>)
              ELSE [ok |-> summary.stop = "eos", next |-> summary.next, calls |-> <<>>]
      tail == ReadUntilStop(text, read.next, {"eos"})
      plain == (IF thinks THEN reasoning.content ELSE <<>>) \o summary.content
  IN IF \/ thinks /\ reasoning.stop # "/think"
        \/ ~read.ok
        \/ summary.stop = "calls" /\ (tail.content # <<>> \/ tail.next # Len(text) + 1)
        \/ summary.stop = "eos" /\ read.next # Len(text) + 1
        \/ \E k \in DOMAIN plain : plain[k][1] \in {"bos", "eos", "think", "/think"}
     THEN Rejected
     ELSE [ok |-> TRUE,
           message |-> [Message("assistant", <<Text(summary.content)>>) EXCEPT
                          !.reasoning = IF thinks THEN reasoning.content ELSE <<>>,
                          !.calls = read.calls]]

-----------------------------------------------------------------------------
(* The chat.                                                               *)

said == context \o messages
number == Len(said) + 1
LastRole == IF said = <<>> THEN "none" ELSE Last(said).role
Words == Text(Spoken("text", number))
Contents == {<<Words>>} \cup IF WithImages THEN {<<Words, Image(number)>>} ELSE {}

EncodingInit ==
  /\ thinking \in BOOLEAN /\ dropThinking \in BOOLEAN
  /\ context = <<>> /\ messages = <<>>
  /\ written = <<>> /\ images = <<>>
  /\ turn = 1 /\ asked = FALSE /\ open = {}

Say(m) ==
  /\ ~asked /\ turn <= MaxTurns /\ Len(messages) < MaxMessages
  /\ messages' = Append(messages, m)
  /\ UNCHANGED <<thinking, dropThinking, context, written, images, turn, asked>>

\* The system message comes first, with the tools if there are any.
SayHow ==
  /\ said = <<>>
  /\ \E tools \in BOOLEAN : Say([Message("system", <<Words>>) EXCEPT !.tools = tools])
  /\ UNCHANGED open

SayUser ==
  /\ open = {}
  /\ \E blocks \in Contents, task \in Tasks :
       Say([Message("user", blocks) EXCEPT !.task = task])
  /\ UNCHANGED open

SayDeveloper ==
  /\ open = {} /\ "developer" \in Roles
  /\ Say(Message("developer", <<Words>>))
  /\ UNCHANGED open

SayReminder ==
  /\ "latest_reminder" \in Roles /\ LastRole = "user"
  /\ Say(Message("latest_reminder", <<Words>>))
  /\ UNCHANGED open

\* Results come in any order, as tool messages or as blocks of a user message.
SayResult ==
  \E id \in open, blocks \in Contents :
    /\ \/ Say([Message("tool", blocks) EXCEPT !.id = id])
       \/ Say(Message("user", <<Result(id, blocks)>>))
    /\ open' = open \ {id}

\* load_cases(), encode_case(): encode what is new, the rest being context.
Ask ==
  /\ ~asked /\ messages # <<>> /\ open = {} /\ LastRole # "system"
  /\ written' = written \o EncodeMessages(messages, context)
  /\ images' = images \o ImageRecords(messages)
  /\ asked' = TRUE
  /\ UNCHANGED <<thinking, dropThinking, context, messages, turn, open>>

\* What the model may write: words, or calls with up to two parameters, which
\* may have one key twice.
Calling(name, keys) ==
  [name |-> Spoken("name", name),
   params |-> [k \in DOMAIN keys |-> [key |-> keys[k], value |-> Spoken("arg", k)]]]

Answers(thinks) ==
  {[Message("assistant", <<Text(Spoken("text", number))>>) EXCEPT
      !.reasoning = IF thinks THEN Spoken("reasoning", number) ELSE <<>>,
      !.calls = calls] :
   calls \in {<<>>, <<Calling(1, <<1, 2>>)>>, <<Calling(1, <<1, 1>>)>>,
              <<Calling(1, <<>>), Calling(2, <<1>>)>>}}

\* A completion ends with eos; before that a token may be missing or repeated.
Completions(text) ==
  {text} \cup IF Garbled
    THEN UNION {{RemoveAt(text, k), InsertAt(text, k, text[k])} : k \in 1..(Len(text) - 1)}
    ELSE {}

Reply ==
  LET thinks == thinking /\ Last(MergeToolMessages(messages)).task = "none"
  IN /\ asked
     /\ \E answer \in Answers(thinks) :
        \E text \in Completions(AssistantTokens(answer, thinks)) :
          LET read == ParseMessage(text, thinks)
          IN /\ read.ok
             /\ written' = written \o text
             /\ context' = Append(said, read.message)
             /\ open' = {read.message.calls[k].id : k \in DOMAIN read.message.calls}
     /\ messages' = <<>> /\ asked' = FALSE /\ turn' = turn + 1
     /\ UNCHANGED <<thinking, dropThinking, images>>

EncodingNext ==
  SayHow \/ SayUser \/ SayDeveloper \/ SayReminder \/ SayResult \/ Ask \/ Reply

EncodingSpec == EncodingInit /\ [][EncodingNext]_encodingVars

-----------------------------------------------------------------------------
Without(kinds, tokens) == SelectSeq(tokens, LAMBDA t : t[1] \notin kinds)

\* A developer has been answered, and a later user's message or tool result
\* leaves the developer's message out of the conversation: see TurnIsRendered.
DeveloperLost ==
  LET merged == MergeToolMessages(context)
  IN /\ thinking /\ dropThinking
     /\ \A i \in DOMAIN merged : ~merged[i].tools
     /\ \E i \in 1..(LastUser(merged) - 1) :
          merged[i].role = "developer" /\ merged[i + 1].role = "assistant"

(***************************************************************************)
(* The context is an already encoded prefix (539): encoding turn by turn,  *)
(* with what the model wrote in between, gives the prompt of the whole     *)
(* conversation, so that a cached prefix can be used again.  Empty lines   *)
(* of a call without parameters aside; where reasoning is dropped from     *)
(* earlier turns, what is left is the same.  The premise is that no        *)
(* developer's message is dropped after it was answered.                   *)
(***************************************************************************)
TurnsAddUp ==
  LET dropped == {"blank"} \cup IF thinking /\ dropThinking
                                 THEN {"reasoning", "think", "/think"} ELSE {}
  IN (context # <<>> /\ messages = <<>> /\ ~DeveloperLost) =>
       Without(dropped, written) = Without(dropped, EncodeMessages(context, <<>>))

(***************************************************************************)
(* _drop_thinking_messages() says (594) that messages of a user, system,   *)
(* tool or latest_reminder are always kept, and its caller (569-570) that  *)
(* it counts again how many to render: every such message of a turn is in  *)
(* the prompt that the turn was asked with.                                *)
(***************************************************************************)
TurnIsRendered ==
  asked =>
    \A i \in DOMAIN messages :
      messages[i].role \in {"user", "system", "tool", "latest_reminder"} =>
        <<"text", Len(context) + i>> \in Range(written)

=============================================================================
