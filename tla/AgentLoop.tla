---- MODULE AgentLoop ----
(***************************************************************************)
(* The conversation of one model attempt (agent/loop.py, agent/tools.py):  *)
(* a transcript is a sequence of messages, each with who it is by, whether *)
(* it holds text, the tool calls it makes and the tool results it carries. *)
(* Anthropic models say why they stopped; OpenAI and Gemini models share   *)
(* one client, whose system prompt is the first message.                   *)
(***************************************************************************)
EXTENDS Integers, Sequences, FiniteSets, SequencesExt

CONSTANT ToolCalls  \* records [tool, path, hit]: hit, the files read so far hold a match

ASSUME ToolsAssumption == IsFiniteSet(ToolCalls)

Message(by, text, calls, results) ==
  [by |-> by, text |-> text, calls |-> calls, results |-> results]
Prompt == Message("user", TRUE, <<>>, <<>>)

Anthropic(provider) == provider = "anthropic"

\* What a conversation starts with.
Opening(provider) ==
  IF Anthropic(provider) THEN <<Prompt>> ELSE <<Message("system", TRUE, <<>>, <<>>), Prompt>>

Turns(sent) == Len(SelectSeq(sent, LAMBDA m : m.by = "assistant"))

\* execute_tool never raises: an invalid path, an unknown tool and a GitHub
\* error are texts the model reads.  A search that has a local match survives
\* a failing repository search.
ToolResult(call, github) ==
  LET known == call.tool # "unknown"
      fetch == call.tool \in {"fetch_file_content", "read_file_range"}
      local == call.tool = "search_codebase" /\ call.hit
  IN IF known /\ (github \/ local) /\ (fetch => call.path) THEN "content" ELSE "failed"

ResultsOf(calls, github) == [k \in DOMAIN calls |-> ToolResult(calls[k], github)]

\* What a model may reply: with no choice at all (OpenAI), a final text, a text
\* or calls that hit the token limit, or calls to execute (one, or one of each kind).
Replies(provider) ==
  LET calls == {<<>>, SetToSeq(ToolCalls)} \cup {<<c>> : c \in ToolCalls}
      reply == [stop : {"end", "limit", "tools", "other", "none"}, text : BOOLEAN, calls : calls]
  IN {r \in reply :
        /\ r.stop \in {"end", "other", "none"} => r.calls = <<>>
        /\ r.stop = "none" => ~Anthropic(provider) /\ ~r.text
        /\ r.stop = "tools" /\ ~Anthropic(provider) => r.calls # <<>>}

\* Mutant: the cut-off calls stay in the message.
AnthropicReplyUncut(sent, reply, github) ==
  LET said == Message("assistant", reply.text, reply.calls, <<>>)
      answer == Message("user", reply.calls = <<>>, <<>>, ResultsOf(reply.calls, github))
  IN IF reply.stop = "tools" THEN [sent |-> sent \o <<said, answer>>, over |-> FALSE]
     ELSE [sent |-> Append(sent, said), over |-> TRUE]

\* A reply cut at the limit keeps its text and loses its calls; a turn that
\* should have called tools and did not is told to go on.
AnthropicReply(sent, reply, github) ==
  LET said == Message("assistant", reply.text, reply.calls, <<>>)
      kept == Message("assistant", reply.text, <<>>, <<>>)
      answer == Message("user", reply.calls = <<>>, <<>>, ResultsOf(reply.calls, github))
  IN IF reply.stop \in {"end", "other"} THEN [sent |-> Append(sent, said), over |-> TRUE]
     ELSE IF reply.stop = "limit"
     THEN [sent |-> IF reply.text THEN Append(sent, kept) ELSE sent, over |-> TRUE]
     ELSE [sent |-> sent \o <<said, answer>>, over |-> FALSE]

\* Calls are executed whatever the finish reason, so the last may be cut.
OpenAIReply(sent, reply, github) ==
  LET said == Message("assistant", reply.text, reply.calls, <<>>)
      answer == Message("tool", FALSE, <<>>, ResultsOf(reply.calls, github))
  IN IF reply.stop = "none" THEN [sent |-> sent, over |-> TRUE]
     ELSE IF reply.calls # <<>> THEN [sent |-> sent \o <<said, answer>>, over |-> FALSE]
     ELSE [sent |-> Append(sent, said), over |-> TRUE]

AfterReply(provider, sent, reply, github) ==
  IF Anthropic(provider) THEN AnthropicReply(sent, reply, github)
  ELSE OpenAIReply(sent, reply, github)

\* An error is a quota error by its status, or by its words unless it says the
\* request is wrong (llm/errors.py).
InvalidRequest(error) == error.code = 400 \/ error.invalid
QuotaError(error) ==
  error.code = 429 \/ (~InvalidRequest(error) /\ error.quota)
====
