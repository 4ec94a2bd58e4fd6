------------------------------ MODULE McpServer ------------------------------
(***************************************************************************)
(* The MCP server of internal/mcp: it reads messages from its standard     *)
(* input and answers them on its standard output one at a time, either as  *)
(* lines of JSON or as frames with a Content-Length header, whichever it   *)
(* saw first.  What a tool call does to the workspace is in McpTools.      *)
(*                                                                         *)
(* An item is what a client writes at once, in the style it uses:          *)
(*   request, call, unknown   a method that is known, tools/call, another; *)
(*   notification             a method that is not answered;               *)
(*   batch                    an array, or text that is not JSON;          *)
(*   blank                    an empty line, or headers with no length;    *)
(*   stray                    a line that is neither JSON nor a length;    *)
(*   cut                      the start of a message, the last item.       *)
(*                                                                         *)
(* A tool call opens the workspace file and closes it again.  Only one     *)
(* process can have it open, and the wait for it has no limit.             *)
(***************************************************************************)
EXTENDS Naturals, Sequences

CONSTANTS
  Nil,
  PipeCap   \* items that fit into a pipe

ASSUME PipeAssumption == PipeCap \in Nat \ {0}

VARIABLES
  toServer,   \* the server's standard input, and
  noMore,     \* whether its other end is closed
  server,     \* the state of the process
  pipes,      \* its standard output and standard error
  fileHeld    \* whether another process has the workspace file open

serverVars == <<toServer, noMore, server, pipes, fileHeld>>

Outputs == {"stdout", "stderr"}

Requests  == {"request", "call", "unknown"}
Unparsed  == {"batch", "cut"}
ItemKinds == Requests \cup Unparsed \cup {"notification", "blank", "stray"}

Answer(id, kind, mode) == [id |-> id, kind |-> kind, mode |-> mode]

HasEnded == server.status \in {"exited", "failed"}

Exit == server' = [server EXCEPT !.status = "exited"] /\ UNCHANGED pipes

\* The error goes to standard error, and the exit status is 1.
Fail ==
  /\ server' = [server EXCEPT !.status = "failed"]
  /\ pipes' = [pipes EXCEPT !["stderr"] = Append(@, Nil)]

\* The kinds of answer at once.  An unknown tool and arguments that do not fit
\* are results marked as errors, and so is a tool that fails.
handleRequest_always(item) ==
  CASE item.kind = "request"      -> {"result"}
    [] item.kind = "call"         -> {"toolError"}
    [] item.kind = "unknown"      -> {"noMethod"}
    [] item.kind = "notification" -> {"result"}
handleRequest(item) ==
  CASE item.kind = "request"      -> {"result"}
    [] item.kind = "call"         -> {"toolError"}
    [] item.kind = "unknown"      -> {"noMethod"}
    [] item.kind = "notification" -> {}

\* The style of an answer: that of the first message the server understood.
WireMode_framed(mode) == "framed"
WireMode(mode) == mode

\* A message was read whole.  What cannot be parsed is answered in a frame,
\* whatever the style, and does not settle it.
Handle(item) ==
  IF item.kind \in Unparsed
  THEN server' = [server EXCEPT !.inHeaders = FALSE, !.status = "writing",
                                !.answer = Answer(Nil, "parseError", "framed")]
  ELSE LET mode == IF server.mode = Nil THEN item.style ELSE server.mode
           Answering(status, kind) ==
             server' = [server EXCEPT
                          !.inHeaders = FALSE, !.mode = mode, !.status = status,
                          !.answer = Answer(item.id, kind, WireMode(mode))]
       IN  \/ /\ handleRequest(item) = {}
              /\ server' = [server EXCEPT !.inHeaders = FALSE, !.mode = mode]
           \/ \E kind \in handleRequest(item) : Answering("writing", kind)
           \/ item.kind = "call" /\ Answering("calling", Nil)

\* A tool that is called waits until it has the workspace file to itself.
CallTool ==
  /\ server.status = "calling"
  /\ ~fileHeld
  /\ \E kind \in {"result", "toolError"} :
       server' = [server EXCEPT !.status = "writing", !.answer.kind = kind]
  /\ UNCHANGED <<toServer, noMore, pipes>>

\* The next item, taken from the pipe by what it starts with.
Take(kinds, style, inHeaders) ==
  /\ server.status = "reading"
  /\ toServer # <<>>
  /\ Head(toServer).kind \in kinds
  /\ Head(toServer).style \in style
  /\ server.inHeaders \in inHeaders
  /\ toServer' = Tail(toServer)
  /\ UNCHANGED noMore

Lines == {"plain"}
Frames == {"framed"}

\* A line that starts with a bracket is a message, unless headers are being
\* read; a cut one is read as if it were whole.
readPlainMessage ==
  /\ Take(ItemKinds \ {"blank", "stray"}, Lines, {FALSE})
  /\ Handle(Head(toServer))
  /\ UNCHANGED pipes

readFrame ==
  /\ Take(ItemKinds \ {"blank", "stray", "cut"}, Frames, BOOLEAN)
  /\ Handle(Head(toServer))
  /\ UNCHANGED pipes

\* Any other line is taken for a header, and so is every line after it.
SkipHeader ==
  /\ \/ Take({"stray"}, Lines \cup Frames, BOOLEAN)
     \/ Take(ItemKinds \ {"blank", "stray"}, Lines, {TRUE})
  /\ server' = [server EXCEPT !.inHeaders = TRUE]
  /\ UNCHANGED pipes

\* The headers end with no length among them.
NoLength ==
  /\ Take({"blank"}, Lines \cup Frames, BOOLEAN)
  /\ Fail

\* The input ends within a frame: within its payload, or before it.
CutFrame ==
  /\ Take({"cut"}, Frames, BOOLEAN)
  /\ Fail \/ Exit

EndOfInput ==
  /\ server.status = "reading"
  /\ toServer = <<>> /\ noMore
  /\ Exit
  /\ UNCHANGED <<toServer, noMore>>

\* The answer is flushed before the next message is read; a full pipe makes the
\* server wait.
writeMessage ==
  /\ server.status = "writing"
  /\ Len(pipes["stdout"]) < PipeCap
  /\ pipes' = [pipes EXCEPT !["stdout"] = Append(@, server.answer)]
  /\ server' = [server EXCEPT !.status = "reading", !.answer = Nil]
  /\ UNCHANGED <<toServer, noMore>>

Serve ==
  \/ readPlainMessage \/ readFrame \/ SkipHeader \/ NoLength \/ CutFrame
  \/ EndOfInput \/ CallTool \/ writeMessage

\* Another process opens the workspace or closes it, when it likes.
UseFile == fileHeld' = ~fileHeld /\ UNCHANGED <<toServer, noMore, server, pipes>>

ServerInit ==
  /\ toServer = <<>>
  /\ noMore = FALSE
  /\ server = [status |-> "reading", mode |-> Nil, inHeaders |-> FALSE, answer |-> Nil]
  /\ pipes = [s \in Outputs |-> <<>>]
  /\ fileHeld = FALSE

==============================================================================
