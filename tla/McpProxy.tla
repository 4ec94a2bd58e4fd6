------------------------------- MODULE McpProxy -------------------------------
(***************************************************************************)
(* A session of an MCP client with the server, through the logging proxy   *)
(* of cmd/omnethdb-mcp-proxy.  The proxy starts the server as its child    *)
(* and copies three streams, each in a goroutine of its own: what the      *)
(* client sends is logged and then passed on, what the server writes is    *)
(* passed on and then logged.  The main goroutine waits for the child and  *)
(* then for the three copies.                                              *)
(*                                                                         *)
(* The client reads whatever it is sent.  It may stop sending at any time, *)
(* the log may stop taking writes (a full disk), the proxy may be killed,  *)
(* and another process may have the workspace open.                        *)
(***************************************************************************)
EXTENDS McpServer, SequencesExt

CONSTANTS Sessions   \* what a client may send: sequences of kinds of item

ASSUME SessionsAssumption == Sessions \subseteq Seq(ItemKinds)

VARIABLES
  client,    \* its style, what it sent, whether it closed its end
  toProxy,   \* the proxy's standard input
  received,  \* what it read from the proxy's two outputs
  copiers,   \* the three goroutines
  log,       \* the whole entries of the log file, stream by stream,
  torn,      \* an entry of which only a part was written, and
  logWorks,  \* whether it can be written
  proxy,     \* the main goroutine, and how the process ended
  written    \* all that the server wrote, kept for the properties

logVars == <<log, torn, logWorks>>

vars == <<serverVars, client, toProxy, received, copiers, logVars, proxy, written>>

Streams == Outputs \cup {"stdin"}

IsRunning == proxy \in {"waiting", "reaped"}

-------------------------------------------------------------------------------
(* The client. *)

SentKinds == [n \in DOMAIN client.sent |-> client.sent[n].kind]

Send(kind) ==
  /\ IsRunning
  /\ ~client.closed
  /\ \E session \in Sessions : IsPrefix(Append(SentKinds, kind), session)
  /\ LET item == [kind |-> kind, id |-> Len(client.sent) + 1, style |-> client.style]
     IN  /\ client' = [client EXCEPT !.sent = Append(@, item), !.closed = kind = "cut"]
         /\ toProxy' = Append(toProxy, item)
  /\ UNCHANGED <<serverVars, received, copiers, logVars, proxy, written>>

CloseInput ==
  /\ ~client.closed
  /\ client' = [client EXCEPT !.closed = TRUE]
  /\ UNCHANGED <<serverVars, toProxy, received, copiers, logVars, proxy, written>>

-------------------------------------------------------------------------------
(* The copies. *)

Is(stream, status) == IsRunning /\ copiers[stream].status = status

Holding(stream, status, item) ==
  copiers' = [copiers EXCEPT ![stream] = [status |-> status, item |-> item]]

\* What a copy has in its buffer while it is busy with it.
Held(stream, status) ==
  IF copiers[stream].status = status THEN <<copiers[stream].item>> ELSE <<>>

\* An entry is a prefix, the item and a newline if it has none, written one after
\* the other.  The first of them that fails leaves what was written before it.
Log(stream) == /\ log' = [log EXCEPT ![stream] = Append(@, copiers[stream].item)]
               /\ UNCHANGED torn
Tear(stream) == /\ \E part \in {<<>>, <<copiers[stream].item>>} :
                     torn' = [torn EXCEPT ![stream] = part]
                /\ UNCHANGED log

\* The end of the copy of the input closes the child's; one mutant forgets to.
StopInput_leaveOpen == Holding("stdin", "done", Nil) /\ UNCHANGED noMore
StopInput == Holding("stdin", "done", Nil) /\ noMore' = TRUE

ReadInput ==
  /\ Is("stdin", "reading")
  /\ toProxy # <<>>
  /\ toProxy' = Tail(toProxy)
  /\ Holding("stdin", "logging", Head(toProxy))
  /\ UNCHANGED <<serverVars, client, received, logVars, proxy, written>>

\* An item that the log does not take is lost, and is the last one read; a mutant
\* passes it on all the same.
Tee_ignoreError ==
  /\ Holding("stdin", "writing", copiers["stdin"].item) /\ UNCHANGED noMore
  /\ IF logWorks THEN Log("stdin") ELSE Tear("stdin")
Tee ==
  IF logWorks
  THEN Log("stdin") /\ Holding("stdin", "writing", copiers["stdin"].item) /\ UNCHANGED noMore
  ELSE Tear("stdin") /\ StopInput

LogInput ==
  /\ Is("stdin", "logging")
  /\ Tee
  /\ UNCHANGED <<toServer, server, pipes, fileHeld, client, toProxy, received, logWorks,
                 proxy, written>>

PassInput ==
  /\ Is("stdin", "writing")
  /\ IF HasEnded
     THEN StopInput /\ UNCHANGED toServer
     ELSE /\ Len(toServer) < PipeCap
          /\ toServer' = Append(toServer, copiers["stdin"].item)
          /\ Holding("stdin", "reading", Nil)
          /\ UNCHANGED noMore
  /\ UNCHANGED <<server, pipes, fileHeld, client, toProxy, received, logVars, proxy, written>>

EndInput ==
  /\ Is("stdin", "reading")
  /\ toProxy = <<>> /\ client.closed
  /\ StopInput
  /\ UNCHANGED <<toServer, server, pipes, fileHeld, client, toProxy, received, logVars,
                 proxy, written>>

ReadOutput(stream) ==
  /\ Is(stream, "reading")
  /\ pipes[stream] # <<>>
  /\ pipes' = [pipes EXCEPT ![stream] = Tail(@)]
  /\ Holding(stream, "writing", Head(pipes[stream]))
  /\ UNCHANGED <<toServer, noMore, server, fileHeld, client, toProxy, received, logVars,
                 proxy, written>>

\* An item that was read is the client's before it is the log's.
CopyOutput_logFirst(stream) ==
  /\ received' = IF logWorks
                 THEN [received EXCEPT ![stream] = Append(@, copiers[stream].item)]
                 ELSE received
  /\ Holding(stream, "logging", copiers[stream].item)
CopyOutput(stream) ==
  /\ received' = [received EXCEPT ![stream] = Append(@, copiers[stream].item)]
  /\ Holding(stream, "logging", copiers[stream].item)

PassOutput(stream) ==
  /\ Is(stream, "writing")
  /\ CopyOutput(stream)
  /\ UNCHANGED <<serverVars, client, toProxy, logVars, proxy, written>>

\* If the log fails the copy stops, and nobody empties the pipe any more; in a
\* mutant the copy is a single read.
LogOutput_once(stream) ==
  /\ Is(stream, "logging")
  /\ IF logWorks THEN Log(stream) ELSE Tear(stream)
  /\ Holding(stream, "done", Nil)
  /\ UNCHANGED <<serverVars, client, toProxy, received, logWorks, proxy, written>>
LogOutput(stream) ==
  /\ Is(stream, "logging")
  /\ IF logWorks
     THEN Log(stream) /\ Holding(stream, "reading", Nil)
     ELSE Tear(stream) /\ Holding(stream, "done", Nil)
  /\ UNCHANGED <<serverVars, client, toProxy, received, logWorks, proxy, written>>

EndOutput(stream) ==
  /\ Is(stream, "reading")
  /\ pipes[stream] = <<>> /\ HasEnded
  /\ Holding(stream, "done", Nil)
  /\ UNCHANGED <<serverVars, client, toProxy, received, logVars, proxy, written>>

-------------------------------------------------------------------------------
(* The main goroutine, the child, and what may go wrong. *)

\* Wait closes the proxy's ends of the pipes as soon as the child is gone, with
\* what is still in them.
Wait ==
  /\ proxy = "waiting"
  /\ HasEnded
  /\ proxy' = "reaped"
  /\ pipes' = [s \in Outputs |-> <<>>]
  /\ toServer' = <<>>
  /\ UNCHANGED <<noMore, server, fileHeld, client, toProxy, received, copiers, logVars,
                 written>>

ProxyExit ==
  /\ proxy = "reaped"
  /\ \A s \in Streams : copiers[s].status = "done"
  /\ proxy' = IF server.status = "failed" THEN "failed" ELSE "ended"
  /\ UNCHANGED <<serverVars, client, toProxy, received, copiers, logVars, written>>

\* A server with nobody at the other end of its output dies of its next answer.
Child ==
  /\ IF proxy = "killed" /\ server.status = "writing"
     THEN Exit /\ UNCHANGED <<toServer, noMore>>
     ELSE Serve
  /\ written' = [s \in Outputs |->
                   written[s] \o SubSeq(pipes'[s], Len(pipes[s]) + 1, Len(pipes'[s]))]
  /\ UNCHANGED <<fileHeld, client, toProxy, received, copiers, logVars, proxy>>

OtherProcess ==
  UseFile /\ UNCHANGED <<client, toProxy, received, copiers, logVars, proxy, written>>

LogFails ==
  /\ logWorks /\ IsRunning
  /\ logWorks' = FALSE
  /\ UNCHANGED <<serverVars, client, toProxy, received, copiers, log, torn, proxy, written>>

\* What a copy had read is lost, and an entry may be left half written.
Kill ==
  /\ IsRunning
  /\ proxy' = "killed"
  /\ noMore' = TRUE
  /\ \/ UNCHANGED torn
     \/ \E s \in Streams : /\ copiers[s].status = "logging"
                           /\ torn' = [torn EXCEPT ![s] = <<copiers[s].item>>]
  /\ UNCHANGED <<toServer, server, pipes, fileHeld, client, toProxy, received, copiers, log,
                 logWorks, written>>

-------------------------------------------------------------------------------
ProxyInit ==
  /\ ServerInit
  /\ \E style \in Lines \cup Frames :
       client = [style |-> style, sent |-> <<>>, closed |-> FALSE]
  /\ toProxy = <<>>
  /\ received = [s \in Outputs |-> <<>>]
  /\ copiers = [s \in Streams |-> [status |-> "reading", item |-> Nil]]
  /\ log = [s \in Streams |-> <<>>]
  /\ torn = [s \in Streams |-> <<>>]
  /\ logWorks = TRUE
  /\ proxy = "waiting"
  /\ written = [s \in Outputs |-> <<>>]

InputCopy == ReadInput \/ LogInput \/ PassInput \/ EndInput

OutputCopy(stream) ==
  ReadOutput(stream) \/ PassOutput(stream) \/ LogOutput(stream) \/ EndOutput(stream)

MainGoroutine == Wait \/ ProxyExit

ProxyNext ==
  \/ \E kind \in ItemKinds : Send(kind)
  \/ CloseInput
  \/ InputCopy
  \/ \E s \in Outputs : OutputCopy(s)
  \/ MainGoroutine
  \/ Child
  \/ OtherProcess
  \/ LogFails
  \/ Kill

\* Every goroutine and the server are scheduled; nothing makes a client send
\* or close, a log fail, a proxy die or another process close the workspace.
ProxyFairness ==
  /\ WF_vars(InputCopy)
  /\ \A s \in Outputs : WF_vars(OutputCopy(s))
  /\ WF_vars(MainGoroutine)
  /\ WF_vars(Child)

ProxySpec == ProxyInit /\ [][ProxyNext]_vars /\ ProxyFairness

-------------------------------------------------------------------------------
(* Properties. *)

ReadableIn(answers, n) ==
  IF client.style = "framed"
  THEN answers[n].mode = "framed"
  ELSE answers[n].mode = "plain" /\ (n > 1 => answers[n - 1].mode = "plain")

\* The ids of the answers that the client can read, and of its requests.
AnsweredIDs ==
  LET answers == received["stdout"]
  IN  {answers[n].id : n \in {k \in DOMAIN answers : ReadableIn(answers, k)}}

RequestIDs == {n \in DOMAIN client.sent : client.sent[n].kind \in Requests}

\* The client sent messages only, whole and one at a time.
IsClean ==
  \A n \in DOMAIN client.sent : client.sent[n].kind \in Requests \cup {"notification"}

\* Nothing is lost, turned around or answered twice on the way from the client
\* through the proxy to the server and back: a clean client can read all that it
\* got, which is the answers to its first requests, in the order it made them.
AnswersFollowRequests ==
  IsClean =>
    LET answers == received["stdout"]
    IN  /\ \A n \in DOMAIN answers : ReadableIn(answers, n)
        /\ AnsweredIDs \subseteq RequestIDs
        /\ \A id \in RequestIDs, later \in AnsweredIDs :
             id < later => id \in AnsweredIDs
        /\ \A m, n \in DOMAIN answers : m < n => answers[m].id < answers[n].id

\* Whatever a client writes, it can read all the answers but one kind: the reply
\* to what the server could not parse is a frame even for a client of lines,
\* and makes the answer after it unreadable too.
UnreadableOnlyAfterParseError ==
  LET answers == received["stdout"]
  IN  \A n \in DOMAIN answers :
        ReadableIn(answers, n) \/ \E k \in {n - 1, n} \cap DOMAIN answers :
                                     answers[k].kind = "parseError"

\* Until the child is reaped nothing of its output is lost, doubled or turned
\* around: it has reached the client, it is in the copy's buffer, or in the pipe.
OutputIsWhole ==
  proxy = "waiting" =>
    \A s \in Outputs : written[s] = received[s] \o (Held(s, "writing") \o pipes[s])

\* The log tells the session.  All that was sent on to a running server is in it
\* whole, in order, and so is all that the client was given but the item last
\* passed on.  Only the last entry of a stream may be torn, and it is the next item.
LogAccountsForTheSession ==
  /\ IsPrefix(log["stdin"] \o torn["stdin"], client.sent)
  /\ ~HasEnded => IsSuffix(toServer \o Held("stdin", "writing"), log["stdin"])
  /\ \A s \in Outputs : /\ IsPrefix(log[s] \o torn[s], received[s])
                        /\ Len(received[s]) <= Len(log[s]) + 1

MaxItems == Max({Len(session) : session \in Sessions})

\* What keeps the server from taking a request of a client of lines for one, or
\* the client from reading the answer: a stray line before it, or a message that
\* cannot be parsed with no request in between.
IsGarbled(id) ==
  /\ client.style = "plain"
  /\ \E n \in DOMAIN client.sent :
       /\ n < id
       /\ \/ client.sent[n].kind = "stray"
          \/ /\ client.sent[n].kind \in Unparsed
             /\ ~\E k \in RequestIDs : n < k /\ k < id

\* What ends a session: the client closed its end, or sent headers with no length.
IsOver == client.closed \/ "blank" \in Range(SentKinds)

\* Each request of an open session is answered, whatever the client sent before it
\* unless that garbles it, while the log can be written and the proxy runs, if no
\* other process keeps the workspace open for ever or again and again.
EveryRequestIsAnswered ==
  <>[]~fileHeld =>
    \A id \in 1..MaxItems :
      id \in RequestIDs ~> \/ id \in AnsweredIDs
                           \/ IsGarbled(id) \/ IsOver
                           \/ ~logWorks \/ proxy = "killed"

\* A copy that has stopped leaves its pipe full, and the server may be waiting to
\* write to it: so may the proxy then, for the server.
IsStuck ==
  ~logWorks /\ \E s \in Outputs : copiers[s].status = "done" /\ Len(pipes[s]) = PipeCap

\* A client that closes its end ends the session, and so does a log that fails on
\* what it sends: the server stops and so does the proxy, unless the log failed
\* under an output that is full.  A proxy that is killed leaves no server behind,
\* whatever that was waiting for.  Both if no other process keeps the workspace.
SessionEnds ==
  <>[]~fileHeld => /\ client.closed ~> ~IsRunning \/ IsStuck
                   /\ (proxy = "killed") ~> HasEnded

==============================================================================
