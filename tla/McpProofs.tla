------------------------------- MODULE McpProofs -------------------------------
(***************************************************************************)
(* A session of an MCP client through the logging proxy, for every set of  *)
(* sessions and every size of the pipes: whatever the order in which the   *)
(* copies, the server, the main goroutine and the client run, whenever the *)
(* log fails or the proxy dies, answers come whole, in order and readable, *)
(* and the log accounts for what was said.                                 *)
(*                                                                         *)
(* What was sent is at every moment the log of the input and what still    *)
(* waits for the proxy; that log is what the server took, its pipe and the *)
(* item in hand.  What the server wrote is what the client got, what a     *)
(* copy has read, and what is still in the pipe.  The server has answered  *)
(* the requests among the items it took, but for the answer it owes.       *)
(***************************************************************************)
EXTENDS McpProxy, SequenceTheorems, TLAPS

-------------------------------------------------------------------------------
(* The invariant. *)

Styles == Lines \cup Frames

Items(style) == [kind : ItemKinds, id : Nat, style : {style}]

\* All answers have the style of the client, but the replies to what could not
\* be parsed.  The kind of an answer is Nil while the tool is at work.
AnswersIn(style) ==
  {answer \in [id : Nat \cup {Nil},
               kind : {Nil, "result", "toolError", "noMethod", "parseError"},
               mode : Styles] :
     answer.mode = style \/ (answer.kind = "parseError" /\ answer.mode = "framed")}

Texts(style, s) == IF s = "stdout" THEN AnswersIn(style) ELSE {Nil}

\* The server owes an answer: a tool is at work, or it is writing.
Due == server.status \in {"calling", "writing"}

ServerTyped(style) ==
  /\ toServer \in Seq(Items(style))
  /\ server \in [status : {"reading", "calling", "writing", "exited", "failed"},
                 mode : {Nil, style}, inHeaders : BOOLEAN,
                 answer : AnswersIn(style) \cup {Nil}]
  /\ Due => server.answer \in AnswersIn(style)
  /\ server.status = "calling" => server.answer.mode = style
  /\ DOMAIN pipes = Outputs
  /\ \A s \in Outputs : pipes[s] \in Seq(Texts(style, s))

ClientTyped(style) ==
  /\ style \in Styles
  /\ client \in [style : {style}, sent : Seq(Items(style)), closed : BOOLEAN]
  /\ toProxy \in Seq(Items(style))
  /\ DOMAIN received = Outputs
  /\ \A s \in Outputs : received[s] \in Seq(Texts(style, s))

CopiesTyped(style) ==
  /\ DOMAIN copiers = Streams
  /\ \A s \in Streams : DOMAIN copiers[s] = {"status", "item"}
  /\ copiers["stdin"].status \in {"reading", "logging", "writing", "done"}
  /\ copiers["stdin"].status \in {"logging", "writing"} =>
       copiers["stdin"].item \in Items(style)
  /\ \A s \in Outputs :
       /\ copiers[s].status \in {"reading", "writing", "logging", "done"}
       /\ copiers[s].status \in {"writing", "logging"} =>
            copiers[s].item \in Texts(style, s)

LogTyped(style) ==
  /\ DOMAIN log = Streams
  /\ DOMAIN torn = Streams
  /\ log["stdin"] \in Seq(Items(style)) /\ torn["stdin"] \in Seq(Items(style))
  /\ written = [s \in Outputs |-> written[s]]
  /\ \A s \in Outputs : log[s] \in Seq(Texts(style, s))
                        /\ torn[s] \in Seq(Texts(style, s))
                        /\ written[s] \in Seq(Texts(style, s))

Typed(style) ==
  /\ ServerTyped(style) /\ ClientTyped(style)
  /\ CopiesTyped(style) /\ LogTyped(style)

\* The client numbers what it sends.
SentNumbered == \A n \in DOMAIN client.sent : client.sent[n].id = n

\* The item that the copy of the input has read and not yet logged, the one it
\* has logged and not yet passed on, and the one an output's copy has read.
InEar == Held("stdin", "logging")
InHand == Held("stdin", "writing")
InMouth(s) == Held(s, "writing")

\* What the copy of the input took is logged but for the item in its ear, and it
\* took the first items sent.
InputLogged(style) ==
  \E rest \in Seq(Items(style)) :
    /\ client.sent = log["stdin"] \o rest
    /\ copiers["stdin"].status # "done" => rest = InEar \o toProxy

\* A torn entry of the input is the next item sent.
InputTorn(style) ==
  torn["stdin"] # <<>> =>
    \E rest \in Seq(Items(style)) : client.sent = (log["stdin"] \o torn["stdin"]) \o rest

\* A running server has taken all that was logged but the end.
InputPassed(style) ==
  ~HasEnded => \E taken \in Seq(Items(style)) :
                 log["stdin"] = taken \o (toServer \o InHand)

\* What the server wrote is received first, then comes what the copy has read, and
\* the rest is in the pipe.
OutputPassed(style) ==
  \A s \in Outputs :
    \E rest \in Seq(Texts(style, s)) :
      /\ written[s] = received[s] \o (InMouth(s) \o rest)
      /\ proxy = "waiting" => rest = pipes[s]

\* Nothing is left to pass on when the child is reaped.
ReapedIsOver == proxy = "reaped" => HasEnded /\ \A s \in Outputs : pipes[s] = <<>>

\* The log of an output is what was received, but for the item in hand or lost.
OutputLogged(style) ==
  \A s \in Outputs :
    /\ copiers[s].status \in {"reading", "writing"} => received[s] = log[s]
    /\ copiers[s].status = "logging" =>
         received[s] = Append(log[s], copiers[s].item)
    /\ copiers[s].status = "done" =>
         \/ received[s] = log[s]
         \/ \E text \in Texts(style, s) : received[s] = Append(log[s], text)

\* A torn entry of an output is the last item received.
OutputTorn == \A s \in Outputs : torn[s] # <<>> => received[s] = log[s] \o torn[s]

\* Nothing follows a torn entry.
TornIsLast ==
  \A s \in Streams : torn[s] # <<>> => ~IsRunning \/ copiers[s].status = "done"

\* A session of a client of a style.
SessionOf(style) ==
  /\ Typed(style)
  /\ SentNumbered
  /\ InputLogged(style)
  /\ InputTorn(style)
  /\ InputPassed(style)
  /\ OutputPassed(style)
  /\ ReapedIsOver
  /\ OutputLogged(style)
  /\ OutputTorn
  /\ TornIsLast

-------------------------------------------------------------------------------
(* Sequences. *)

\* A first part is a prefix.
LEMMA FirstIsPrefix ==
  ASSUME NEW S, NEW s \in Seq(S), NEW t \in Seq(S)
  PROVE  IsPrefix(s, s \o t)
<1>1. s \o t \in Seq(S) /\ Len(s \o t) = Len(s) + Len(t)
  BY ConcatProperties
<1>2. Len(s) \in Nat /\ Len(t) \in Nat
  BY LenProperties
<1>3. \A i \in 1 .. Len(s) : (s \o t)[i] = s[i]
  BY <1>2, ConcatProperties
<1>4. \A i \in 1 .. Len(s) : s[i] \in S /\ (s \o t)[i] \in S
  BY <1>3, ElementOfSeq
<1>. DEFINE u == SubSeq(s, 1, Len(s))
            v == SubSeq(s \o t, 1, Len(s))
<1>5. /\ u \in Seq(S) /\ Len(u) = Len(s)
      /\ \A i \in 1 .. Len(s) : u[i] = s[i]
  <2>1. u = s
    BY SubSeqFull
  <2>. QED  BY <2>1
<1>6. /\ v \in Seq(S)
      /\ Len(v) = IF 1 <= Len(s) THEN Len(s) - 1 + 1 ELSE 0
      /\ \A i \in 1 .. Len(s) - 1 + 1 : v[i] = (s \o t)[1 + i - 1]
  BY <1>2, <1>4, SubSeqProperties
<1>7. Len(v) = Len(s)
  BY <1>2, <1>6
<1>8. \A i \in 1 .. Len(s) : v[i] = s[i]
  BY <1>2, <1>3, <1>6
<1>. HIDE DEF u, v
<1>9. u = v
  BY <1>5, <1>6, <1>7, <1>8, SeqEqual
<1>. QED  BY <1>1, <1>2, <1>9 DEF IsPrefix, u, v

\* A last part is a suffix.
LEMMA LastIsSuffix ==
  ASSUME NEW S, NEW s \in Seq(S), NEW t \in Seq(S)
  PROVE  IsSuffix(t, s \o t)
<1>. DEFINE w == s \o t
<1>1. w \in Seq(S) /\ Len(w) = Len(s) + Len(t)
  BY ConcatProperties
<1>2. Len(s) \in Nat /\ Len(t) \in Nat
  BY LenProperties
<1>3. \A i \in 1 .. Len(t) : w[Len(s) + i] = t[i]
  BY <1>2, ConcatProperties
<1>. HIDE DEF w
<1>4. \A i \in 1 .. Len(t) : t[i] \in S
  BY ElementOfSeq
<1>5. \A i \in 1 .. Len(w) : w[i] \in S
  BY <1>1, ElementOfSeq
<1>. DEFINE u == Reverse(t)
            v == Reverse(w)
<1>6. u \in [1 .. Len(t) -> S]
  BY <1>2, <1>4 DEF Reverse
<1>7. v \in [1 .. Len(w) -> S]
  BY <1>1, <1>2, <1>5 DEF Reverse
<1>8. u \in Seq(S) /\ Len(u) = Len(t)
  BY <1>2, <1>6, SeqDef
<1>9. v \in Seq(S) /\ Len(v) = Len(w)
  BY <1>1, <1>2, <1>7, SeqDef
<1>10. \A i \in 1 .. Len(t) : v[i] = u[i]
  <2>. SUFFICES ASSUME NEW i \in 1 .. Len(t)
       PROVE  v[i] = u[i]
    OBVIOUS
  <2>1. u[i] = t[(Len(t) - i) + 1] /\ (Len(t) - i) + 1 \in 1 .. Len(t)
    BY <1>2 DEF Reverse
  <2>2. v[i] = w[(Len(w) - i) + 1]
    BY <1>1, <1>2 DEF Reverse
  <2>3. (Len(w) - i) + 1 = Len(s) + ((Len(t) - i) + 1)
    BY <1>1, <1>2
  <2>. QED  BY <1>3, <2>1, <2>2, <2>3
<1>. HIDE DEF u, v
<1>11. SubSeq(u, 1, Len(u)) = u
  BY <1>8, SubSeqFull
<1>12. /\ SubSeq(v, 1, Len(u)) \in Seq(S)
       /\ Len(SubSeq(v, 1, Len(u))) = IF 1 <= Len(u) THEN Len(u) - 1 + 1 ELSE 0
       /\ \A i \in 1 .. Len(u) - 1 + 1 : SubSeq(v, 1, Len(u))[i] = v[1 + i - 1]
  <2>1. \A i \in 1 .. Len(u) : v[i] \in S
    BY <1>8, <1>10, ElementOfSeq
  <2>. QED  BY <1>2, <1>8, <2>1, SubSeqProperties
<1>13. Len(SubSeq(v, 1, Len(u))) = Len(u)
  BY <1>2, <1>8, <1>12
<1>14. \A i \in 1 .. Len(u) : SubSeq(v, 1, Len(u))[i] = u[i]
  BY <1>2, <1>8, <1>10, <1>12
<1>15. SubSeq(v, 1, Len(u)) = u
  BY <1>8, <1>12, <1>13, <1>14, SeqEqual
<1>16. IsPrefix(u, v)
  BY <1>1, <1>2, <1>8, <1>9, <1>11, <1>15 DEF IsPrefix
<1>. QED  BY <1>16 DEF IsSuffix, u, v, w

\* What is taken from the front of a queue was its first part.
LEMMA HeadAndTail ==
  ASSUME NEW S, NEW s \in Seq(S), s # <<>>
  PROVE  /\ Head(s) \in S /\ Tail(s) \in Seq(S)
         /\ <<Head(s)>> \in Seq(S)
         /\ s = <<Head(s)>> \o Tail(s)
<1>1. Head(s) \in S /\ Tail(s) \in Seq(S)
  BY HeadTailProperties
<1>2. Len(s) \in Nat /\ Len(s) >= 1
  BY EmptySeq, LenProperties
<1>3. SubSeq(s, 1, Len(s)) = <<s[1]>> \o SubSeq(s, 2, Len(s))
  BY <1>2, SubSeqRecursiveFirst
<1>4. Tail(s) = SubSeq(s, 2, Len(s)) /\ SubSeq(s, 1, Len(s)) = s
  BY TailIsSubSeq, SubSeqFull
<1>5. Head(s) = s[1]
  BY <1>2
<1>6. <<Head(s)>> \in Seq(S)
  BY <1>1
<1>. QED  BY <1>1, <1>3, <1>4, <1>5, <1>6

\* It may be moved to the end of the queue before.
LEMMA MoveHead ==
  ASSUME NEW S, NEW s \in Seq(S), NEW t \in Seq(S), t # <<>>
  PROVE  /\ Append(s, Head(t)) \in Seq(S)
         /\ Append(s, Head(t)) \o Tail(t) = s \o t
<1>1. /\ Head(t) \in S /\ Tail(t) \in Seq(S) /\ <<Head(t)>> \in Seq(S)
      /\ t = <<Head(t)>> \o Tail(t)
  BY HeadAndTail
<1>. DEFINE h == Head(t)
            r == Tail(t)
<1>. HIDE DEF h, r
<1>2. Append(s, h) \in Seq(S) /\ Append(s, h) = s \o <<h>>
  BY <1>1, AppendProperties, AppendIsConcat DEF h
<1>3. (s \o <<h>>) \o r = s \o (<<h>> \o r)
  BY <1>1, ConcatAssociative DEF h, r
<1>. QED  BY <1>1, <1>2, <1>3 DEF h, r

\* Adding to the last part adds to the whole.
LEMMA AppendLast ==
  ASSUME NEW S, NEW s \in Seq(S), NEW t \in Seq(S), NEW e \in S
  PROVE  s \o Append(t, e) = Append(s \o t, e)
<1>1. <<e>> \in Seq(S) /\ s \o t \in Seq(S)
  BY ConcatProperties
<1>2. (s \o t) \o <<e>> = s \o (t \o <<e>>)
  BY <1>1, ConcatAssociative
<1>. QED  BY <1>1, <1>2, AppendIsConcat

-------------------------------------------------------------------------------
(* The server. *)

\* What is made of a message: a request is answered, with its own id, and a
\* notification is not.
LEMMA HandlesOne ==
  ASSUME NEW style \in Styles, NEW item \in Items(style), ServerTyped(style),
         server.status = "reading", item.kind \notin {"blank", "stray"},
         Handle(item)
  PROVE  /\ server' \in [status : {"reading", "calling", "writing"},
                         mode : {Nil, style}, inHeaders : {FALSE},
                         answer : AnswersIn(style) \cup {Nil}]
         /\ Due' => server'.answer \in AnswersIn(style)
         /\ server'.status = "calling" => server'.answer.mode = style
         /\ item.kind \in Requests =>
              /\ Due'
              /\ server'.answer.id = item.id /\ server'.answer.mode = style
         /\ item.kind = "notification" => server'.status = "reading"
<1>1. /\ item.kind \in ItemKinds /\ item.id \in Nat /\ item.style = style
      /\ server.mode \in {Nil, style}
  BY DEF Items, ServerTyped
<1>2. CASE item.kind \in Unparsed
  <2>1. server' = [server EXCEPT !.inHeaders = FALSE, !.status = "writing",
                                 !.answer = Answer(Nil, "parseError", "framed")]
    BY <1>2 DEF Handle
  <2>2. Answer(Nil, "parseError", "framed") \in AnswersIn(style)
    BY DEF Answer, AnswersIn, Styles, Frames
  <2>. QED  BY <1>2, <2>1, <2>2 DEF ServerTyped, Unparsed, Requests, Due
<1>3. CASE item.kind \notin Unparsed
  <2>. DEFINE mode == IF server.mode = Nil THEN item.style ELSE server.mode
  <2>1. \/ /\ handleRequest(item) = {}
           /\ server' = [server EXCEPT !.inHeaders = FALSE, !.mode = mode]
        \/ \E status \in {"calling", "writing"}, kind \in handleRequest(item) \cup {Nil} :
             /\ item.kind \in Requests
             /\ server' = [server EXCEPT
                             !.inHeaders = FALSE, !.mode = mode, !.status = status,
                             !.answer = Answer(item.id, kind, WireMode(mode))]
    <3>1. CASE handleRequest(item) # {}
      BY <1>1, <1>3, <3>1 DEF Handle, handleRequest, ItemKinds, Requests
    <3>2. CASE handleRequest(item) = {}
      BY <1>3, <3>2 DEF Handle, Requests
    <3>. QED  BY <3>1, <3>2
  <2>2. mode = style
    BY <1>1
  <2>. HIDE DEF mode
  <2>3. item.kind \in Requests \cup {"notification"}
    BY <1>1, <1>3 DEF ItemKinds
  <2>4. /\ handleRequest(item) \in SUBSET {"result", "toolError", "noMethod"}
        /\ item.kind \in Requests => handleRequest(item) # {}
        /\ item.kind = "notification" => handleRequest(item) = {}
    BY <2>3 DEF handleRequest, Requests
  <2>5. \A kind \in handleRequest(item) \cup {Nil} :
          /\ Answer(item.id, kind, WireMode(mode)) \in AnswersIn(style)
          /\ Answer(item.id, kind, WireMode(mode)).id = item.id
          /\ Answer(item.id, kind, WireMode(mode)).mode = style
    BY <1>1, <2>2, <2>4 DEF Answer, AnswersIn, WireMode
  <2>6. CASE /\ handleRequest(item) = {}
             /\ server' = [server EXCEPT !.inHeaders = FALSE, !.mode = mode]
    <3>1. server' = [server EXCEPT !.inHeaders = FALSE, !.mode = style]
      BY <2>2, <2>6
    <3>. QED  BY <2>4, <2>6, <3>1 DEF ServerTyped, Due
  <2>7. ASSUME NEW kind \in handleRequest(item) \cup {Nil},
               NEW status \in {"calling", "writing"},
               server' = [server EXCEPT
                            !.inHeaders = FALSE, !.mode = mode, !.status = status,
                            !.answer = Answer(item.id, kind, WireMode(mode))]
        PROVE  /\ server' \in [status : {"reading", "calling", "writing"},
                               mode : {Nil, style}, inHeaders : {FALSE},
                               answer : AnswersIn(style) \cup {Nil}]
               /\ Due'
               /\ server'.answer \in AnswersIn(style)
               /\ server'.answer.id = item.id /\ server'.answer.mode = style
    BY <2>2, <2>5, <2>7 DEF ServerTyped, Due
  <2>. QED  BY <2>1, <2>3, <2>4, <2>6, <2>7
<1>. QED  BY <1>2, <1>3

\* An item is added to a pipe, and to what was written.
Puts(s, text) ==
  /\ pipes' = [pipes EXCEPT ![s] = Append(@, text)]
  /\ written' = [written EXCEPT ![s] = Append(@, text)]

\* What Child keeps as written is what is put into a pipe.
LEMMA WrittenIsPut ==
  ASSUME NEW style, ServerTyped(style), LogTyped(style), Child
  PROVE  /\ pipes' = pipes => written' = written
         /\ \A s \in Outputs : \A text \in Texts(style, s) :
              pipes' = [pipes EXCEPT ![s] = Append(@, text)] => Puts(s, text)
<1>. DEFINE Part(s) == SubSeq(pipes'[s], Len(pipes[s]) + 1, Len(pipes'[s]))
<1>1. written' = [s \in Outputs |-> written[s] \o Part(s)]
  BY DEF Child
<1>2. /\ written = [s \in Outputs |-> written[s]] /\ DOMAIN written = Outputs
      /\ DOMAIN pipes = Outputs
      /\ \A s \in Outputs : /\ pipes[s] \in Seq(Texts(style, s))
                            /\ written[s] \in Seq(Texts(style, s))
  BY DEF ServerTyped, LogTyped
<1>3. \A s \in Outputs : pipes'[s] = pipes[s] => written[s] \o Part(s) = written[s]
  <2>. SUFFICES ASSUME NEW s \in Outputs, pipes'[s] = pipes[s]
       PROVE  written[s] \o Part(s) = written[s]
    OBVIOUS
  <2>1. Len(pipes[s]) \in Nat
    BY <1>2, LenProperties
  <2>2. Part(s) = <<>>
    BY <2>1, SubSeqEmpty
  <2>. QED  BY <1>2, <2>2, ConcatEmptySeq
<1>4. \A s \in Outputs : \A text \in Texts(style, s) :
        pipes'[s] = Append(pipes[s], text) =>
          written[s] \o Part(s) = Append(written[s], text)
  <2>. SUFFICES ASSUME NEW s \in Outputs, NEW text \in Texts(style, s),
                       pipes'[s] = Append(pipes[s], text)
       PROVE  written[s] \o Part(s) = Append(written[s], text)
    OBVIOUS
  <2>. DEFINE p == pipes[s]
              q == pipes'[s]
  <2>1. /\ q \in Seq(Texts(style, s)) /\ Len(q) = Len(p) + 1
        /\ q[Len(p) + 1] = text
    BY <1>2, AppendProperties
  <2>2. Len(p) \in Nat
    BY <1>2, LenProperties
  <2>. HIDE DEF p, q
  <2>3. SubSeq(q, Len(p) + 1, Len(q)) = <<q[Len(p) + 1]>> \o SubSeq(q, Len(q) + 1, Len(q))
    BY <2>1, <2>2, SubSeqRecursiveFirst
  <2>4. SubSeq(q, Len(q) + 1, Len(q)) = <<>>
    BY <2>1, <2>2, SubSeqEmpty
  <2>5. <<text>> \in Seq(Texts(style, s))
    OBVIOUS
  <2>6. SubSeq(q, Len(p) + 1, Len(q)) = <<text>>
    BY <2>1, <2>3, <2>4, <2>5, ConcatEmptySeq
  <2>7. Part(s) = <<text>>
    BY <2>6 DEF p, q
  <2>. QED  BY <1>2, <2>7, AppendIsConcat
<1>. HIDE DEF Part
<1>5. ASSUME pipes' = pipes
      PROVE  written' = written
  <2>1. \A s \in Outputs : written[s] \o Part(s) = written[s]
    BY <1>3, <1>5
  <2>. QED  BY <1>1, <1>2, <2>1
<1>6. ASSUME NEW s \in Outputs, NEW text \in Texts(style, s),
             pipes' = [pipes EXCEPT ![s] = Append(@, text)]
      PROVE  Puts(s, text)
  <2>1. \A o \in Outputs : pipes'[o] = IF o = s THEN Append(pipes[o], text)
                                                ELSE pipes[o]
    BY <1>2, <1>6
  <2>2. \A o \in Outputs : written[o] \o Part(o) = IF o = s THEN Append(written[o], text)
                                                            ELSE written[o]
    BY <1>3, <1>4, <2>1
  <2>3. written' = [written EXCEPT ![s] = Append(@, text)]
    BY <1>1, <1>2, <2>2
  <2>. QED  BY <1>6, <2>3 DEF Puts
<1>. QED  BY <1>5, <1>6

\* The server takes an item from its pipe.
Takes ==
  /\ server.status = "reading"
  /\ toServer # <<>>
  /\ toServer' = Tail(toServer)

\* What a step of the server does to its pipes and to its state.
ChildDoes(style) ==
  \/ Takes /\ server'.status \in {"reading", "calling", "writing"} /\ pipes' = pipes
  \/ Takes /\ server'.status \in {"exited", "failed"}
     /\ (pipes' = pipes \/ pipes' = [pipes EXCEPT !["stderr"] = Append(@, Nil)])
  \/ toServer' = toServer /\ server'.status = "exited" /\ pipes' = pipes
  \/ /\ toServer' = toServer /\ pipes' = pipes
     /\ server.status = "calling" /\ server'.status = "writing"
     /\ server'.inHeaders = server.inHeaders
     /\ server'.answer.id = server.answer.id /\ server'.answer.mode = server.answer.mode
  \/ /\ toServer' = toServer
     /\ server.status = "writing" /\ server'.status = "reading"
     /\ server'.inHeaders = server.inHeaders
     /\ pipes' = [pipes EXCEPT !["stdout"] = Append(@, server.answer)]

\* The server stays in its states.
LEMMA ChildRuns ==
  ASSUME NEW style \in Styles, ServerTyped(style), Child
  PROVE  /\ ~HasEnded
         /\ ServerTyped(style)'
         /\ ChildDoes(style)
         /\ UNCHANGED <<client, toProxy, received, copiers, log, torn, logWorks, proxy>>
<1>1. UNCHANGED <<client, toProxy, received, copiers, log, torn, logWorks, proxy>>
  BY DEF Child, logVars
<1>. DEFINE ServerOK == /\ server' \in [status : {"reading", "calling", "writing", "exited", "failed"},
                                        mode : {Nil, style}, inHeaders : BOOLEAN,
                                        answer : AnswersIn(style) \cup {Nil}]
                        /\ Due' => server'.answer \in AnswersIn(style)
                        /\ server'.status = "calling" => server'.answer.mode = style
<1>2. ~HasEnded /\ ServerOK /\ ChildDoes(style)
  <2>0. /\ server \in [status : {"reading", "calling", "writing", "exited", "failed"},
                       mode : {Nil, style}, inHeaders : BOOLEAN,
                       answer : AnswersIn(style) \cup {Nil}]
        /\ toServer \in Seq(Items(style))
        /\ Due => server.answer \in AnswersIn(style)
        /\ server.status = "calling" => server.answer.mode = style
    BY DEF ServerTyped
  <2>1. CASE readPlainMessage \/ readFrame
    <3>. DEFINE item == Head(toServer)
    <3>1. /\ Takes /\ pipes' = pipes /\ Handle(item)
          /\ item.kind \notin {"blank", "stray"}
      BY <2>1 DEF readPlainMessage, readFrame, Take, Takes
    <3>2. item \in Items(style)
      BY <2>0, <3>1, HeadTailProperties DEF Takes
    <3>. HIDE DEF item
    <3>3. /\ server' \in [status : {"reading", "calling", "writing"},
                          mode : {Nil, style}, inHeaders : {FALSE},
                          answer : AnswersIn(style) \cup {Nil}]
          /\ Due' => server'.answer \in AnswersIn(style)
          /\ server'.status = "calling" => server'.answer.mode = style
      BY <3>1, <3>2, HandlesOne DEF Takes
    <3>4. server'.status \in {"reading", "calling", "writing"}
      BY <3>3
    <3>. QED  BY <3>1, <3>3, <3>4 DEF ChildDoes, HasEnded, Takes
  <2>2. CASE SkipHeader
    <3>1. /\ Takes /\ pipes' = pipes
          /\ server' = [server EXCEPT !.inHeaders = TRUE]
      BY <2>2 DEF SkipHeader, Take, Takes
    <3>. QED  BY <2>0, <3>1 DEF ChildDoes, HasEnded, Takes, Due
  <2>3. CASE NoLength \/ CutFrame
    <3>1. Takes /\ (Fail \/ Exit)
      BY <2>3 DEF NoLength, CutFrame, Take, Takes
    <3>2. CASE Fail
      <4>1. server' = [server EXCEPT !.status = "failed"]
        BY <3>2 DEF Fail
      <4>2. server'.status = "failed" /\ ServerOK
        BY <2>0, <4>1 DEF Due
      <4>. QED  BY <3>1, <3>2, <4>2 DEF Fail, ChildDoes, HasEnded, Takes
    <3>3. CASE Exit
      <4>1. server' = [server EXCEPT !.status = "exited"]
        BY <3>3 DEF Exit
      <4>2. server'.status = "exited" /\ ServerOK
        BY <2>0, <4>1 DEF Due
      <4>. QED  BY <3>1, <3>3, <4>2 DEF Exit, ChildDoes, HasEnded, Takes
    <3>. QED  BY <3>1, <3>2, <3>3
  <2>4. CASE EndOfInput
    BY <2>0, <2>4 DEF EndOfInput, Exit, ChildDoes, HasEnded, Due
  <2>5. CASE writeMessage
    <3>1. server' = [server EXCEPT !.status = "reading", !.answer = Nil]
      BY <2>5 DEF writeMessage
    <3>2. server'.status = "reading" /\ server'.inHeaders = server.inHeaders
      BY <2>0, <3>1
    <3>. QED  BY <2>0, <2>5, <3>1, <3>2 DEF writeMessage, ChildDoes, HasEnded, Due
  <2>6. CASE server.status = "writing" /\ Exit /\ UNCHANGED <<toServer, noMore>>
    <3>1. server' = [server EXCEPT !.status = "exited"]
      BY <2>6 DEF Exit
    <3>2. server'.status = "exited" /\ ServerOK
      BY <2>0, <3>1 DEF Due
    <3>. QED  BY <2>0, <2>6, <3>2 DEF Exit, ChildDoes, HasEnded
  <2>8. CASE CallTool
    <3>1. PICK kind \in {"result", "toolError"} :
            server' = [server EXCEPT !.status = "writing", !.answer.kind = kind]
      BY <2>8 DEF CallTool
    <3>2. /\ server.status = "calling" /\ server.answer \in AnswersIn(style)
          /\ server.answer.mode = style
      BY <2>0, <2>8 DEF CallTool, Due
    <3>. DEFINE answer == [server.answer EXCEPT !.kind = kind]
    <3>3. /\ answer \in AnswersIn(style)
          /\ answer.id = server.answer.id /\ answer.mode = server.answer.mode
      BY <3>1, <3>2 DEF AnswersIn
    <3>4. server' = [server EXCEPT !.status = "writing", !.answer = answer]
      BY <2>0, <3>1
    <3>. HIDE DEF answer
    <3>5. /\ ServerOK /\ server'.status = "writing" /\ server'.answer = answer
          /\ server'.inHeaders = server.inHeaders
      BY <2>0, <3>3, <3>4
    <3>. QED  BY <2>8, <3>2, <3>3, <3>5 DEF CallTool, ChildDoes, HasEnded
  <2>7. \/ readPlainMessage \/ readFrame \/ SkipHeader \/ NoLength \/ CutFrame
        \/ EndOfInput \/ CallTool \/ writeMessage
        \/ server.status = "writing" /\ Exit /\ UNCHANGED <<toServer, noMore>>
    BY DEF Child, Serve
  <2>. HIDE DEF ServerOK
  <2>. QED  BY <2>1, <2>2, <2>3, <2>4, <2>5, <2>6, <2>7, <2>8
<1>3. toServer' \in Seq(Items(style))
  <2>1. toServer \in Seq(Items(style))
    BY DEF ServerTyped
  <2>2. toServer' = toServer \/ (toServer # <<>> /\ toServer' = Tail(toServer))
    BY <1>2 DEF ChildDoes, Takes
  <2>. QED  BY <2>1, <2>2, HeadTailProperties
<1>4. DOMAIN pipes' = Outputs /\ \A s \in Outputs : pipes'[s] \in Seq(Texts(style, s))
  <2>0. /\ DOMAIN pipes = Outputs
        /\ \A s \in Outputs : pipes[s] \in Seq(Texts(style, s))
        /\ server.status = "writing" => server.answer \in Texts(style, "stdout")
        /\ Nil \in Texts(style, "stderr")
    BY DEF ServerTyped, Texts, Due
  <2>1. ASSUME NEW s \in Outputs, NEW text \in Texts(style, s),
               pipes' = [pipes EXCEPT ![s] = Append(@, text)]
        PROVE  DOMAIN pipes' = Outputs /\ \A o \in Outputs : pipes'[o] \in Seq(Texts(style, o))
    <3>1. Append(pipes[s], text) \in Seq(Texts(style, s))
      BY <2>0, AppendProperties
    <3>. QED  BY <2>0, <2>1, <3>1
  <2>2. "stdout" \in Outputs /\ "stderr" \in Outputs
    BY DEF Outputs
  <2>3. \/ pipes' = pipes
        \/ pipes' = [pipes EXCEPT !["stderr"] = Append(@, Nil)]
        \/ /\ server.status = "writing"
           /\ pipes' = [pipes EXCEPT !["stdout"] = Append(@, server.answer)]
    BY <1>2 DEF ChildDoes
  <2>. QED  BY <2>0, <2>1, <2>2, <2>3
<1>. QED  BY <1>1, <1>2, <1>3, <1>4 DEF ServerTyped

-------------------------------------------------------------------------------
(* The steps. *)

\* What the copies hold has the type of their streams.
LEMMA MouthTyped ==
  ASSUME NEW style, CopiesTyped(style), NEW s \in Outputs
  PROVE  InMouth(s) \in Seq(Texts(style, s))
BY DEF CopiesTyped, InMouth, Held

LEMMA EarTyped ==
  ASSUME NEW style, CopiesTyped(style)
  PROVE  InEar \in Seq(Items(style)) /\ InHand \in Seq(Items(style))
BY DEF CopiesTyped, InEar, InHand, Held

\* The server: what it takes it had, what it puts it wrote.
LEMMA ChildKeeps ==
  ASSUME NEW style \in Styles, SessionOf(style), Child
  PROVE  SessionOf(style)'
<1>0. /\ Typed(style) /\ SentNumbered
      /\ InputLogged(style) /\ InputTorn(style) /\ InputPassed(style)
      /\ OutputPassed(style) /\ ReapedIsOver /\ OutputLogged(style) /\ OutputTorn
      /\ TornIsLast
  BY DEF SessionOf
<1>1. /\ ~HasEnded
      /\ ServerTyped(style)'
      /\ ChildDoes(style)
      /\ UNCHANGED <<client, toProxy, received, copiers, log, torn, logWorks, proxy>>
  BY <1>0, ChildRuns DEF Typed
<1>2. \/ pipes' = pipes /\ written' = written
      \/ \E s \in Outputs : \E text \in Texts(style, s) : Puts(s, text)
  <2>1. \/ pipes' = pipes
        \/ pipes' = [pipes EXCEPT !["stderr"] = Append(@, Nil)]
        \/ /\ server.status = "writing"
           /\ pipes' = [pipes EXCEPT !["stdout"] = Append(@, server.answer)]
    BY <1>1 DEF ChildDoes
  <2>2. /\ "stdout" \in Outputs /\ "stderr" \in Outputs
        /\ server.status = "writing" => server.answer \in Texts(style, "stdout")
        /\ Nil \in Texts(style, "stderr")
    BY <1>0 DEF Typed, ServerTyped, Texts, Outputs, Due
  <2>3. /\ pipes' = pipes => written' = written
        /\ \A s \in Outputs : \A text \in Texts(style, s) :
             pipes' = [pipes EXCEPT ![s] = Append(@, text)] => Puts(s, text)
    BY <1>0, WrittenIsPut DEF Typed
  <2>. QED  BY <2>1, <2>2, <2>3
<1>3. /\ DOMAIN pipes = Outputs /\ DOMAIN written = Outputs
      /\ written = [s \in Outputs |-> written[s]]
      /\ \A s \in Outputs : /\ pipes[s] \in Seq(Texts(style, s))
                            /\ written[s] \in Seq(Texts(style, s))
                            /\ received[s] \in Seq(Texts(style, s))
  BY <1>0 DEF Typed, ServerTyped, LogTyped, ClientTyped
<1>4. Typed(style)'
  <2>1. ClientTyped(style)' /\ CopiesTyped(style)'
    BY <1>0, <1>1 DEF Typed, ClientTyped, CopiesTyped
  <2>2. /\ written' = [s \in Outputs |-> written'[s]]
        /\ \A s \in Outputs : written'[s] \in Seq(Texts(style, s))
    <3>1. CASE written' = written
      BY <1>3, <3>1
    <3>2. ASSUME NEW s \in Outputs, NEW text \in Texts(style, s), Puts(s, text)
          PROVE  /\ written' = [o \in Outputs |-> written'[o]]
                 /\ \A o \in Outputs : written'[o] \in Seq(Texts(style, o))
      <4>1. Append(written[s], text) \in Seq(Texts(style, s))
        BY <1>3, AppendProperties
      <4>2. written' = [o \in Outputs |-> IF o = s THEN Append(written[s], text)
                                                   ELSE written[o]]
        BY <1>3, <3>2 DEF Puts
      <4>. QED  BY <1>3, <4>1, <4>2
    <3>. QED  BY <1>2, <3>1, <3>2
  <2>3. LogTyped(style)'
    BY <1>0, <1>1, <2>2 DEF Typed, LogTyped
  <2>. QED  BY <1>1, <2>1, <2>3 DEF Typed
<1>5. /\ SentNumbered' /\ InputLogged(style)' /\ InputTorn(style)'
      /\ OutputLogged(style)' /\ OutputTorn' /\ TornIsLast'
  BY <1>0, <1>1 DEF SentNumbered, InputLogged, InputTorn, OutputLogged, OutputTorn,
                    TornIsLast, InEar, Held, IsRunning
<1>6. InputPassed(style)'
  <2>. SUFFICES ASSUME ~HasEnded'
       PROVE  \E taken \in Seq(Items(style)) :
                log["stdin"] = taken \o (toServer' \o InHand)
    BY <1>1 DEF InputPassed, InHand, Held
  <2>1. PICK taken \in Seq(Items(style)) :
          log["stdin"] = taken \o (toServer \o InHand)
    BY <1>0, <1>1 DEF InputPassed
  <2>2. CASE toServer' = toServer
    BY <2>1, <2>2
  <2>3. CASE Takes
    <3>1. toServer \in Seq(Items(style)) /\ InHand \in Seq(Items(style))
      BY <1>0 DEF Typed, ServerTyped, CopiesTyped, InHand, Held
    <3>2. toServer # <<>> /\ toServer' = Tail(toServer)
      BY <2>3 DEF Takes
    <3>3. /\ Append(taken, Head(toServer)) \in Seq(Items(style))
          /\ Append(taken, Head(toServer)) \o Tail(toServer) = taken \o toServer
      BY <3>1, <3>2, MoveHead
    <3>. DEFINE more == Append(taken, Head(toServer))
                rest == Tail(toServer)
    <3>4. rest \in Seq(Items(style))
      BY <3>1, <3>2, HeadTailProperties
    <3>. HIDE DEF more, rest
    <3>5. more \in Seq(Items(style)) /\ more \o rest = taken \o toServer
      BY <3>3 DEF more, rest
    <3>0. InHand \in Seq(Items(style)) /\ more \in Seq(Items(style))
      BY <3>1, <3>5
    <3>6. (more \o rest) \o InHand = more \o (rest \o InHand)
      BY <3>0, <3>4, ConcatAssociative
    <3>7. (taken \o toServer) \o InHand = taken \o (toServer \o InHand)
      BY <3>1, ConcatAssociative
    <3>8. log["stdin"] = more \o (rest \o InHand)
      BY <2>1, <3>5, <3>6, <3>7
    <3>. QED  BY <3>2, <3>5, <3>8 DEF rest
  <2>. QED  BY <1>1, <2>2, <2>3 DEF ChildDoes
<1>7. OutputPassed(style)'
  <2>. SUFFICES ASSUME NEW s \in Outputs
       PROVE  \E rest \in Seq(Texts(style, s)) :
                /\ written'[s] = received[s] \o (InMouth(s) \o rest)
                /\ proxy = "waiting" => rest = pipes'[s]
    BY <1>1 DEF OutputPassed, InMouth, Held
  <2>1. PICK rest \in Seq(Texts(style, s)) :
          /\ written[s] = received[s] \o (InMouth(s) \o rest)
          /\ proxy = "waiting" => rest = pipes[s]
    BY <1>0 DEF OutputPassed
  <2>2. CASE written'[s] = written[s] /\ pipes'[s] = pipes[s]
    BY <2>1, <2>2
  <2>3. ASSUME NEW text \in Texts(style, s), Puts(s, text)
        PROVE  \E more \in Seq(Texts(style, s)) :
                 /\ written'[s] = received[s] \o (InMouth(s) \o more)
                 /\ proxy = "waiting" => more = pipes'[s]
    <3>1. /\ written'[s] = Append(written[s], text)
          /\ pipes'[s] = Append(pipes[s], text)
      BY <1>3, <2>3 DEF Puts
    <3>. DEFINE T == Texts(style, s)
                r == received[s]
                m == InMouth(s)
    <3>0. r \in Seq(T) /\ m \in Seq(T) /\ rest \in Seq(T) /\ text \in T
      BY <1>0, <1>3, MouthTyped DEF Typed
    <3>. HIDE DEF T, r, m
    <3>2. m \o Append(rest, text) = Append(m \o rest, text) /\ m \o rest \in Seq(T)
      BY <3>0, AppendLast, ConcatProperties
    <3>3. r \o Append(m \o rest, text) = Append(r \o (m \o rest), text)
      BY <3>0, <3>2, AppendLast
    <3>4. Append(rest, text) \in Seq(T)
      BY <3>0, AppendProperties
    <3>. QED  BY <2>1, <3>1, <3>2, <3>3, <3>4 DEF T, r, m
  <2>4. ASSUME NEW o \in Outputs, o # s, NEW text, Puts(o, text)
        PROVE  written'[s] = written[s] /\ pipes'[s] = pipes[s]
    BY <1>3, <2>4 DEF Puts
  <2>. QED  BY <1>2, <2>2, <2>3, <2>4
<1>8. ReapedIsOver'
  BY <1>0, <1>1 DEF ReapedIsOver
<1>. QED  BY <1>4, <1>5, <1>6, <1>7, <1>8 DEF SessionOf

\* The client: what it sends waits for the proxy, under the next number.
LEMMA ClientKeeps ==
  ASSUME NEW style \in Styles, SessionOf(style),
         CloseInput \/ \E kind \in ItemKinds : Send(kind)
  PROVE  SessionOf(style)'
<1>0. /\ Typed(style) /\ SentNumbered
      /\ InputLogged(style) /\ InputTorn(style) /\ InputPassed(style)
      /\ OutputPassed(style) /\ ReapedIsOver /\ OutputLogged(style) /\ OutputTorn
      /\ TornIsLast
  BY DEF SessionOf
<1>1. UNCHANGED <<serverVars, received, copiers, log, torn, logWorks, proxy, written>>
  BY DEF CloseInput, Send, logVars
<1>2. /\ client \in [style : {style}, sent : Seq(Items(style)), closed : BOOLEAN]
      /\ toProxy \in Seq(Items(style))
      /\ style \in Styles
  BY <1>0 DEF Typed, ClientTyped
<1>. DEFINE Grows ==
       \E item \in Items(style) :
         /\ item.id = Len(client.sent) + 1
         /\ client'.sent = Append(client.sent, item)
         /\ toProxy' = Append(toProxy, item)
<1>3. /\ client' \in [style : {style}, sent : Seq(Items(style)), closed : BOOLEAN]
      /\ toProxy' \in Seq(Items(style))
      /\ Grows \/ (client'.sent = client.sent /\ toProxy' = toProxy)
  <2>1. CASE CloseInput
    BY <1>2, <2>1 DEF CloseInput
  <2>2. ASSUME NEW kind \in ItemKinds, Send(kind)
        PROVE  /\ client' \in [style : {style}, sent : Seq(Items(style)), closed : BOOLEAN]
               /\ toProxy' \in Seq(Items(style))
               /\ Grows
    <3>. DEFINE item == [kind |-> kind, id |-> Len(client.sent) + 1, style |-> client.style]
    <3>1. Len(client.sent) \in Nat
      BY <1>2, LenProperties
    <3>2. item \in Items(style) /\ item.id = Len(client.sent) + 1
      BY <1>2, <3>1 DEF Items
    <3>3. /\ client' = [client EXCEPT !.sent = Append(@, item), !.closed = kind = "cut"]
          /\ toProxy' = Append(toProxy, item)
      BY <2>2 DEF Send
    <3>. HIDE DEF item
    <3>4. Append(client.sent, item) \in Seq(Items(style))
      BY <1>2, <3>2, AppendProperties
    <3>5. Append(toProxy, item) \in Seq(Items(style))
      BY <1>2, <3>2, AppendProperties
    <3>6. client'.sent = Append(client.sent, item)
      BY <1>2, <3>3
    <3>. QED  BY <1>2, <3>2, <3>3, <3>4, <3>5, <3>6
  <2>. QED  BY <2>1, <2>2
<1>. HIDE DEF Grows
<1>4. Typed(style)'
  BY <1>0, <1>1, <1>3 DEF Typed, ServerTyped, ClientTyped, CopiesTyped, LogTyped, Due,
                          serverVars
<1>5. SentNumbered'
  <2>1. CASE client'.sent = client.sent
    BY <1>0, <2>1 DEF SentNumbered
  <2>2. CASE Grows
    <3>1. PICK item \in Items(style) : /\ item.id = Len(client.sent) + 1
                                       /\ client'.sent = Append(client.sent, item)
      BY <2>2 DEF Grows
    <3>. DEFINE old == client.sent
                new == client'.sent
    <3>2. old \in Seq(Items(style)) /\ Len(old) \in Nat /\ DOMAIN old = 1 .. Len(old)
      BY <1>2, LenProperties
    <3>3. /\ new \in Seq(Items(style)) /\ Len(new) = Len(old) + 1
          /\ \A n \in 1 .. Len(old) : new[n] = old[n]
          /\ new[Len(old) + 1] = item
      BY <1>2, <3>1, AppendProperties
    <3>4. DOMAIN new = 1 .. Len(new)
      BY <3>3, LenProperties
    <3>5. \A n \in 1 .. Len(old) : old[n].id = n
      BY <1>0, <3>2 DEF SentNumbered
    <3>6. item.id = Len(old) + 1
      BY <3>1
    <3>. HIDE DEF old, new
    <3>7. \A n \in 1 .. Len(new) : new[n].id = n
      BY <3>2, <3>3, <3>5, <3>6
    <3>. QED  BY <3>4, <3>7 DEF SentNumbered, new
  <2>. QED  BY <1>3, <2>1, <2>2
<1>6. InputLogged(style)' /\ InputTorn(style)'
  <2>1. CASE client'.sent = client.sent /\ toProxy' = toProxy
    BY <1>0, <1>1, <2>1 DEF InputLogged, InputTorn, InEar, Held
  <2>2. CASE Grows
    <3>1. PICK item \in Items(style) : /\ client'.sent = Append(client.sent, item)
                                       /\ toProxy' = Append(toProxy, item)
      BY <2>2 DEF Grows
    <3>. DEFINE l == log["stdin"]
                n == torn["stdin"]
                I == Items(style)
                e == InEar
                q == toProxy
    <3>3. l \in Seq(I) /\ n \in Seq(I) /\ e \in Seq(I) /\ q \in Seq(I) /\ item \in I
      BY <1>0, <1>2, EarTyped DEF Typed, LogTyped
    <3>4. l \o n \in Seq(I)
      BY <3>3, ConcatProperties
    <3>. HIDE DEF l, n, I, e, q
    <3>5. InputLogged(style)'
      <4>1. PICK rest \in Seq(I) : /\ client.sent = l \o rest
                                   /\ copiers["stdin"].status # "done" => rest = e \o q
        BY <1>0 DEF InputLogged, l, I, e, q
      <4>2. l \o Append(rest, item) = Append(l \o rest, item)
        BY <3>3, AppendLast
      <4>3. Append(rest, item) \in Seq(I)
        BY <3>3, AppendProperties
      <4>4. e \o Append(q, item) = Append(e \o q, item)
        BY <3>3, AppendLast
      <4>5. /\ client'.sent = l \o Append(rest, item)
            /\ copiers["stdin"].status # "done" =>
                 Append(rest, item) = e \o Append(q, item)
        BY <3>1, <4>1, <4>2, <4>4
      <4>6. e' = e
        BY <1>1 DEF e, InEar, Held
      <4>. QED  BY <1>1, <3>1, <4>3, <4>5, <4>6 DEF InputLogged, l, I, e, q
    <3>6. InputTorn(style)'
      <4>. SUFFICES ASSUME n # <<>>
           PROVE  \E rest \in Seq(I) : client'.sent = (l \o n) \o rest
        BY <1>1 DEF InputTorn, l, n, I
      <4>1. PICK rest \in Seq(I) : client.sent = (l \o n) \o rest
        BY <1>0 DEF InputTorn, l, n, I
      <4>2. (l \o n) \o Append(rest, item) = Append((l \o n) \o rest, item)
        BY <3>3, <3>4, AppendLast
      <4>3. Append(rest, item) \in Seq(I)
        BY <3>3, AppendProperties
      <4>. QED  BY <3>1, <4>1, <4>2, <4>3
    <3>. QED  BY <3>5, <3>6
  <2>. QED  BY <1>3, <2>1, <2>2
<1>7. /\ InputPassed(style)' /\ OutputPassed(style)' /\ ReapedIsOver' /\ OutputLogged(style)'
      /\ OutputTorn' /\ TornIsLast'
  BY <1>0, <1>1
     DEF InputPassed, OutputPassed, ReapedIsOver, OutputLogged, OutputTorn, TornIsLast,
         InHand, InMouth, Held, HasEnded, IsRunning, serverVars
<1>. QED  BY <1>4, <1>5, <1>6, <1>7 DEF SessionOf

\* The goroutine of the input holds nothing but what it has logged.
LEMMA HoldingIs ==
  ASSUME NEW style, CopiesTyped(style), NEW s \in Streams, NEW status, NEW item,
         Holding(s, status, item)
  PROVE  /\ DOMAIN copiers' = Streams
         /\ copiers'[s] = [status |-> status, item |-> item]
         /\ \A o \in Streams : o # s => copiers'[o] = copiers[o]
BY DEF Holding, CopiesTyped

\* The copy of the input stops, or it moves one item.
InputStops ==
  /\ copiers["stdin"].status # "done"
  /\ HasEnded \/ copiers["stdin"].status \in {"reading", "logging"}
  /\ Holding("stdin", "done", Nil)
  /\ \/ torn' = torn
     \/ /\ copiers["stdin"].status = "logging"
        /\ \E part \in {<<>>, <<copiers["stdin"].item>>} :
             torn' = [torn EXCEPT !["stdin"] = part]
  /\ UNCHANGED <<toProxy, toServer, log>>
InputReads ==
  /\ copiers["stdin"].status = "reading"
  /\ toProxy # <<>> /\ toProxy' = Tail(toProxy)
  /\ Holding("stdin", "logging", Head(toProxy))
  /\ UNCHANGED <<toServer, log, torn>>
InputLogs ==
  /\ copiers["stdin"].status = "logging"
  /\ log' = [log EXCEPT !["stdin"] = Append(@, copiers["stdin"].item)]
  /\ Holding("stdin", "writing", copiers["stdin"].item)
  /\ UNCHANGED <<toProxy, toServer, torn>>
InputWrites ==
  /\ copiers["stdin"].status = "writing"
  /\ toServer' = Append(toServer, copiers["stdin"].item)
  /\ Holding("stdin", "reading", Nil)
  /\ UNCHANGED <<toProxy, log, torn>>

LEMMA InputMoves ==
  ASSUME InputCopy
  PROVE  /\ IsRunning
         /\ InputStops \/ InputReads \/ InputLogs \/ InputWrites
         /\ UNCHANGED <<server, pipes, client, received, logWorks, proxy, written>>
<1>1. CASE ReadInput
  BY <1>1 DEF ReadInput, Is, InputReads, logVars, serverVars
<1>2. CASE LogInput
  BY <1>2 DEF LogInput, Is, Tee, Log, Tear, StopInput, InputStops, InputLogs
<1>3. CASE PassInput
  BY <1>3 DEF PassInput, Is, StopInput, InputStops, InputWrites, logVars
<1>4. CASE EndInput
  BY <1>4 DEF EndInput, Is, StopInput, InputStops, logVars
<1>. QED  BY <1>1, <1>2, <1>3, <1>4 DEF InputCopy

\* The copy of the input: it logs what it takes, or stops.
LEMMA InputKeeps ==
  ASSUME NEW style \in Styles, SessionOf(style), InputCopy
  PROVE  SessionOf(style)'
<1>0. /\ Typed(style) /\ SentNumbered
      /\ InputLogged(style) /\ InputTorn(style) /\ InputPassed(style)
      /\ OutputPassed(style) /\ ReapedIsOver /\ OutputLogged(style) /\ OutputTorn
      /\ TornIsLast
  BY DEF SessionOf
<1>. DEFINE I == Items(style)
            l == log["stdin"]
            item == copiers["stdin"].item
            h == Head(toProxy)
            Stops == InputStops
            Reads == InputReads
            Logs == InputLogs
            Writes == InputWrites
<1>1. /\ IsRunning
      /\ Stops \/ Reads \/ Logs \/ Writes
      /\ UNCHANGED <<server, pipes, client, received, logWorks, proxy, written>>
  BY InputMoves
<1>2. /\ "stdin" \in Streams /\ \A s \in Outputs : s \in Streams /\ s # "stdin"
      /\ Streams = Outputs \cup {"stdin"}
  BY DEF Streams, Outputs
<1>3. /\ toProxy \in Seq(I) /\ toServer \in Seq(I) /\ l \in Seq(I)
      /\ DOMAIN log = Streams /\ DOMAIN torn = Streams
      /\ CopiesTyped(style)
      /\ copiers["stdin"].status \in {"logging", "writing"} => item \in I
  BY <1>0 DEF Typed, ServerTyped, ClientTyped, LogTyped, CopiesTyped
<1>4. copiers["stdin"].status # "done" /\ torn["stdin"] = <<>>
  BY <1>0, <1>1, <1>2 DEF TornIsLast, InputStops, InputReads, InputLogs, InputWrites
<1>5. Reads => /\ h \in I /\ <<h>> \in Seq(I) /\ Tail(toProxy) \in Seq(I)
               /\ toProxy = <<h>> \o Tail(toProxy)
  BY <1>3, HeadAndTail DEF InputReads
<1>6. /\ DOMAIN copiers' = Streams
      /\ \A s \in Outputs : copiers'[s] = copiers[s]
      /\ Stops => copiers'["stdin"] = [status |-> "done", item |-> Nil]
      /\ Reads => copiers'["stdin"] = [status |-> "logging", item |-> h]
      /\ Logs => copiers'["stdin"] = [status |-> "writing", item |-> item]
      /\ Writes => copiers'["stdin"] = [status |-> "reading", item |-> Nil]
  <2>. DEFINE InputHolds(status, e) ==
                /\ DOMAIN copiers' = Streams
                /\ \A s \in Outputs : copiers'[s] = copiers[s]
                /\ copiers'["stdin"] = [status |-> status, item |-> e]
  <2>0. ASSUME NEW status, NEW e, Holding("stdin", status, e)
        PROVE  InputHolds(status, e)
    <3>1. CopiesTyped(style) /\ "stdin" \in Streams
      BY <1>2, <1>3
    <3>2. /\ DOMAIN copiers' = Streams
          /\ copiers'["stdin"] = [status |-> status, item |-> e]
          /\ \A o \in Streams : o # "stdin" => copiers'[o] = copiers[o]
      BY <2>0, <3>1, HoldingIs
    <3>. QED  BY <1>2, <3>2
  <2>. HIDE DEF InputHolds
  <2>1. /\ Stops => InputHolds("done", Nil)
        /\ Reads => InputHolds("logging", h)
        /\ Logs => InputHolds("writing", item)
        /\ Writes => InputHolds("reading", Nil)
    BY <2>0 DEF InputStops, InputReads, InputLogs, InputWrites
  <2>. HIDE DEF Stops, Reads, Logs, Writes
  <2>. QED  BY <1>1, <2>1 DEF InputHolds
<1>7. /\ Stops => UNCHANGED <<toProxy, toServer, log>>
      /\ Reads => toProxy' = Tail(toProxy) /\ UNCHANGED <<toServer, log, torn>>
      /\ Logs => /\ l' = Append(l, item) /\ item \in I
                 /\ UNCHANGED <<toProxy, toServer, torn>>
      /\ Writes => /\ toServer' = Append(toServer, item) /\ item \in I
                   /\ UNCHANGED <<toProxy, log, torn>>
  BY <1>2, <1>3 DEF InputStops, InputReads, InputLogs, InputWrites
<1>8. /\ DOMAIN log' = Streams /\ \A s \in Outputs : log'[s] = log[s]
      /\ DOMAIN torn' = Streams /\ \A s \in Outputs : torn'[s] = torn[s]
      /\ torn'["stdin"] # <<>> => /\ Stops /\ copiers["stdin"].status = "logging"
                                  /\ torn'["stdin"] = <<item>>
  BY <1>1, <1>2, <1>3, <1>4 DEF InputStops, InputReads, InputLogs, InputWrites
<1>9. /\ InEar = IF copiers["stdin"].status = "logging" THEN <<item>> ELSE <<>>
      /\ InHand = IF copiers["stdin"].status = "writing" THEN <<item>> ELSE <<>>
      /\ Stops => InEar' = <<>> /\ InHand' = <<>>
      /\ Reads => /\ InEar = <<>> /\ InHand = <<>> /\ InEar' = <<h>> /\ InHand' = <<>>
      /\ Logs => /\ InEar = <<item>> /\ InHand = <<>> /\ InEar' = <<>> /\ InHand' = <<item>>
      /\ Writes => /\ InEar = <<>> /\ InHand = <<item>> /\ InEar' = <<>> /\ InHand' = <<>>
  BY <1>6 DEF InEar, InHand, Held, InputReads, InputLogs, InputWrites
<1>10. PICK rest \in Seq(I) : client.sent = l \o rest /\ rest = InEar \o toProxy
  BY <1>0, <1>4 DEF InputLogged
<1>11. copiers["stdin"].status = "logging" =>
         /\ client.sent = Append(l, item) \o toProxy
         /\ Append(l, item) = l \o <<item>> /\ Append(l, item) \in Seq(I)
  <2>. SUFFICES ASSUME copiers["stdin"].status = "logging"
       PROVE  /\ client.sent = Append(l, item) \o toProxy
              /\ Append(l, item) = l \o <<item>> /\ Append(l, item) \in Seq(I)
    OBVIOUS
  <2>1. client.sent = l \o (<<item>> \o toProxy) /\ item \in I
    BY <1>3, <1>9, <1>10
  <2>. HIDE DEF l, item, I
  <2>2. <<item>> \in Seq(I) /\ l \in Seq(I) /\ toProxy \in Seq(I)
    BY <1>3, <2>1
  <2>3. (l \o <<item>>) \o toProxy = l \o (<<item>> \o toProxy)
    BY <2>2, ConcatAssociative
  <2>4. Append(l, item) = l \o <<item>> /\ Append(l, item) \in Seq(I)
    BY <2>1, <2>2, AppendIsConcat, AppendProperties
  <2>. QED  BY <2>1, <2>3, <2>4
<1>. HIDE DEF Stops, Reads, Logs, Writes, h, item
<1>12. Typed(style)'
  <2>1. toProxy' \in Seq(I)
    BY <1>1, <1>3, <1>5, <1>7
  <2>2. toServer' \in Seq(I)
    <3>1. Writes => Append(toServer, item) \in Seq(I)
      BY <1>3, <1>7, AppendProperties
    <3>. QED  BY <1>1, <1>3, <1>7, <3>1
  <2>3. l' \in Seq(I)
    <3>1. Logs => Append(l, item) \in Seq(I)
      BY <1>3, <1>7, AppendProperties
    <3>. QED  BY <1>1, <1>3, <1>7, <3>1
  <2>4. torn'["stdin"] \in Seq(I)
    <3>1. CASE torn'["stdin"] = <<>>
      BY <3>1, EmptySeq
    <3>2. CASE torn'["stdin"] # <<>>
      <4>1. torn'["stdin"] = <<item>> /\ item \in I
        BY <1>3, <1>8, <3>2 DEF item
      <4>. QED  BY <4>1
    <3>. QED  BY <3>1, <3>2
  <2>5. ClientTyped(style)'
    BY <1>0, <1>1, <2>1 DEF Typed, ClientTyped
  <2>6. ServerTyped(style)'
    BY <1>0, <1>1, <2>2 DEF Typed, ServerTyped, Due
  <2>7. LogTyped(style)'
    BY <1>0, <1>1, <1>8, <2>3, <2>4 DEF Typed, LogTyped
  <2>8. CopiesTyped(style)'
    BY <1>1, <1>2, <1>3, <1>5, <1>6, <1>7 DEF CopiesTyped
  <2>. QED  BY <2>5, <2>6, <2>7, <2>8 DEF Typed
<1>13. InputLogged(style)'
  <2>1. CASE Stops
    <3>1. copiers'["stdin"].status = "done" /\ l' = l
      BY <1>6, <1>7, <2>1
    <3>. QED  BY <1>1, <1>10, <3>1 DEF InputLogged
  <2>2. CASE Reads
    <3>1. <<>> \o toProxy = toProxy
      BY <1>3, ConcatEmptySeq
    <3>2. rest = InEar' \o toProxy'
      BY <1>5, <1>7, <1>9, <1>10, <2>2, <3>1
    <3>. QED  BY <1>1, <1>7, <1>10, <2>2, <3>2 DEF InputLogged
  <2>3. CASE Logs
    <3>1. <<>> \o toProxy = toProxy
      BY <1>3, ConcatEmptySeq
    <3>2. copiers["stdin"].status = "logging"
      BY <2>3 DEF Logs, InputLogs
    <3>3. client'.sent = l' \o toProxy /\ toProxy = InEar' \o toProxy'
      BY <1>1, <1>7, <1>9, <1>11, <2>3, <3>1, <3>2
    <3>. QED  BY <1>3, <3>3 DEF InputLogged
  <2>4. CASE Writes
    <3>1. rest = InEar' \o toProxy'
      BY <1>7, <1>9, <1>10, <2>4
    <3>. QED  BY <1>1, <1>7, <1>10, <2>4, <3>1 DEF InputLogged
  <2>. QED  BY <1>1, <2>1, <2>2, <2>3, <2>4
<1>14. InputTorn(style)'
  <2>. SUFFICES ASSUME torn'["stdin"] # <<>>
       PROVE  \E more \in Seq(I) : client'.sent = (l' \o torn'["stdin"]) \o more
    BY DEF InputTorn
  <2>1. Stops /\ copiers["stdin"].status = "logging" /\ torn'["stdin"] = <<item>>
    BY <1>8
  <2>2. l' = l
    BY <1>7, <2>1
  <2>. QED  BY <1>1, <1>3, <1>11, <2>1, <2>2
<1>15. InputPassed(style)'
  <2>. SUFFICES ASSUME ~HasEnded
       PROVE  \E taken \in Seq(I) : l' = taken \o (toServer' \o InHand')
    BY <1>1 DEF InputPassed, HasEnded
  <2>1. PICK taken \in Seq(I) : l = taken \o (toServer \o InHand)
    BY <1>0 DEF InputPassed
  <2>2. CASE Stops
    <3>1. InHand' = <<>> /\ InHand = <<>>
      BY <1>9, <2>2 DEF Stops, InputStops
    <3>. QED  BY <1>7, <2>1, <2>2, <3>1
  <2>3. CASE Reads
    BY <1>7, <1>9, <2>1, <2>3
  <2>4. CASE Logs
    <3>1. InHand = <<>> /\ InHand' = <<item>> /\ item \in I
      BY <1>7, <1>9, <2>4
    <3>2. l' = Append(l, item) /\ toServer' = toServer
      BY <1>7, <2>4
    <3>. HIDE DEF l, I
    <3>3. toServer \o <<>> = toServer
      BY <1>3, ConcatEmptySeq
    <3>4. l = taken \o toServer
      BY <2>1, <3>1, <3>3
    <3>5. taken \o Append(toServer, item) = Append(taken \o toServer, item)
      BY <1>3, <3>1, AppendLast
    <3>6. Append(toServer, item) = toServer \o <<item>>
      BY <1>3, <3>1, AppendIsConcat
    <3>. QED  BY <3>1, <3>2, <3>4, <3>5, <3>6
  <2>5. CASE Writes
    <3>1. InHand = <<item>> /\ InHand' = <<>> /\ item \in I
      BY <1>7, <1>9, <2>5
    <3>2. toServer' = Append(toServer, item) /\ l' = l
      BY <1>7, <2>5
    <3>. HIDE DEF l, I
    <3>3. Append(toServer, item) = toServer \o <<item>>
      BY <1>3, <3>1, AppendIsConcat
    <3>4. Append(toServer, item) \in Seq(I)
      BY <1>3, <3>1, AppendProperties
    <3>5. Append(toServer, item) \o <<>> = Append(toServer, item)
      BY <3>4, ConcatEmptySeq
    <3>. QED  BY <2>1, <3>1, <3>2, <3>3, <3>5
  <2>. QED  BY <1>1, <2>2, <2>3, <2>4, <2>5
<1>16. SentNumbered' /\ OutputPassed(style)' /\ ReapedIsOver'
  BY <1>0, <1>1, <1>6
     DEF SentNumbered, OutputPassed, ReapedIsOver, HasEnded, InMouth, Held
<1>17. OutputLogged(style)' /\ OutputTorn'
  BY <1>0, <1>1, <1>6, <1>8 DEF OutputLogged, OutputTorn
<1>18. TornIsLast'
  <2>. SUFFICES ASSUME NEW s \in Streams, torn'[s] # <<>>
       PROVE  ~IsRunning' \/ copiers'[s].status = "done"
    BY DEF TornIsLast
  <2>1. CASE s = "stdin"
    BY <1>6, <1>8, <2>1
  <2>2. CASE s \in Outputs
    BY <1>0, <1>1, <1>6, <1>8, <2>2 DEF TornIsLast, IsRunning
  <2>. QED  BY <1>2, <2>1, <2>2
<1>. QED  BY <1>12, <1>13, <1>14, <1>15, <1>16, <1>17, <1>18 DEF SessionOf

\* The copy of an output stops, or it moves one item.
OutputStops(s) ==
  /\ copiers[s].status \in {"reading", "logging"}
  /\ Holding(s, "done", Nil)
  /\ \/ torn' = torn
     \/ /\ copiers[s].status = "logging"
        /\ \E part \in {<<>>, <<copiers[s].item>>} : torn' = [torn EXCEPT ![s] = part]
  /\ UNCHANGED <<pipes, received, log>>
OutputReads(s) ==
  /\ copiers[s].status = "reading" /\ pipes[s] # <<>>
  /\ pipes' = [pipes EXCEPT ![s] = Tail(@)]
  /\ Holding(s, "writing", Head(pipes[s]))
  /\ UNCHANGED <<received, log, torn>>
OutputPasses(s) ==
  /\ copiers[s].status = "writing"
  /\ received' = [received EXCEPT ![s] = Append(@, copiers[s].item)]
  /\ Holding(s, "logging", copiers[s].item)
  /\ UNCHANGED <<pipes, log, torn>>
OutputLogs(s) ==
  /\ copiers[s].status = "logging"
  /\ log' = [log EXCEPT ![s] = Append(@, copiers[s].item)]
  /\ Holding(s, "reading", Nil)
  /\ UNCHANGED <<pipes, received, torn>>

LEMMA OutputMoves ==
  ASSUME NEW s \in Outputs, OutputCopy(s)
  PROVE  /\ IsRunning
         /\ OutputStops(s) \/ OutputReads(s) \/ OutputPasses(s) \/ OutputLogs(s)
         /\ UNCHANGED <<toServer, noMore, server, client, toProxy, logWorks, proxy, written>>
<1>1. CASE ReadOutput(s)
  BY <1>1 DEF ReadOutput, Is, OutputReads, logVars
<1>2. CASE PassOutput(s)
  BY <1>2 DEF PassOutput, Is, CopyOutput, OutputPasses, logVars, serverVars
<1>3. CASE LogOutput(s)
  BY <1>3 DEF LogOutput, Is, Log, Tear, OutputLogs, OutputStops, serverVars
<1>4. CASE EndOutput(s)
  BY <1>4 DEF EndOutput, Is, OutputStops, logVars, serverVars
<1>. QED  BY <1>1, <1>2, <1>3, <1>4 DEF OutputCopy

\* The copy of an output: what it takes is received, and logged next.
LEMMA OutputKeeps ==
  ASSUME NEW style \in Styles, SessionOf(style), NEW s \in Outputs, OutputCopy(s)
  PROVE  SessionOf(style)'
<1>0. /\ Typed(style) /\ SentNumbered
      /\ InputLogged(style) /\ InputTorn(style) /\ InputPassed(style)
      /\ OutputPassed(style) /\ ReapedIsOver /\ OutputLogged(style) /\ OutputTorn
      /\ TornIsLast
  BY DEF SessionOf
<1>. DEFINE T == Texts(style, s)
            text == Head(pipes[s])
            item == copiers[s].item
            Stops == OutputStops(s)
            Reads == OutputReads(s)
            Passes == OutputPasses(s)
            Logs == OutputLogs(s)
<1>1. /\ IsRunning
      /\ Stops \/ Reads \/ Passes \/ Logs
      /\ UNCHANGED <<toServer, noMore, server, client, toProxy, logWorks, proxy, written>>
  BY OutputMoves
<1>2. /\ "stdin" \in Streams /\ \A o \in Outputs : o \in Streams /\ o # "stdin"
      /\ Streams = Outputs \cup {"stdin"}
  BY DEF Streams, Outputs
<1>3. /\ \A o \in Outputs : /\ pipes[o] \in Seq(Texts(style, o))
                            /\ received[o] \in Seq(Texts(style, o))
                            /\ log[o] \in Seq(Texts(style, o))
                            /\ torn[o] \in Seq(Texts(style, o))
      /\ DOMAIN pipes = Outputs /\ DOMAIN received = Outputs
      /\ DOMAIN log = Streams /\ DOMAIN torn = Streams
      /\ CopiesTyped(style)
      /\ copiers[s].status \in {"writing", "logging"} => item \in T
  BY <1>0 DEF Typed, ServerTyped, ClientTyped, LogTyped, CopiesTyped
<1>4. copiers[s].status # "done" /\ torn[s] = <<>>
  BY <1>0, <1>1, <1>2 DEF TornIsLast, OutputStops, OutputReads, OutputPasses, OutputLogs
<1>5. Reads => /\ text \in T /\ <<text>> \in Seq(T) /\ Tail(pipes[s]) \in Seq(T)
               /\ pipes[s] = <<text>> \o Tail(pipes[s])
  BY <1>3, HeadAndTail DEF OutputReads
<1>6. /\ DOMAIN copiers' = Streams
      /\ \A o \in Streams : o # s => copiers'[o] = copiers[o]
      /\ Stops => copiers'[s] = [status |-> "done", item |-> Nil]
      /\ Reads => copiers'[s] = [status |-> "writing", item |-> text]
      /\ Passes => copiers'[s] = [status |-> "logging", item |-> item]
      /\ Logs => copiers'[s] = [status |-> "reading", item |-> Nil]
  <2>0. CopiesTyped(style) /\ s \in Streams
    BY <1>2, <1>3
  <2>1. Stops => /\ DOMAIN copiers' = Streams
                 /\ \A o \in Streams : o # s => copiers'[o] = copiers[o]
                 /\ copiers'[s] = [status |-> "done", item |-> Nil]
    BY <2>0, HoldingIs DEF OutputStops
  <2>2. Reads => /\ DOMAIN copiers' = Streams
                 /\ \A o \in Streams : o # s => copiers'[o] = copiers[o]
                 /\ copiers'[s] = [status |-> "writing", item |-> text]
    BY <2>0, HoldingIs DEF OutputReads
  <2>3. Passes => /\ DOMAIN copiers' = Streams
                  /\ \A o \in Streams : o # s => copiers'[o] = copiers[o]
                  /\ copiers'[s] = [status |-> "logging", item |-> item]
    BY <2>0, HoldingIs DEF OutputPasses
  <2>4. Logs => /\ DOMAIN copiers' = Streams
                /\ \A o \in Streams : o # s => copiers'[o] = copiers[o]
                /\ copiers'[s] = [status |-> "reading", item |-> Nil]
    BY <2>0, HoldingIs DEF OutputLogs
  <2>. HIDE DEF Stops, Reads, Passes, Logs
  <2>. QED  BY <1>1, <2>1, <2>2, <2>3, <2>4
<1>7. /\ \A o \in Outputs : o # s => /\ received'[o] = received[o]
                                     /\ pipes'[o] = pipes[o]
                                     /\ log'[o] = log[o] /\ torn'[o] = torn[o]
      /\ log'["stdin"] = log["stdin"] /\ torn'["stdin"] = torn["stdin"]
      /\ DOMAIN received' = Outputs /\ DOMAIN pipes' = Outputs
      /\ DOMAIN log' = Streams /\ DOMAIN torn' = Streams
  BY <1>1, <1>2, <1>3 DEF OutputStops, OutputReads, OutputPasses, OutputLogs
<1>8. /\ Stops => UNCHANGED <<received, pipes, log>>
      /\ Reads => pipes'[s] = Tail(pipes[s]) /\ UNCHANGED <<received, log, torn>>
      /\ Passes => /\ received'[s] = Append(received[s], item) /\ item \in T
                   /\ UNCHANGED <<pipes, log, torn>>
      /\ Logs => /\ log'[s] = Append(log[s], item) /\ item \in T
                 /\ UNCHANGED <<pipes, received, torn>>
  BY <1>2, <1>3 DEF OutputStops, OutputReads, OutputPasses, OutputLogs
<1>9. torn'[s] # <<>> => /\ Stops /\ copiers[s].status = "logging"
                         /\ torn'[s] = <<item>>
  BY <1>1, <1>2, <1>3, <1>4 DEF OutputStops, OutputReads, OutputPasses, OutputLogs
<1>10. /\ Stops => InMouth(s) = <<>> /\ InMouth(s)' = <<>>
       /\ Reads => InMouth(s) = <<>> /\ InMouth(s)' = <<text>>
       /\ Passes => InMouth(s) = <<item>> /\ InMouth(s)' = <<>>
       /\ Logs => InMouth(s) = <<>> /\ InMouth(s)' = <<>>
       /\ \A o \in Outputs : o # s => InMouth(o)' = InMouth(o)
  BY <1>2, <1>6 DEF InMouth, Held, OutputStops, OutputReads, OutputPasses, OutputLogs
<1>11. /\ copiers[s].status \in {"reading", "writing"} => received[s] = log[s]
       /\ copiers[s].status = "logging" => received[s] = Append(log[s], item)
  BY <1>0 DEF OutputLogged
<1>12. /\ Stops => copiers[s].status \in {"reading", "logging"}
       /\ Reads => copiers[s].status = "reading" /\ pipes[s] # <<>>
       /\ Passes => copiers[s].status = "writing"
       /\ Logs => copiers[s].status = "logging"
  BY DEF OutputStops, OutputReads, OutputPasses, OutputLogs
<1>. HIDE DEF Stops, Reads, Passes, Logs, text, item
<1>13. Typed(style)'
  <2>1. /\ received'[s] \in Seq(T) /\ log'[s] \in Seq(T) /\ pipes'[s] \in Seq(T)
        /\ torn'[s] \in Seq(T)
    <3>1. Passes => Append(received[s], item) \in Seq(T)
      BY <1>3, <1>8, AppendProperties
    <3>2. Logs => Append(log[s], item) \in Seq(T)
      BY <1>3, <1>8, AppendProperties
    <3>3. torn'[s] \in Seq(T)
      <4>1. CASE torn'[s] = <<>>
        BY <4>1, EmptySeq
      <4>2. CASE torn'[s] # <<>>
        <5>1. torn'[s] = <<item>> /\ item \in T
          BY <1>3, <1>9, <4>2 DEF item
        <5>. QED  BY <5>1
      <4>. QED  BY <4>1, <4>2
    <3>. QED  BY <1>1, <1>3, <1>5, <1>8, <3>1, <3>2, <3>3
  <2>2. \A o \in Outputs : /\ received'[o] \in Seq(Texts(style, o))
                           /\ log'[o] \in Seq(Texts(style, o))
                           /\ pipes'[o] \in Seq(Texts(style, o))
                           /\ torn'[o] \in Seq(Texts(style, o))
    BY <1>3, <1>7, <2>1
  <2>3. ServerTyped(style)'
    BY <1>0, <1>1, <1>7, <2>2 DEF Typed, ServerTyped, Due
  <2>4. ClientTyped(style)'
    BY <1>0, <1>1, <1>7, <2>2 DEF Typed, ClientTyped
  <2>5. LogTyped(style)'
    BY <1>0, <1>1, <1>7, <2>2 DEF Typed, LogTyped
  <2>6. CopiesTyped(style)'
    <3>1. /\ DOMAIN copiers = Streams
          /\ \A o \in Streams : DOMAIN copiers[o] = {"status", "item"}
          /\ copiers["stdin"].status \in {"reading", "logging", "writing", "done"}
          /\ copiers["stdin"].status \in {"logging", "writing"} =>
               copiers["stdin"].item \in Items(style)
          /\ \A o \in Outputs :
               /\ copiers[o].status \in {"reading", "writing", "logging", "done"}
               /\ copiers[o].status \in {"writing", "logging"} =>
                    copiers[o].item \in Texts(style, o)
      BY <1>3 DEF CopiesTyped
    <3>2. /\ DOMAIN copiers'[s] = {"status", "item"}
          /\ copiers'[s].status \in {"reading", "writing", "logging", "done"}
          /\ copiers'[s].status \in {"writing", "logging"} => copiers'[s].item \in T
      BY <1>1, <1>5, <1>6, <1>8
    <3>. HIDE DEF T
    <3>3. \A o \in Outputs :
            /\ copiers'[o].status \in {"reading", "writing", "logging", "done"}
            /\ copiers'[o].status \in {"writing", "logging"} =>
                 copiers'[o].item \in Texts(style, o)
      BY <1>2, <1>6, <3>1, <3>2 DEF T
    <3>. QED  BY <1>2, <1>6, <3>1, <3>2, <3>3 DEF CopiesTyped
  <2>. QED  BY <2>3, <2>4, <2>5, <2>6 DEF Typed
<1>14. OutputPassed(style)'
  <2>. SUFFICES ASSUME NEW o \in Outputs
       PROVE  \E rest \in Seq(Texts(style, o)) :
                /\ written[o] = received'[o] \o (InMouth(o)' \o rest)
                /\ proxy = "waiting" => rest = pipes'[o]
    BY <1>1 DEF OutputPassed
  <2>1. PICK rest \in Seq(Texts(style, o)) :
          /\ written[o] = received[o] \o (InMouth(o) \o rest)
          /\ proxy = "waiting" => rest = pipes[o]
    BY <1>0 DEF OutputPassed
  <2>2. CASE o # s
    BY <1>7, <1>10, <2>1, <2>2
  <2>3. CASE o = s /\ (Stops \/ Logs)
    BY <1>8, <1>10, <2>1, <2>3
  <2>4. CASE o = s /\ Reads
    <3>1. proxy = "waiting"
      BY <1>0, <1>1, <1>12, <2>4 DEF ReapedIsOver, IsRunning
    <3>2. <<>> \o pipes[s] = pipes[s]
      BY <1>3, ConcatEmptySeq
    <3>. QED  BY <1>5, <1>8, <1>10, <2>1, <2>4, <3>1, <3>2
  <2>5. CASE o = s /\ Passes
    <3>. DEFINE r == received[s]
    <3>1. r \in Seq(T) /\ rest \in Seq(T) /\ item \in T
      BY <1>3, <1>8, <2>5
    <3>2. written[s] = r \o (<<item>> \o rest)
      BY <1>10, <2>1, <2>5
    <3>3. received'[s] = Append(r, item)
      BY <1>8, <2>5
    <3>. HIDE DEF r, T
    <3>4. Append(r, item) = r \o <<item>> /\ <<item>> \in Seq(T)
      BY <3>1, AppendIsConcat
    <3>5. (r \o <<item>>) \o rest = r \o (<<item>> \o rest)
      BY <3>1, <3>4, ConcatAssociative
    <3>6. <<>> \o rest = rest
      BY <3>1, ConcatEmptySeq
    <3>. QED  BY <1>8, <1>10, <2>1, <2>5, <3>2, <3>3, <3>4, <3>5, <3>6
  <2>. QED  BY <1>1, <2>2, <2>3, <2>4, <2>5
<1>15. ReapedIsOver'
  <2>1. CASE proxy = "reaped"
    <3>1. HasEnded /\ \A o \in Outputs : pipes[o] = <<>>
      BY <1>0, <2>1 DEF ReapedIsOver
    <3>2. ~Reads
      BY <1>12, <3>1
    <3>. QED  BY <1>1, <1>7, <1>8, <3>1, <3>2 DEF ReapedIsOver, HasEnded
  <2>2. CASE proxy # "reaped"
    BY <1>1, <2>2 DEF ReapedIsOver
  <2>. QED  BY <2>1, <2>2
<1>16. OutputLogged(style)'
  <2>. SUFFICES ASSUME NEW o \in Outputs
       PROVE  /\ copiers'[o].status \in {"reading", "writing"} => received'[o] = log'[o]
              /\ copiers'[o].status = "logging" =>
                   received'[o] = Append(log'[o], copiers'[o].item)
              /\ copiers'[o].status = "done" =>
                   \/ received'[o] = log'[o]
                   \/ \E t \in Texts(style, o) : received'[o] = Append(log'[o], t)
    BY DEF OutputLogged
  <2>1. CASE o # s
    BY <1>0, <1>2, <1>6, <1>7, <2>1 DEF OutputLogged
  <2>2. CASE o = s /\ Stops
    <3>1. copiers'[s].status = "done" /\ UNCHANGED <<received, log>>
      BY <1>6, <1>8, <2>2
    <3>2. CASE copiers[s].status = "reading"
      BY <1>11, <2>2, <3>1, <3>2
    <3>3. CASE copiers[s].status = "logging"
      <4>1. received[s] = Append(log[s], item) /\ item \in T
        BY <1>3, <1>11, <3>3 DEF item
      <4>. QED  BY <2>2, <3>1, <4>1
    <3>. QED  BY <1>12, <2>2, <3>2, <3>3
  <2>3. CASE o = s /\ Reads
    BY <1>6, <1>8, <1>11, <1>12, <2>3
  <2>4. CASE o = s /\ Passes
    BY <1>6, <1>8, <1>11, <1>12, <2>4
  <2>5. CASE o = s /\ Logs
    <3>1. copiers'[s].status = "reading"
      BY <1>6, <2>5
    <3>2. received'[s] = received[s] /\ log'[s] = Append(log[s], item)
      BY <1>8, <2>5
    <3>3. received[s] = Append(log[s], item)
      BY <1>11, <1>12, <2>5
    <3>. QED  BY <2>5, <3>1, <3>2, <3>3
  <2>. QED  BY <1>1, <2>1, <2>2, <2>3, <2>4, <2>5
<1>17. OutputTorn'
  <2>. SUFFICES ASSUME NEW o \in Outputs, torn'[o] # <<>>
       PROVE  received'[o] = log'[o] \o torn'[o]
    BY DEF OutputTorn
  <2>1. CASE o # s
    BY <1>0, <1>7, <2>1 DEF OutputTorn
  <2>2. CASE o = s
    <3>1. /\ Stops /\ copiers[s].status = "logging" /\ torn'[s] = <<item>>
          /\ item \in T
      BY <1>3, <1>9, <2>2 DEF item
    <3>2. received'[s] = Append(log[s], item) /\ log'[s] = log[s]
      BY <1>8, <1>11, <3>1
    <3>3. log[s] \in Seq(T)
      BY <1>3
    <3>4. Append(log[s], item) = log[s] \o <<item>>
      BY <3>1, <3>3, AppendIsConcat
    <3>. QED  BY <2>2, <3>1, <3>2, <3>4
  <2>. QED  BY <2>1, <2>2
<1>18. TornIsLast'
  <2>. SUFFICES ASSUME NEW o \in Streams, torn'[o] # <<>>
       PROVE  ~IsRunning' \/ copiers'[o].status = "done"
    BY DEF TornIsLast
  <2>1. CASE o = s
    BY <1>6, <1>9, <2>1
  <2>2. CASE o # s
    BY <1>0, <1>1, <1>2, <1>6, <1>7, <2>2 DEF TornIsLast, IsRunning
  <2>. QED  BY <2>1, <2>2
<1>19. SentNumbered' /\ InputLogged(style)' /\ InputTorn(style)' /\ InputPassed(style)'
  <2>1. /\ copiers'["stdin"] = copiers["stdin"] /\ log'["stdin"] = log["stdin"]
        /\ torn'["stdin"] = torn["stdin"]
    BY <1>2, <1>6, <1>7
  <2>. QED  BY <1>0, <1>1, <2>1
            DEF SentNumbered, InputLogged, InputTorn, InputPassed, InEar, InHand, Held,
                HasEnded
<1>. QED  BY <1>13, <1>14, <1>15, <1>16, <1>17, <1>18, <1>19 DEF SessionOf

\* The main goroutine, the other process, the log and whoever kills the proxy.
LEMMA OthersKeep ==
  ASSUME NEW style \in Styles, SessionOf(style),
         MainGoroutine \/ OtherProcess \/ LogFails \/ Kill \/ UNCHANGED vars
  PROVE  SessionOf(style)'
<1>0. /\ Typed(style) /\ SentNumbered
      /\ InputLogged(style) /\ InputTorn(style) /\ InputPassed(style)
      /\ OutputPassed(style) /\ ReapedIsOver /\ OutputLogged(style) /\ OutputTorn
      /\ TornIsLast
  BY DEF SessionOf
<1>1. UNCHANGED <<server, client, toProxy, received, copiers, log, written>>
  BY DEF MainGoroutine, Wait, ProxyExit, OtherProcess, UseFile, LogFails, Kill, vars,
         serverVars, logVars
<1>2. CASE Wait
  <2>1. /\ HasEnded /\ proxy' = "reaped" /\ proxy = "waiting" /\ toServer' = <<>>
        /\ pipes' = [s \in Outputs |-> <<>>] /\ torn' = torn
    BY <1>2 DEF Wait, logVars
  <2>2. Typed(style)'
    <3>1. toServer' \in Seq(Items(style)) /\ \A s \in Outputs : pipes'[s] \in Seq(Texts(style, s))
      BY <2>1
    <3>2. ServerTyped(style)'
      BY <1>0, <1>1, <2>1, <3>1 DEF Typed, ServerTyped, Due
    <3>. QED  BY <1>0, <1>1, <2>1, <3>2 DEF Typed, ClientTyped, CopiesTyped, LogTyped
  <2>3. ReapedIsOver' /\ InputPassed(style)'
    BY <1>1, <2>1 DEF ReapedIsOver, InputPassed, HasEnded
  <2>4. OutputPassed(style)'
    BY <1>0, <1>1, <2>1 DEF OutputPassed, InMouth, Held
  <2>5. InputTorn(style)' /\ OutputTorn' /\ TornIsLast' /\ InputLogged(style)'
    BY <1>0, <1>1, <2>1
       DEF InputTorn, OutputTorn, TornIsLast, InputLogged, InEar, Held, IsRunning
  <2>. QED  BY <1>0, <1>1, <2>2, <2>3, <2>4, <2>5
            DEF SessionOf, SentNumbered, OutputLogged
<1>3. CASE ProxyExit \/ OtherProcess \/ LogFails \/ UNCHANGED vars
  <2>1. /\ UNCHANGED <<toServer, pipes, torn>>
        /\ proxy' = proxy \/ proxy' \in {"failed", "ended"}
    BY <1>3 DEF ProxyExit, OtherProcess, UseFile, LogFails, vars, serverVars, logVars
  <2>2. Typed(style)'
    BY <1>0, <1>1, <2>1 DEF Typed, ServerTyped, ClientTyped, CopiesTyped, LogTyped, Due
  <2>. QED  BY <1>0, <1>1, <2>1, <2>2
            DEF SessionOf, SentNumbered, InputLogged, InputTorn, InputPassed, InEar,
                InHand, InMouth, Held, HasEnded, OutputPassed, ReapedIsOver,
                OutputLogged, OutputTorn, TornIsLast, IsRunning
<1>4. CASE Kill
  <2>0. /\ "stdin" \in Streams /\ \A s \in Outputs : s \in Streams /\ s # "stdin"
        /\ Streams = Outputs \cup {"stdin"} /\ DOMAIN torn = Streams
    BY <1>0 DEF Streams, Outputs, Typed, LogTyped
  <2>1. /\ UNCHANGED <<toServer, pipes>> /\ proxy' = "killed" /\ IsRunning
        /\ \/ torn' = torn
           \/ \E s \in Streams : /\ copiers[s].status = "logging"
                                 /\ torn' = [torn EXCEPT ![s] = <<copiers[s].item>>]
    BY <1>4 DEF Kill
  <2>2. /\ DOMAIN torn' = Streams
        /\ \A s \in Streams : \/ torn'[s] = torn[s]
                              \/ /\ copiers[s].status = "logging"
                                 /\ torn'[s] = <<copiers[s].item>>
    BY <2>0, <2>1
  <2>3. /\ copiers["stdin"].status = "logging" => copiers["stdin"].item \in Items(style)
        /\ \A s \in Outputs : copiers[s].status = "logging" =>
                                copiers[s].item \in Texts(style, s)
        /\ log["stdin"] \in Seq(Items(style)) /\ torn["stdin"] \in Seq(Items(style))
        /\ toProxy \in Seq(Items(style))
        /\ \A s \in Outputs : /\ log[s] \in Seq(Texts(style, s))
                              /\ torn[s] \in Seq(Texts(style, s))
    BY <1>0 DEF Typed, CopiesTyped, LogTyped, ClientTyped
  <2>4. Typed(style)'
    <3>1. /\ torn'["stdin"] \in Seq(Items(style))
          /\ \A s \in Outputs : torn'[s] \in Seq(Texts(style, s))
      <4>1. torn'["stdin"] \in Seq(Items(style))
        <5>1. CASE copiers["stdin"].status = "logging"
                   /\ torn'["stdin"] = <<copiers["stdin"].item>>
          BY <2>3, <5>1
        <5>. QED  BY <2>0, <2>2, <2>3, <5>1
      <4>2. ASSUME NEW s \in Outputs
            PROVE  torn'[s] \in Seq(Texts(style, s))
        <5>1. CASE copiers[s].status = "logging" /\ torn'[s] = <<copiers[s].item>>
          <6>1. copiers[s].item \in Texts(style, s)
            BY <2>3, <5>1
          <6>. QED  BY <5>1, <6>1
        <5>. QED  BY <2>0, <2>2, <2>3, <5>1
      <4>. QED  BY <4>1, <4>2
    <3>2. LogTyped(style)'
      BY <1>0, <1>1, <2>2, <3>1 DEF Typed, LogTyped
    <3>. QED  BY <1>0, <1>1, <2>1, <3>2 DEF Typed, ServerTyped, ClientTyped, CopiesTyped, Due
  <2>5. InputTorn(style)'
    <3>1. CASE torn'["stdin"] = torn["stdin"]
      BY <1>0, <1>1, <3>1 DEF InputTorn
    <3>2. CASE /\ copiers["stdin"].status = "logging"
               /\ torn'["stdin"] = <<copiers["stdin"].item>>
      <4>. DEFINE l == log["stdin"]
                  item == copiers["stdin"].item
                  I == Items(style)
      <4>1. client.sent = l \o (<<item>> \o toProxy)
        BY <1>0, <3>2 DEF InputLogged, InEar, Held
      <4>2. l \in Seq(I) /\ <<item>> \in Seq(I) /\ toProxy \in Seq(I)
        BY <2>3, <3>2
      <4>. HIDE DEF l, item, I
      <4>3. (l \o <<item>>) \o toProxy = l \o (<<item>> \o toProxy)
        BY <4>2, ConcatAssociative
      <4>. QED  BY <1>1, <3>2, <4>1, <4>2, <4>3 DEF InputTorn, l, item, I
    <3>. QED  BY <2>0, <2>2, <3>1, <3>2
  <2>6. OutputTorn'
    <3>. SUFFICES ASSUME NEW s \in Outputs, torn'[s] # <<>>
         PROVE  received[s] = log[s] \o torn'[s]
      BY <1>1 DEF OutputTorn
    <3>1. CASE torn'[s] = torn[s]
      BY <1>0, <3>1 DEF OutputTorn
    <3>2. CASE copiers[s].status = "logging" /\ torn'[s] = <<copiers[s].item>>
      <4>1. received[s] = Append(log[s], copiers[s].item)
        BY <1>0, <3>2 DEF OutputLogged
      <4>2. log[s] \in Seq(Texts(style, s)) /\ copiers[s].item \in Texts(style, s)
        BY <2>3, <3>2
      <4>. QED  BY <3>2, <4>1, <4>2, AppendIsConcat
    <3>. QED  BY <2>0, <2>2, <3>1, <3>2
  <2>7. TornIsLast'
    BY <2>1 DEF TornIsLast, IsRunning
  <2>8. InputLogged(style)' /\ OutputLogged(style)'
    BY <1>0, <1>1 DEF InputLogged, OutputLogged, InEar, Held
  <2>9. InputPassed(style)' /\ OutputPassed(style)' /\ ReapedIsOver' /\ SentNumbered'
    BY <1>0, <1>1, <2>1
       DEF InputPassed, OutputPassed, ReapedIsOver, SentNumbered, InHand, InMouth, Held,
           HasEnded
  <2>. QED  BY <2>4, <2>5, <2>6, <2>7, <2>8, <2>9 DEF SessionOf
<1>. QED  BY <1>2, <1>3, <1>4 DEF MainGoroutine

\* It holds in every state of a session.
SessionInv == \E style \in Styles : SessionOf(style)

LEMMA InitSessionInv == ProxyInit => SessionInv
<1>. SUFFICES ASSUME ProxyInit
     PROVE  SessionInv
  OBVIOUS
<1>1. PICK style \in Styles : client = [style |-> style, sent |-> <<>>, closed |-> FALSE]
  BY DEF ProxyInit, Styles
<1>2. /\ toServer = <<>> /\ toProxy = <<>> /\ proxy = "waiting"
      /\ server = [status |-> "reading", mode |-> Nil, inHeaders |-> FALSE, answer |-> Nil]
      /\ pipes = [s \in Outputs |-> <<>>] /\ received = [s \in Outputs |-> <<>>]
      /\ written = [s \in Outputs |-> <<>>] /\ log = [s \in Streams |-> <<>>]
      /\ torn = [s \in Streams |-> <<>>]
      /\ copiers = [s \in Streams |-> [status |-> "reading", item |-> Nil]]
  BY DEF ProxyInit, ServerInit
<1>3. \A s \in Outputs : s \in Streams
  BY DEF Streams
<1>4. "stdin" \in Streams
  BY DEF Streams
<1>5. \A S : <<>> \in Seq(S) /\ <<>> \o <<>> = <<>>
  BY EmptySeq, ConcatEmptySeq
<1>6. Typed(style)
  <2>1. ServerTyped(style)
    BY <1>2, <1>5 DEF ServerTyped, Due
  <2>2. ClientTyped(style)
    BY <1>1, <1>2, <1>5 DEF ClientTyped
  <2>3. CopiesTyped(style)
    BY <1>2, <1>3, <1>4 DEF CopiesTyped
  <2>4. LogTyped(style)
    BY <1>2, <1>3, <1>4, <1>5 DEF LogTyped
  <2>. QED  BY <2>1, <2>2, <2>3, <2>4 DEF Typed
<1>7. SentNumbered
  <2>1. DOMAIN client.sent = {}
    BY <1>1
  <2>. QED  BY <2>1 DEF SentNumbered
<1>8. InputLogged(style) /\ InputTorn(style) /\ InputPassed(style)
  <2>1. InHand = <<>> /\ InEar = <<>>
    BY <1>2, <1>4 DEF InHand, InEar, Held
  <2>2. log["stdin"] = <<>> /\ torn["stdin"] = <<>> /\ client.sent = <<>>
    BY <1>1, <1>2, <1>4
  <2>. QED  BY <1>2, <1>5, <2>1, <2>2 DEF InputLogged, InputTorn, InputPassed
<1>9. OutputPassed(style) /\ ReapedIsOver /\ OutputLogged(style) /\ OutputTorn /\ TornIsLast
  <2>1. \A s \in Outputs : InMouth(s) = <<>>
    BY <1>2, <1>3 DEF InMouth, Held
  <2>. QED  BY <1>2, <1>3, <1>5, <2>1
            DEF OutputPassed, ReapedIsOver, OutputLogged, OutputTorn, TornIsLast
<1>. QED  BY <1>6, <1>7, <1>8, <1>9 DEF SessionInv, SessionOf

LEMMA NextSessionInv == SessionInv /\ [ProxyNext]_vars => SessionInv'
<1>. SUFFICES ASSUME SessionInv, [ProxyNext]_vars
     PROVE  SessionInv'
  OBVIOUS
<1>1. PICK style \in Styles : SessionOf(style)
  BY DEF SessionInv
<1>2. SessionOf(style)'
  <2>1. CASE Child
    BY <1>1, <2>1, ChildKeeps
  <2>2. CASE CloseInput \/ \E kind \in ItemKinds : Send(kind)
    BY <1>1, <2>2, ClientKeeps
  <2>3. CASE InputCopy
    BY <1>1, <2>3, InputKeeps
  <2>4. CASE \E s \in Outputs : OutputCopy(s)
    BY <1>1, <2>4, OutputKeeps
  <2>5. CASE MainGoroutine \/ OtherProcess \/ LogFails \/ Kill \/ UNCHANGED vars
    BY <1>1, <2>5, OthersKeep
  <2>. QED  BY <2>1, <2>2, <2>3, <2>4, <2>5 DEF ProxyNext
<1>. QED  BY <1>2 DEF SessionInv

-------------------------------------------------------------------------------
(* The theorems about streams. *)

\* A child's output is passed on whole while it has not been reaped
\* (OutputIsWhole): what the client has not got is in a copy's buffer or in the pipe.
THEOREM OutputPassesWhole == ProxySpec => []OutputIsWhole
<1>1. SessionInv => OutputIsWhole
  BY DEF SessionInv, SessionOf, OutputPassed, OutputIsWhole, InMouth
<1>. QED  BY <1>1, InitSessionInv, NextSessionInv, PTL DEF ProxySpec

\* The log accounts for the session.
LEMMA LogAccounts == SessionInv => LogAccountsForTheSession
<1>. SUFFICES ASSUME NEW style \in Styles, SessionOf(style)
     PROVE  LogAccountsForTheSession
  BY DEF SessionInv
<1>1. /\ log["stdin"] \in Seq(Items(style)) /\ toServer \in Seq(Items(style))
      /\ torn["stdin"] \in Seq(Items(style))
      /\ InHand \in Seq(Items(style))
      /\ \A s \in Outputs : /\ log[s] \in Seq(Texts(style, s))
                            /\ torn[s] \in Seq(Texts(style, s))
                            /\ received[s] \in Seq(Texts(style, s))
                            /\ copiers[s].status \in {"reading", "writing", "logging", "done"}
                            /\ copiers[s].status = "logging" =>
                                 copiers[s].item \in Texts(style, s)
  BY EarTyped DEF SessionOf, Typed, ServerTyped, ClientTyped, LogTyped, CopiesTyped
<1>2. IsPrefix(log["stdin"] \o torn["stdin"], client.sent)
  <2>. DEFINE l == log["stdin"]
              n == torn["stdin"]
              I == Items(style)
  <2>1. PICK rest \in Seq(I) : client.sent = (l \o n) \o rest
    <3>1. CASE n = <<>>
      <4>1. l \o n = l
        BY <1>1, <3>1, ConcatEmptySeq
      <4>. QED  BY <4>1 DEF SessionOf, InputLogged
    <3>2. CASE n # <<>>
      BY <3>2 DEF SessionOf, InputTorn
    <3>. QED  BY <3>1, <3>2
  <2>2. l \o n \in Seq(I)
    BY <1>1, ConcatProperties
  <2>. HIDE DEF l, n, I
  <2>. DEFINE logged == l \o n
  <2>3. logged \in Seq(I) /\ client.sent = logged \o rest
    BY <2>1, <2>2
  <2>. HIDE DEF logged
  <2>4. IsPrefix(logged, logged \o rest)
    BY <2>3, FirstIsPrefix
  <2>. QED  BY <2>3, <2>4 DEF logged, l, n
<1>3. ASSUME ~HasEnded
      PROVE  IsSuffix(toServer \o InHand, log["stdin"])
  <2>1. PICK taken \in Seq(Items(style)) : log["stdin"] = taken \o (toServer \o InHand)
    BY <1>3 DEF SessionOf, InputPassed
  <2>2. toServer \o InHand \in Seq(Items(style))
    BY <1>1, ConcatProperties
  <2>. DEFINE passed == toServer \o InHand
  <2>3. passed \in Seq(Items(style))
    BY <2>2
  <2>. HIDE DEF passed
  <2>4. IsSuffix(passed, taken \o passed)
    BY <2>3, LastIsSuffix
  <2>. QED  BY <2>1, <2>4 DEF passed
<1>4. ASSUME NEW s \in Outputs
      PROVE  /\ IsPrefix(log[s] \o torn[s], received[s])
             /\ Len(received[s]) <= Len(log[s]) + 1
  <2>1. \/ received[s] = log[s]
        \/ \E text \in Texts(style, s) : received[s] = Append(log[s], text)
    BY <1>1 DEF SessionOf, OutputLogged
  <2>. DEFINE l == log[s]
              n == torn[s]
              T == Texts(style, s)
  <2>2. l \in Seq(T) /\ Len(l) \in Nat /\ n \in Seq(T) /\ received[s] \in Seq(T)
    BY <1>1, LenProperties
  <2>3. n # <<>> => received[s] = l \o n
    BY DEF SessionOf, OutputTorn
  <2>. HIDE DEF l, n, T
  <2>4. PICK rest \in Seq(T) : received[s] = l \o rest /\ Len(rest) \in {0, 1}
    <3>1. CASE received[s] = l
      <4>1. l \o <<>> = l /\ <<>> \in Seq(T) /\ Len(<<>>) = 0
        BY <2>2, ConcatEmptySeq, EmptySeq
      <4>. QED  BY <3>1, <4>1
    <3>2. ASSUME NEW text \in T, received[s] = Append(l, text)
          PROVE  \E rest \in Seq(T) : received[s] = l \o rest /\ Len(rest) \in {0, 1}
      <4>1. Append(l, text) = l \o <<text>> /\ <<text>> \in Seq(T) /\ Len(<<text>>) = 1
        BY <2>2, AppendIsConcat
      <4>. QED  BY <3>2, <4>1
    <3>. QED  BY <2>1, <3>1, <3>2 DEF l, T
  <2>5. Len(received[s]) <= Len(l) + 1
    <3>1. Len(l \o rest) = Len(l) + Len(rest)
      BY <2>2, ConcatProperties
    <3>2. Len(received[s]) = Len(l) + Len(rest)
      BY <2>4, <3>1
    <3>3. Len(rest) = 0 \/ Len(rest) = 1
      BY <2>4
    <3>4. Len(l) \in Nat
      BY <2>2
    <3>. QED  BY <3>2, <3>3, <3>4
  <2>6. IsPrefix(l \o n, received[s])
    <3>1. CASE n = <<>>
      <4>1. l \o n = l
        BY <2>2, <3>1, ConcatEmptySeq
      <4>2. IsPrefix(l, l \o rest)
        BY <2>2, FirstIsPrefix
      <4>. QED  BY <2>4, <4>1, <4>2
    <3>2. CASE n # <<>>
      <4>. DEFINE r == received[s]
      <4>1. r = l \o n /\ r \in Seq(T)
        BY <2>2, <2>3, <3>2
      <4>. HIDE DEF r
      <4>2. IsPrefix(r, r \o <<>>) /\ r \o <<>> = r
        BY <4>1, EmptySeq, FirstIsPrefix, ConcatEmptySeq
      <4>. QED  BY <4>1, <4>2 DEF r
    <3>. QED  BY <3>1, <3>2
  <2>. QED  BY <2>5, <2>6 DEF l, n
<1>. QED  BY <1>2, <1>3, <1>4 DEF LogAccountsForTheSession, InHand

\* The log is a prefix of what was said, whole but for its last entry, and lacks at
\* most what is being passed on (LogAccountsForTheSession), whenever it fails.
THEOREM LogTellsTheSession == ProxySpec => []LogAccountsForTheSession
BY InitSessionInv, NextSessionInv, LogAccounts, PTL DEF ProxySpec

\* Only the reply to what could not be parsed is unreadable, with the answer
\* after it (UnreadableOnlyAfterParseError), whatever a client sends.
THEOREM AnswersAreReadable == ProxySpec => []UnreadableOnlyAfterParseError
<1>1. SessionInv => UnreadableOnlyAfterParseError
  <2>. SUFFICES ASSUME NEW style \in Styles, SessionOf(style)
       PROVE  UnreadableOnlyAfterParseError
    BY DEF SessionInv
  <2>. DEFINE answers == received["stdout"]
  <2>1. answers \in Seq(AnswersIn(style)) /\ client.style = style
    BY DEF SessionOf, Typed, ClientTyped, Texts, Outputs
  <2>2. DOMAIN answers = 1 .. Len(answers) /\ Len(answers) \in Nat
    BY <2>1, LenProperties
  <2>3. \A n \in DOMAIN answers : answers[n] \in AnswersIn(style)
    BY <2>1, <2>2, ElementOfSeq
  <2>. SUFFICES ASSUME NEW n \in DOMAIN answers
       PROVE  ReadableIn(answers, n) \/ \E k \in {n - 1, n} \cap DOMAIN answers :
                                           answers[k].kind = "parseError"
    BY DEF UnreadableOnlyAfterParseError
  <2>. HIDE DEF answers
  <2>4. style \in {"plain", "framed"}
    BY DEF Styles, Lines, Frames
  <2>5. \A k \in DOMAIN answers :
          answers[k].mode = style
            \/ (answers[k].kind = "parseError" /\ answers[k].mode = "framed")
    BY <2>3 DEF AnswersIn
  <2>6. n > 1 => n - 1 \in DOMAIN answers
    BY <2>2
  <2>7. CASE style = "framed"
    BY <2>1, <2>5, <2>7 DEF ReadableIn
  <2>8. CASE style = "plain"
    BY <2>1, <2>2, <2>5, <2>6, <2>8 DEF ReadableIn
  <2>. QED  BY <2>4, <2>7, <2>8
<1>. QED  BY <1>1, InitSessionInv, NextSessionInv, PTL DEF ProxySpec

-------------------------------------------------------------------------------
(* Answers follow requests. *)

\* Of the first t items of a clean client, the server has answered the requests,
\* each once and in order, but for the answer that is due.
Answered(style, t) ==
  LET w == written["stdout"]
  IN  /\ ~server.inHeaders
      /\ \A n \in DOMAIN w :
           w[n].id \in RequestIDs /\ w[n].id <= t /\ w[n].mode = style
      /\ \A m, n \in DOMAIN w : m < n => w[m].id < w[n].id
      /\ Due => /\ server.answer.id \in RequestIDs /\ server.answer.id <= t
                /\ server.answer.mode = style
                /\ \A n \in DOMAIN w : w[n].id < server.answer.id
      /\ \A id \in RequestIDs :
           id <= t => \/ \E n \in DOMAIN w : w[n].id = id
                      \/ Due /\ server.answer.id = id

\* While it runs, the server has taken those items.
TakenBy(t) ==
  ~HasEnded => Len(log["stdin"]) = t + Len(toServer) + Len(InHand)

AnsweredInv(style) ==
  \E t \in 0 .. Len(client.sent) :
    /\ IsClean => Answered(style, t)
    /\ TakenBy(t)

\* The next item that the server takes is the next one that was sent.
LEMMA TakenIsNext ==
  ASSUME NEW style \in Styles, SessionOf(style), ~HasEnded, toServer # <<>>,
         NEW t \in Nat, TakenBy(t)
  PROVE  /\ t + 1 \in DOMAIN client.sent
         /\ client.sent[t + 1] = Head(toServer)
         /\ Head(toServer).id = t + 1
         /\ Head(toServer) \in Items(style)
<1>1. /\ log["stdin"] \in Seq(Items(style)) /\ toServer \in Seq(Items(style))
      /\ client.sent \in Seq(Items(style)) /\ InHand \in Seq(Items(style))
  BY DEF SessionOf, Typed, ServerTyped, ClientTyped, LogTyped, CopiesTyped, InHand, Held
<1>2. PICK taken \in Seq(Items(style)) : log["stdin"] = taken \o (toServer \o InHand)
  BY DEF SessionOf, InputPassed
<1>3. PICK rest \in Seq(Items(style)) : client.sent = log["stdin"] \o rest
  BY DEF SessionOf, InputLogged
<1>. DEFINE l == log["stdin"]
            p == toServer \o InHand
            sent == client.sent
<1>4. /\ Len(toServer) \in Nat \ {0} /\ Len(InHand) \in Nat /\ Len(taken) \in Nat
      /\ Len(rest) \in Nat
  BY <1>1, EmptySeq, LenProperties
<1>5. /\ p \in Seq(Items(style)) /\ Len(p) = Len(toServer) + Len(InHand)
      /\ p[1] = toServer[1]
  BY <1>1, <1>4, ConcatProperties
<1>6. Len(l) = t + Len(toServer) + Len(InHand)
  BY DEF TakenBy
<1>7. l \in Seq(Items(style)) /\ sent \in Seq(Items(style))
  BY <1>1
<1>8. Head(toServer) = toServer[1] /\ Head(toServer) \in Items(style)
  BY <1>1, HeadTailProperties
<1>9. l = taken \o p /\ sent = l \o rest
  BY <1>2, <1>3
<1>. HIDE DEF l, p, sent
<1>10. /\ Len(l) = Len(taken) + Len(p)
       /\ \A i \in 1 .. Len(taken) + Len(p) :
            l[i] = IF i <= Len(taken) THEN taken[i] ELSE p[i - Len(taken)]
  <2>1. /\ Len(taken \o p) = Len(taken) + Len(p)
        /\ \A i \in 1 .. Len(taken) + Len(p) :
             (taken \o p)[i] = IF i <= Len(taken) THEN taken[i] ELSE p[i - Len(taken)]
    <3>1. taken \in Seq(Items(style)) /\ p \in Seq(Items(style))
      BY <1>5
    <3>. QED  BY <3>1, ConcatProperties
  <2>. QED  BY <1>9, <2>1
<1>11. Len(taken) = t
  BY <1>4, <1>5, <1>6, <1>10
<1>12. l[t + 1] = p[1]
  BY <1>4, <1>5, <1>10, <1>11
<1>13. /\ Len(sent) = Len(l) + Len(rest)
       /\ \A i \in 1 .. Len(l) + Len(rest) :
            sent[i] = IF i <= Len(l) THEN l[i] ELSE rest[i - Len(l)]
  BY <1>7, <1>9, ConcatProperties
<1>14. t + 1 \in 1 .. Len(l) /\ t + 1 \in 1 .. Len(sent)
  BY <1>4, <1>6, <1>13
<1>15. sent[t + 1] = l[t + 1]
  BY <1>4, <1>6, <1>13, <1>14
<1>16. DOMAIN sent = 1 .. Len(sent)
  BY <1>7, LenProperties
<1>17. sent[t + 1].id = t + 1
  BY <1>14, <1>16 DEF SessionOf, SentNumbered, sent
<1>. QED  BY <1>5, <1>8, <1>12, <1>14, <1>15, <1>16, <1>17 DEF sent

\* What the server of a clean client may do.
LEMMA CleanChild ==
  ASSUME NEW style \in Styles, SessionOf(style), Child, ~server.inHeaders,
         toServer # <<>> => Head(toServer).kind \in Requests \cup {"notification"}
  PROVE  \/ /\ Takes /\ written' = written /\ ~server'.inHeaders
            /\ IF Head(toServer).kind \in Requests
               THEN /\ Due' /\ server'.answer.id = Head(toServer).id
                    /\ server'.answer.mode = style
               ELSE ~Due' /\ ~HasEnded'
         \/ /\ server'.status = "exited" /\ written' = written
            /\ server'.inHeaders = server.inHeaders
         \/ /\ Due /\ Due' /\ toServer' = toServer /\ written' = written
            /\ server'.inHeaders = server.inHeaders
            /\ server'.answer.id = server.answer.id
            /\ server'.answer.mode = server.answer.mode
         \/ /\ Due /\ toServer' = toServer /\ server'.status = "reading"
            /\ server'.inHeaders = server.inHeaders
            /\ Puts("stdout", server.answer)
<1>0. /\ ServerTyped(style) /\ LogTyped(style)
      /\ toServer \in Seq(Items(style))
      /\ server \in [status : {"reading", "calling", "writing", "exited", "failed"},
                     mode : {Nil, style}, inHeaders : BOOLEAN,
                     answer : AnswersIn(style) \cup {Nil}]
  BY DEF SessionOf, Typed, ServerTyped
<1>1. /\ pipes' = pipes => written' = written
      /\ \A s \in Outputs : \A text \in Texts(style, s) :
           pipes' = [pipes EXCEPT ![s] = Append(@, text)] => Puts(s, text)
  BY <1>0, WrittenIsPut
<1>2. CASE readPlainMessage \/ readFrame
  <2>. DEFINE item == Head(toServer)
  <2>1. /\ Takes /\ pipes' = pipes /\ Handle(item)
        /\ item.kind \notin {"blank", "stray"}
    BY <1>2 DEF readPlainMessage, readFrame, Take, Takes
  <2>2. item \in Items(style) /\ item.kind \in Requests \cup {"notification"}
    BY <1>0, <2>1, HeadTailProperties DEF Takes
  <2>. HIDE DEF item
  <2>3. /\ server' \in [status : {"reading", "calling", "writing"},
                        mode : {Nil, style}, inHeaders : {FALSE},
                        answer : AnswersIn(style) \cup {Nil}]
        /\ item.kind \in Requests =>
             /\ Due'
             /\ server'.answer.id = item.id /\ server'.answer.mode = style
        /\ item.kind = "notification" => server'.status = "reading"
    BY <1>0, <2>1, <2>2, HandlesOne DEF Takes
  <2>4. "notification" \notin Requests
    BY DEF Requests
  <2>. QED  BY <1>1, <2>1, <2>2, <2>3, <2>4 DEF item, Due, HasEnded
<1>3. ~(SkipHeader \/ NoLength \/ CutFrame)
  BY DEF SkipHeader, NoLength, CutFrame, Take, Lines, Frames, Requests
<1>4. CASE EndOfInput \/ (Exit /\ UNCHANGED toServer)
  <2>1. server' = [server EXCEPT !.status = "exited"] /\ pipes' = pipes
    BY <1>4 DEF EndOfInput, Exit
  <2>2. server'.status = "exited" /\ server'.inHeaders = server.inHeaders
    BY <1>0, <2>1
  <2>. QED  BY <1>1, <2>1, <2>2
<1>5. CASE writeMessage
  <2>1. /\ server.status = "writing" /\ toServer' = toServer
        /\ server' = [server EXCEPT !.status = "reading", !.answer = Nil]
        /\ pipes' = [pipes EXCEPT !["stdout"] = Append(@, server.answer)]
    BY <1>5 DEF writeMessage
  <2>2. server'.status = "reading" /\ server'.inHeaders = server.inHeaders
    BY <1>0, <2>1
  <2>3. "stdout" \in Outputs /\ server.answer \in Texts(style, "stdout")
    BY <1>0, <2>1 DEF ServerTyped, Texts, Outputs, Due
  <2>. QED  BY <1>1, <2>1, <2>2, <2>3 DEF Due
<1>7. CASE CallTool
  <2>1. PICK kind \in {"result", "toolError"} :
          server' = [server EXCEPT !.status = "writing", !.answer.kind = kind]
    BY <1>7 DEF CallTool
  <2>2. server.status = "calling" /\ server.answer \in AnswersIn(style)
    BY <1>0, <1>7 DEF CallTool, Due, ServerTyped
  <2>3. /\ server'.status = "writing" /\ server'.inHeaders = server.inHeaders
        /\ server'.answer.id = server.answer.id
        /\ server'.answer.mode = server.answer.mode
    BY <1>0, <2>1, <2>2 DEF AnswersIn
  <2>. QED  BY <1>1, <1>7, <2>2, <2>3 DEF CallTool, Due
<1>6. \/ readPlainMessage \/ readFrame \/ SkipHeader \/ NoLength \/ CutFrame
      \/ EndOfInput \/ CallTool \/ writeMessage \/ (Exit /\ UNCHANGED toServer)
  BY DEF Child, Serve
<1>. QED  BY <1>2, <1>3, <1>4, <1>5, <1>6, <1>7

\* A step of the server answers what it took, in its turn.
LEMMA ChildAnswers ==
  ASSUME NEW style \in Styles, SessionOf(style), AnsweredInv(style), Child
  PROVE  AnsweredInv(style)'
<1>1. PICK t \in 0 .. Len(client.sent) : (IsClean => Answered(style, t)) /\ TakenBy(t)
  BY DEF AnsweredInv
<1>2. /\ ~HasEnded /\ ChildDoes(style)
      /\ UNCHANGED <<client, toProxy, received, copiers, log, torn, logWorks, proxy>>
  BY ChildRuns DEF SessionOf, Typed
<1>3. /\ toServer \in Seq(Items(style)) /\ client.sent \in Seq(Items(style))
      /\ Len(toServer) \in Nat /\ Len(client.sent) \in Nat
      /\ DOMAIN client.sent = 1 .. Len(client.sent)
  BY LenProperties DEF SessionOf, Typed, ServerTyped, ClientTyped
<1>4. InHand' = InHand /\ Len(InHand) \in Nat /\ Len(log["stdin"]) \in Nat
  <2>1. log["stdin"] \in Seq(Items(style)) /\ InHand \in Seq(Items(style))
    BY EarTyped DEF SessionOf, Typed, LogTyped
  <2>. QED  BY <1>2, <2>1, LenProperties DEF InHand, Held
<1>5. RequestIDs' = RequestIDs /\ IsClean' = IsClean
  BY <1>2 DEF RequestIDs, IsClean
<1>6. \A id \in RequestIDs : id \in 1 .. Len(client.sent)
  BY <1>3 DEF RequestIDs
<1>. DEFINE w == written["stdout"]
<1>7. /\ w \in Seq(AnswersIn(style)) /\ Len(w) \in Nat /\ DOMAIN w = 1 .. Len(w)
      /\ DOMAIN written = Outputs /\ "stdout" \in Outputs
  <2>1. w \in Seq(AnswersIn(style)) /\ DOMAIN written = Outputs
    BY DEF SessionOf, Typed, LogTyped, Texts, Outputs
  <2>. QED  BY <2>1, LenProperties DEF Outputs
\* Whatever the client sent, the count goes on with what is taken.
<1>8. CASE ~IsClean
  <2>1. CASE Takes /\ ~HasEnded'
    <3>1. t + 1 \in 0 .. Len(client.sent)
      BY <1>1, <1>2, <1>3, <2>1, TakenIsNext DEF Takes
    <3>2. Len(toServer') = Len(toServer) - 1
      BY <1>3, <2>1, HeadTailProperties DEF Takes
    <3>3. TakenBy(t + 1)'
      BY <1>1, <1>2, <1>3, <1>4, <3>2 DEF TakenBy
    <3>. QED  BY <1>2, <1>5, <1>8, <3>1, <3>3 DEF AnsweredInv
  <2>2. CASE HasEnded' \/ toServer' = toServer
    <3>1. TakenBy(t)'
      BY <1>1, <1>2, <1>4, <2>2 DEF TakenBy
    <3>. QED  BY <1>1, <1>2, <1>5, <1>8, <3>1 DEF AnsweredInv
  <2>. QED  BY <1>2, <2>1, <2>2 DEF ChildDoes, HasEnded
<1>9. CASE IsClean
  <2>0. Answered(style, t)
    BY <1>1, <1>9
  <2>1. /\ ~server.inHeaders
        /\ \A n \in DOMAIN w :
             w[n].id \in RequestIDs /\ w[n].id <= t /\ w[n].mode = style
        /\ \A m, n \in DOMAIN w : m < n => w[m].id < w[n].id
        /\ Due => /\ server.answer.id \in RequestIDs /\ server.answer.id <= t
                  /\ server.answer.mode = style
                  /\ \A n \in DOMAIN w : w[n].id < server.answer.id
        /\ \A id \in RequestIDs :
             id <= t => \/ \E n \in DOMAIN w : w[n].id = id
                        \/ Due /\ server.answer.id = id
    BY <2>0 DEF Answered
  <2>2. toServer # <<>> => /\ t + 1 \in DOMAIN client.sent
                           /\ client.sent[t + 1] = Head(toServer)
                           /\ Head(toServer).id = t + 1
    BY <1>1, <1>2, TakenIsNext
  <2>3. toServer # <<>> => Head(toServer).kind \in Requests \cup {"notification"}
    BY <1>9, <2>2 DEF IsClean
  <2>4. CASE /\ Takes /\ written' = written /\ ~server'.inHeaders
             /\ IF Head(toServer).kind \in Requests
                THEN /\ Due' /\ server'.answer.id = Head(toServer).id
                     /\ server'.answer.mode = style
                ELSE ~Due' /\ ~HasEnded'
    <3>1. /\ t + 1 \in DOMAIN client.sent /\ client.sent[t + 1] = Head(toServer)
          /\ Head(toServer).id = t + 1 /\ ~Due
      BY <2>2, <2>4 DEF Takes, Due
    <3>2. Len(toServer') = Len(toServer) - 1
      BY <1>3, <2>4, HeadTailProperties DEF Takes
    <3>3. TakenBy(t + 1)'
      BY <1>1, <1>2, <1>3, <1>4, <3>2 DEF TakenBy
    <3>4. t + 1 \in RequestIDs <=> Head(toServer).kind \in Requests
      BY <3>1 DEF RequestIDs
    <3>5. \A id \in RequestIDs : id <= t + 1 => id <= t \/ id = t + 1
      BY <1>1, <1>3, <1>6
    <3>6. Answered(style, t + 1)'
      <4>1. \A n \in DOMAIN w : w[n].id \in RequestIDs /\ w[n].id < t + 1 /\ w[n].id <= t + 1
                                /\ w[n].mode = style
        BY <1>1, <1>6, <2>1
      <4>2. CASE t + 1 \in RequestIDs
        <5>1. Due' /\ server'.answer.id = t + 1 /\ server'.answer.mode = style
          BY <2>4, <3>1, <3>4, <4>2
        <5>2. \A id \in RequestIDs :
                id <= t + 1 => \/ \E n \in DOMAIN w : w[n].id = id
                               \/ Due' /\ server'.answer.id = id
          BY <2>1, <3>1, <3>5, <5>1
        <5>3. t + 1 <= t + 1
          BY <1>1
        <5>. QED  BY <1>5, <2>1, <2>4, <4>1, <4>2, <5>1, <5>2, <5>3 DEF Answered
      <4>3. CASE t + 1 \notin RequestIDs
        <5>1. ~Due'
          BY <2>4, <3>4, <4>3
        <5>2. \A id \in RequestIDs :
                id <= t + 1 => \E n \in DOMAIN w : w[n].id = id
          BY <2>1, <3>1, <3>5, <4>3
        <5>. QED  BY <1>5, <2>1, <2>4, <4>1, <5>1, <5>2 DEF Answered
      <4>. QED  BY <4>2, <4>3
    <3>7. t + 1 \in 0 .. Len(client.sent)
      BY <1>1, <1>3, <3>1
    <3>. QED  BY <1>2, <3>3, <3>6, <3>7 DEF AnsweredInv
  <2>5. CASE /\ server'.status = "exited" /\ written' = written
             /\ server'.inHeaders = server.inHeaders
    <3>1. HasEnded' /\ ~Due'
      BY <2>5 DEF HasEnded, Due
    <3>2. PICK u \in 0 .. Len(client.sent) : /\ u <= t
                                             /\ u = IF Due THEN server.answer.id - 1 ELSE t
      BY <1>1, <1>3, <1>6, <2>1
    <3>3. \A n \in DOMAIN w : w[n].id <= u
      BY <1>1, <1>3, <1>6, <2>1, <3>2
    <3>4. \A id \in RequestIDs : id <= u => \E n \in DOMAIN w : w[n].id = id
      <4>. SUFFICES ASSUME NEW id \in RequestIDs, id <= u
           PROVE  \E n \in DOMAIN w : w[n].id = id
        OBVIOUS
      <4>1. id \in 1 .. Len(client.sent)
        BY <1>6
      <4>2. id <= t /\ ~(Due /\ server.answer.id = id)
        BY <1>1, <1>3, <3>2, <4>1
      <4>. QED  BY <2>1, <4>2
    <3>5. Answered(style, u)'
      BY <1>5, <2>1, <2>5, <3>1, <3>3, <3>4 DEF Answered
    <3>. QED  BY <1>2, <3>1, <3>2, <3>5 DEF AnsweredInv, TakenBy
  <2>6. CASE /\ Due /\ toServer' = toServer /\ server'.status = "reading"
             /\ server'.inHeaders = server.inHeaders
             /\ Puts("stdout", server.answer)
    <3>. DEFINE a == server.answer
                v == written'["stdout"]
    <3>1. v = Append(w, a)
      BY <1>7, <2>6 DEF Puts
    <3>2. a \in AnswersIn(style)
      BY <2>6 DEF SessionOf, Typed, ServerTyped, Due
    <3>3. /\ a.id \in RequestIDs /\ a.id <= t /\ a.mode = style
          /\ \A n \in DOMAIN w : w[n].id < a.id
      BY <2>1, <2>6
    <3>. HIDE DEF a, v, w
    <3>4. /\ v \in Seq(AnswersIn(style)) /\ Len(v) = Len(w) + 1
          /\ \A n \in 1 .. Len(w) : v[n] = w[n]
          /\ v[Len(w) + 1] = a
      BY <1>7, <3>1, <3>2, AppendProperties
    <3>5. DOMAIN v = 1 .. Len(w) + 1
      BY <3>4, LenProperties
    <3>6. \A n \in DOMAIN v : \/ n \in DOMAIN w /\ v[n] = w[n]
                              \/ n = Len(w) + 1 /\ v[n] = a
      BY <1>7, <3>4, <3>5
    <3>7. \A n \in DOMAIN v : v[n].id \in RequestIDs /\ v[n].id <= t /\ v[n].mode = style
      BY <2>1, <3>3, <3>6 DEF w
    <3>8. \A m, n \in DOMAIN v : m < n => v[m].id < v[n].id
      <4>. SUFFICES ASSUME NEW m \in DOMAIN v, NEW n \in DOMAIN v, m < n
           PROVE  v[m].id < v[n].id
        OBVIOUS
      <4>1. m \in DOMAIN w /\ v[m] = w[m]
        BY <1>7, <3>4, <3>5
      <4>2. CASE n \in DOMAIN w /\ v[n] = w[n]
        <5>1. \A i, j \in DOMAIN w : i < j => w[i].id < w[j].id
          BY <2>1 DEF w
        <5>. QED  BY <4>1, <4>2, <5>1
      <4>3. CASE v[n] = a
        BY <3>3, <4>1, <4>3
      <4>. QED  BY <3>6, <4>2, <4>3
    <3>9. \A id \in RequestIDs : id <= t => \E n \in DOMAIN v : v[n].id = id
      <4>. SUFFICES ASSUME NEW id \in RequestIDs, id <= t
           PROVE  \E n \in DOMAIN v : v[n].id = id
        OBVIOUS
      <4>1. (\E n \in DOMAIN w : w[n].id = id) \/ a.id = id
        BY <2>1 DEF a, w
      <4>2. \A n \in DOMAIN w : n \in DOMAIN v /\ v[n] = w[n]
        BY <1>7, <3>4, <3>5
      <4>3. Len(w) + 1 \in DOMAIN v
        BY <1>7, <3>5
      <4>. QED  BY <3>4, <4>1, <4>2, <4>3
    <3>10. ~Due' /\ ~server'.inHeaders
      BY <2>1, <2>6 DEF Due
    <3>11. Answered(style, t)'
      BY <1>5, <3>7, <3>8, <3>9, <3>10 DEF Answered, v
    <3>12. TakenBy(t)'
      BY <1>1, <1>2, <1>4, <2>6 DEF TakenBy
    <3>. QED  BY <1>1, <1>2, <3>11, <3>12 DEF AnsweredInv
  <2>7. CASE /\ Due /\ Due' /\ toServer' = toServer /\ written' = written
             /\ server'.inHeaders = server.inHeaders
             /\ server'.answer.id = server.answer.id
             /\ server'.answer.mode = server.answer.mode
    <3>1. Answered(style, t)'
      BY <1>5, <2>1, <2>7 DEF Answered
    <3>2. TakenBy(t)'
      BY <1>1, <1>2, <1>4, <2>7 DEF TakenBy
    <3>. QED  BY <1>1, <1>2, <3>1, <3>2 DEF AnsweredInv
  <2>. QED  BY <2>1, <2>3, <2>4, <2>5, <2>6, <2>7, CleanChild
<1>. QED  BY <1>8, <1>9

\* What is sent later is asked later.
LEMMA ClientAnswers ==
  ASSUME NEW style \in Styles, SessionOf(style), AnsweredInv(style),
         CloseInput \/ \E kind \in ItemKinds : Send(kind)
  PROVE  AnsweredInv(style)'
<1>1. PICK t \in 0 .. Len(client.sent) : (IsClean => Answered(style, t)) /\ TakenBy(t)
  BY DEF AnsweredInv
<1>2. UNCHANGED <<serverVars, copiers, log, written>>
  BY DEF CloseInput, Send, logVars
<1>. DEFINE old == client.sent
            new == client'.sent
<1>3. /\ old \in Seq(Items(style)) /\ Len(old) \in Nat /\ DOMAIN old = 1 .. Len(old)
      /\ client \in [style : {style}, sent : Seq(Items(style)), closed : BOOLEAN]
  <2>1. client \in [style : {style}, sent : Seq(Items(style)), closed : BOOLEAN]
    BY DEF SessionOf, Typed, ClientTyped
  <2>. QED  BY <2>1, LenProperties
<1>4. Len(old) <= Len(new) /\ DOMAIN new = 1 .. Len(new) /\ Len(new) \in Nat
      /\ \A n \in DOMAIN old : new[n] = old[n]
  <2>1. CASE CloseInput
    <3>1. new = old
      BY <1>3, <2>1 DEF CloseInput
    <3>. QED  BY <1>3, <3>1
  <2>2. ASSUME NEW kind \in ItemKinds, Send(kind)
        PROVE  Len(old) <= Len(new) /\ DOMAIN new = 1 .. Len(new) /\ Len(new) \in Nat
               /\ \A n \in DOMAIN old : new[n] = old[n]
    <3>. DEFINE item == [kind |-> kind, id |-> Len(client.sent) + 1, style |-> client.style]
    <3>1. client' = [client EXCEPT !.sent = Append(@, item), !.closed = kind = "cut"]
      BY <2>2 DEF Send
    <3>2. new = Append(old, item)
      BY <1>3, <3>1
    <3>3. item \in Items(style)
      BY <1>3 DEF Items
    <3>. HIDE DEF old, new, item
    <3>4. /\ new \in Seq(Items(style)) /\ Len(new) = Len(old) + 1
          /\ \A n \in 1 .. Len(old) : new[n] = old[n]
      BY <1>3, <3>2, <3>3, AppendProperties
    <3>5. DOMAIN new = 1 .. Len(new)
      BY <3>4, LenProperties
    <3>. QED  BY <1>3, <3>4, <3>5
  <2>. QED  BY <2>1, <2>2
<1>5. \A n \in DOMAIN old : n \in DOMAIN new /\ new[n] = old[n]
  BY <1>3, <1>4
<1>6. IsClean' => IsClean
  BY <1>5 DEF IsClean
<1>7. \A id \in RequestIDs : id \in RequestIDs'
  BY <1>5 DEF RequestIDs
<1>8. \A id \in RequestIDs' : id <= t => id \in RequestIDs
  <2>. SUFFICES ASSUME NEW id \in DOMAIN new, new[id].kind \in Requests, id <= t
       PROVE  id \in RequestIDs
    BY DEF RequestIDs
  <2>1. id \in DOMAIN old
    BY <1>1, <1>3, <1>4
  <2>. QED  BY <1>5, <2>1 DEF RequestIDs
<1>9. IsClean' => Answered(style, t)'
  BY <1>1, <1>2, <1>6, <1>7, <1>8 DEF Answered, Due, serverVars
<1>10. TakenBy(t)'
  BY <1>1, <1>2 DEF TakenBy, HasEnded, InHand, Held, serverVars
<1>11. t \in 0 .. Len(new)
  BY <1>1, <1>3, <1>4
<1>. QED  BY <1>9, <1>10, <1>11 DEF AnsweredInv

\* What is between the log and the server is not taken yet.
LEMMA InputAnswers ==
  ASSUME NEW style \in Styles, SessionOf(style), AnsweredInv(style), InputCopy
  PROVE  AnsweredInv(style)'
<1>1. PICK t \in 0 .. Len(client.sent) : (IsClean => Answered(style, t)) /\ TakenBy(t)
  BY DEF AnsweredInv
<1>2. /\ UNCHANGED <<server, client, written>>
      /\ InputStops \/ InputReads \/ InputLogs \/ InputWrites
  BY InputMoves
<1>. DEFINE item == copiers["stdin"].item
<1>3. /\ CopiesTyped(style)
      /\ toServer \in Seq(Items(style)) /\ log["stdin"] \in Seq(Items(style))
      /\ "stdin" \in Streams /\ DOMAIN log = Streams
      /\ copiers["stdin"].status \in {"logging", "writing"} => item \in Items(style)
  BY DEF SessionOf, Typed, ServerTyped, LogTyped, CopiesTyped, Streams
<1>4. Len(toServer) \in Nat /\ Len(log["stdin"]) \in Nat
  BY <1>3, LenProperties
<1>5. /\ \A e : Len(<<e>>) = 1
      /\ Len(<<>>) = 0
  OBVIOUS
<1>6. TakenBy(t)'
  <2>. SUFFICES ASSUME ~HasEnded
       PROVE  Len(log'["stdin"]) = t + Len(toServer') + Len(InHand')
    BY <1>2 DEF TakenBy, HasEnded
  <2>1. Len(log["stdin"]) = t + Len(toServer) + Len(InHand)
    BY <1>1 DEF TakenBy
  <2>2. CASE InputStops \/ InputReads
    <3>1. /\ copiers["stdin"].status # "writing" /\ copiers'["stdin"].status # "writing"
          /\ UNCHANGED <<log, toServer>>
      <4>1. CASE InputReads
        <5>1. copiers'["stdin"] = [status |-> "logging", item |-> Head(toProxy)]
          BY <1>3, <4>1, HoldingIs DEF InputReads
        <5>. QED  BY <4>1, <5>1 DEF InputReads
      <4>2. CASE InputStops
        <5>1. copiers'["stdin"] = [status |-> "done", item |-> Nil]
          BY <1>3, <4>2, HoldingIs DEF InputStops
        <5>2. copiers["stdin"].status \in {"reading", "logging"}
          BY <4>2 DEF InputStops
        <5>. QED  BY <4>2, <5>1, <5>2 DEF InputStops
      <4>. QED  BY <2>2, <4>1, <4>2
    <3>2. InHand' = InHand
      BY <3>1 DEF InHand, Held
    <3>. QED  BY <2>1, <3>1, <3>2
  <2>3. CASE InputLogs
    <3>1. /\ copiers'["stdin"] = [status |-> "writing", item |-> item]
          /\ copiers["stdin"].status = "logging" /\ toServer' = toServer
      BY <1>3, <2>3, HoldingIs DEF InputLogs
    <3>2. Len(InHand) = 0 /\ Len(InHand') = 1
      BY <1>5, <3>1 DEF InHand, Held
    <3>3. log'["stdin"] = Append(log["stdin"], item) /\ item \in Items(style)
      BY <1>3, <2>3 DEF InputLogs
    <3>. HIDE DEF item
    <3>4. Len(log'["stdin"]) = Len(log["stdin"]) + 1
      BY <1>3, <3>3, AppendProperties
    <3>. QED  BY <1>1, <1>4, <2>1, <3>1, <3>2, <3>4
  <2>4. CASE InputWrites
    <3>1. /\ copiers'["stdin"] = [status |-> "reading", item |-> Nil]
          /\ copiers["stdin"].status = "writing" /\ log' = log
      BY <1>3, <2>4, HoldingIs DEF InputWrites
    <3>2. Len(InHand) = 1 /\ Len(InHand') = 0
      BY <1>5, <3>1 DEF InHand, Held
    <3>3. toServer' = Append(toServer, item) /\ item \in Items(style)
      BY <1>3, <2>4 DEF InputWrites
    <3>. HIDE DEF item
    <3>4. Len(toServer') = Len(toServer) + 1
      BY <1>3, <3>3, AppendProperties
    <3>. QED  BY <1>1, <1>4, <2>1, <3>1, <3>2, <3>4
  <2>. QED  BY <1>2, <2>2, <2>3, <2>4
<1>7. IsClean' => Answered(style, t)'
  BY <1>1, <1>2 DEF Answered, Due, IsClean, RequestIDs
<1>. QED  BY <1>1, <1>2, <1>6, <1>7 DEF AnsweredInv

\* The other steps neither take nor write.
LEMMA OthersAnswer ==
  ASSUME NEW style \in Styles, SessionOf(style), AnsweredInv(style),
         \/ \E s \in Outputs : OutputCopy(s)
         \/ MainGoroutine \/ OtherProcess \/ LogFails \/ Kill \/ UNCHANGED vars
  PROVE  AnsweredInv(style)'
<1>1. PICK t \in 0 .. Len(client.sent) : (IsClean => Answered(style, t)) /\ TakenBy(t)
  BY DEF AnsweredInv
<1>2. /\ UNCHANGED <<server, client, written>>
      /\ HasEnded \/ UNCHANGED <<toServer, log["stdin"], copiers["stdin"]>>
  <2>1. CASE \E s \in Outputs : OutputCopy(s)
    <3>1. PICK s \in Outputs : OutputCopy(s)
      BY <2>1
    <3>2. /\ UNCHANGED <<toServer, server, client, written>>
          /\ OutputStops(s) \/ OutputReads(s) \/ OutputPasses(s) \/ OutputLogs(s)
      BY <3>1, OutputMoves
    <3>5. /\ CopiesTyped(style) /\ DOMAIN log = Streams
          /\ s \in Streams /\ "stdin" \in Streams /\ s # "stdin"
      BY DEF SessionOf, Typed, LogTyped, Streams, Outputs
    <3>6. copiers'["stdin"] = copiers["stdin"]
      BY <3>2, <3>5, HoldingIs
         DEF OutputStops, OutputReads, OutputPasses, OutputLogs
    <3>7. log'["stdin"] = log["stdin"]
      BY <3>2, <3>5 DEF OutputStops, OutputReads, OutputPasses, OutputLogs
    <3>. QED  BY <3>2, <3>6, <3>7
  <2>2. CASE MainGoroutine \/ OtherProcess \/ LogFails \/ Kill \/ UNCHANGED vars
    BY <2>2 DEF MainGoroutine, Wait, ProxyExit, OtherProcess, UseFile, LogFails, Kill,
                vars, serverVars, logVars
  <2>. QED  BY <2>1, <2>2
<1>3. TakenBy(t)'
  BY <1>1, <1>2 DEF TakenBy, HasEnded, InHand, Held
<1>4. IsClean' => Answered(style, t)'
  BY <1>1, <1>2 DEF Answered, Due, IsClean, RequestIDs
<1>. QED  BY <1>1, <1>2, <1>3, <1>4 DEF AnsweredInv

\* Both invariants together.
AnswersInv == \E style \in Styles : SessionOf(style) /\ AnsweredInv(style)

LEMMA InitAnswersInv == ProxyInit => AnswersInv
<1>. SUFFICES ASSUME ProxyInit
     PROVE  AnswersInv
  OBVIOUS
<1>1. PICK style \in Styles : SessionOf(style)
  BY InitSessionInv DEF SessionInv
<1>2. /\ client.sent = <<>> /\ toServer = <<>> /\ log["stdin"] = <<>>
      /\ InHand = <<>> /\ written["stdout"] = <<>>
      /\ server.status = "reading" /\ ~server.inHeaders
  BY DEF ProxyInit, ServerInit, InHand, Held, Streams, Outputs
<1>3. 0 \in 0 .. Len(client.sent) /\ TakenBy(0)
  BY <1>2 DEF TakenBy
<1>4. RequestIDs = {} /\ DOMAIN written["stdout"] = {}
  BY <1>2 DEF RequestIDs
<1>5. Answered(style, 0)
  BY <1>2, <1>4 DEF Answered, Due
<1>. QED  BY <1>1, <1>3, <1>5 DEF AnswersInv, AnsweredInv

LEMMA NextAnswersInv == AnswersInv /\ [ProxyNext]_vars => AnswersInv'
<1>. SUFFICES ASSUME AnswersInv, [ProxyNext]_vars
     PROVE  AnswersInv'
  OBVIOUS
<1>1. PICK style \in Styles : SessionOf(style) /\ AnsweredInv(style)
  BY DEF AnswersInv
<1>2. SessionOf(style)' /\ AnsweredInv(style)'
  <2>1. CASE Child
    BY <1>1, <2>1, ChildKeeps, ChildAnswers
  <2>2. CASE CloseInput \/ \E kind \in ItemKinds : Send(kind)
    BY <1>1, <2>2, ClientKeeps, ClientAnswers
  <2>3. CASE InputCopy
    BY <1>1, <2>3, InputKeeps, InputAnswers
  <2>4. CASE \E s \in Outputs : OutputCopy(s)
    BY <1>1, <2>4, OutputKeeps, OthersAnswer
  <2>5. CASE MainGoroutine \/ OtherProcess \/ LogFails \/ Kill \/ UNCHANGED vars
    BY <1>1, <2>5, OthersKeep, OthersAnswer
  <2>. QED  BY <2>1, <2>2, <2>3, <2>4, <2>5 DEF ProxyNext
<1>. QED  BY <1>2 DEF AnswersInv

\* What was received are the first answers written.
LEMMA AnswersInvFollows == AnswersInv => AnswersFollowRequests
<1>. SUFFICES ASSUME NEW style \in Styles, SessionOf(style), AnsweredInv(style), IsClean
     PROVE  LET answers == received["stdout"]
            IN  /\ \A n \in DOMAIN answers : ReadableIn(answers, n)
                /\ AnsweredIDs \subseteq RequestIDs
                /\ \A id \in RequestIDs, later \in AnsweredIDs :
                     id < later => id \in AnsweredIDs
                /\ \A m, n \in DOMAIN answers : m < n => answers[m].id < answers[n].id
  BY DEF AnswersInv, AnswersFollowRequests
<1>. DEFINE w == written["stdout"]
            r == received["stdout"]
<1>1. PICK t \in 0 .. Len(client.sent) : Answered(style, t)
  BY DEF AnsweredInv
<1>2. /\ \A n \in DOMAIN w :
           w[n].id \in RequestIDs /\ w[n].id <= t /\ w[n].mode = style
      /\ \A m, n \in DOMAIN w : m < n => w[m].id < w[n].id
      /\ Due => \A n \in DOMAIN w : w[n].id < server.answer.id
      /\ \A id \in RequestIDs :
           id <= t => \/ \E n \in DOMAIN w : w[n].id = id
                      \/ Due /\ server.answer.id = id
  BY <1>1 DEF Answered
<1>3. /\ client.style = style /\ style \in {"plain", "framed"}
      /\ client.sent \in Seq(Items(style))
      /\ w \in Seq(AnswersIn(style)) /\ r \in Seq(AnswersIn(style))
  BY DEF SessionOf, Typed, ClientTyped, LogTyped, Texts, Outputs, Styles, Lines, Frames
<1>4. \A id \in RequestIDs : id \in Nat
  BY <1>3, LenProperties DEF RequestIDs
<1>5. t \in Nat
  BY <1>3, LenProperties
<1>6. PICK rest \in Seq(AnswersIn(style)) : w = r \o rest
  <2>1. "stdout" \in Outputs /\ Texts(style, "stdout") = AnswersIn(style)
    BY DEF Texts, Outputs
  <2>2. PICK more \in Seq(AnswersIn(style)) : w = r \o (InMouth("stdout") \o more)
    BY <2>1 DEF SessionOf, OutputPassed
  <2>3. InMouth("stdout") \in Seq(AnswersIn(style))
    BY <2>1, MouthTyped DEF SessionOf, Typed
  <2>4. InMouth("stdout") \o more \in Seq(AnswersIn(style))
    BY <2>3, ConcatProperties
  <2>. QED  BY <2>2, <2>4
<1>. HIDE DEF w, r
<1>7. /\ DOMAIN w = 1 .. Len(w) /\ DOMAIN r = 1 .. Len(r)
      /\ Len(r) \in Nat /\ Len(rest) \in Nat
  BY <1>3, LenProperties
<1>8. Len(r \o rest) = Len(r) + Len(rest) /\ \A n \in 1 .. Len(r) : (r \o rest)[n] = r[n]
  BY <1>3, <1>7, ConcatProperties
<1>9. \A n \in DOMAIN r : n \in DOMAIN w /\ w[n] = r[n]
  BY <1>6, <1>7, <1>8
<1>10. \A n \in DOMAIN r : ReadableIn(r, n)
  <2>. SUFFICES ASSUME NEW n \in DOMAIN r
       PROVE  ReadableIn(r, n)
    OBVIOUS
  <2>1. r[n].mode = style
    BY <1>2, <1>9
  <2>2. n > 1 => r[n - 1].mode = style
    <3>1. n > 1 => n - 1 \in DOMAIN r
      BY <1>7
    <3>. QED  BY <1>2, <1>9, <3>1
  <2>. QED  BY <1>3, <2>1, <2>2 DEF ReadableIn
<1>11. AnsweredIDs = {r[n].id : n \in DOMAIN r}
  BY <1>10 DEF AnsweredIDs, r
<1>12. AnsweredIDs \subseteq RequestIDs
  BY <1>2, <1>9, <1>11
<1>13. ASSUME NEW id \in RequestIDs, NEW later \in AnsweredIDs, id < later
       PROVE  id \in AnsweredIDs
  <2>1. PICK n \in DOMAIN r : later = r[n].id
    BY <1>11
  <2>2. n \in DOMAIN w /\ w[n].id = later /\ later <= t /\ later \in Nat /\ id \in Nat
    BY <1>2, <1>4, <1>9, <2>1
  <2>3. id <= t
    BY <1>5, <1>13, <2>2
  <2>4. ~(Due /\ server.answer.id = id)
    BY <1>2, <1>13, <2>2
  <2>5. PICK m \in DOMAIN w : w[m].id = id
    BY <1>2, <2>3, <2>4
  <2>6. ~(n < m) /\ m # n
    BY <1>2, <1>13, <2>2, <2>5
  <2>7. m \in DOMAIN r
    BY <1>7, <2>1, <2>5, <2>6
  <2>. QED  BY <1>9, <1>11, <2>5, <2>7
<1>14. \A m, n \in DOMAIN r : m < n => r[m].id < r[n].id
  BY <1>2, <1>9
<1>. QED  BY <1>10, <1>12, <1>13, <1>14 DEF r

\* A clean client gets the answers to its first requests, each once, in order and
\* readable (AnswersFollowRequests), however the copies, the server and the
\* client are interleaved, whenever the log fails or the proxy is killed.
THEOREM AnswersAreInOrder == ProxySpec => []AnswersFollowRequests
BY InitAnswersInv, NextAnswersInv, AnswersInvFollows, PTL DEF ProxySpec

===============================================================================
