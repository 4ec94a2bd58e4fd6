------------------------------- MODULE Programs -------------------------------
(***************************************************************************)
(* What the four interfaces of OmnethDB (command line, HTTP, gRPC, MCP) do *)
(* with a request, written as programs: sequences of calls on the store,   *)
(* in the order the handler makes them.  A handler is the set of programs  *)
(* its requests can turn into, the empty one for a request it answers      *)
(* without touching the store.  A call that fails ends the program.        *)
(*                                                                         *)
(* The arguments left in a call are the spaces it names and the embedder a *)
(* migration asks for; what a write does with its other arguments is the   *)
(* subject of MemoryStore.                                                 *)
(***************************************************************************)
EXTENDS RuntimeConfig

Call(op, spaces, model) == [op |-> op, spaces |-> spaces, model |-> model]

\* Make sure each of the spaces has its embedder registered, one at a time.
EnsureEmbeddersForSpaces(spaces) ==
  [n \in DOMAIN spaces |-> Call("ensure", <<spaces[n]>>, Nil)]

EnsureEmbedderForSpace(space) == EnsureEmbeddersForSpaces(<<space>>)

\* A call that neither embeds nor writes.
Read == <<Call("read", <<>>, Nil)>>

\* Recall and FindCandidates embed what they look for; a profile recalls twice,
\* a lint and the quality reports look for the memories they have at hand.
Search(spaces)   == <<Call("search", spaces, Nil)>>
Profile(spaces)  == Search(spaces) \o Search(spaces)
Report(space)    == Read \o Search(<<space>>)
Plan(space)      == Read \o Report(space)

Remember(spaces) == <<Call("remember", spaces, Nil)>>
Forget           == <<Call("forget", <<>>, Nil)>>
Revive           == <<Call("revive", <<>>, Nil)>>

\* A new space is given the declared embedder or the default one.
InitSpace(space) == <<Call("init", <<space>>, Nil)>>

\* The embedder is the one asked for; Nil when none is.  The configuration that
\* results is read and returned.
Migrate(space, asked) == <<Call("migrate", <<space>>, asked)>> \o Read

ApplyConfig(space) == <<Call("apply", <<space>>, Nil)>>

Refused == <<>>

\* The lists of spaces a request names.
SpaceLists == {<<s>> : s \in Spaces} \cup {<<s, t>> : s \in Spaces, t \in Spaces}

WithoutRepeats == {list \in SpaceLists : Len(list) = 2 => list[1] # list[2]}

==============================================================================
