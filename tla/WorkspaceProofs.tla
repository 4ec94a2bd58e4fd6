---------------------------- MODULE WorkspaceProofs ----------------------------
(***************************************************************************)
(* A workspace, for every set of config files, models, goroutines and      *)
(* interfaces: what a goroutine read before an unlock is still true enough *)
(* when it uses it.                                                        *)
(*                                                                         *)
(* The argument relates three things: the registry of embedders a process  *)
(* keeps in memory, the models of the spaces in the file, and the calls a  *)
(* goroutine has still to make.  A space is known when the registry has an *)
(* embedder for its model, or the config file overrules that model.  A     *)
(* program ensures the spaces it embeds for before it embeds (Prepared),   *)
(* known spaces stay known, because an embedder is replaced but never      *)
(* removed and a model is written only after it was registered, and so the *)
(* models a goroutine holds between two locks can still be looked up.      *)
(* What a command, with its one goroutine, ensures is also the very model  *)
(* of the space (Focused).  The policies add that one reconciliation       *)
(* settles what a config file says.                                        *)
(***************************************************************************)
EXTENDS Workspace, SequenceTheorems, TLAPS

-------------------------------------------------------------------------------
(* Policies. *)

PolicyFields == {"humanTrust", "systemTrust", "defaultAgentTrust", "trustLevels",
                 "episodicWriters", "staticWriters", "derivedWriters",
                 "promotePolicy", "maxStaticMemories", "maxEpisodicMemories",
                 "profileMaxStatic", "profileMaxEpisodic"}

WriterFields == {"allowHuman", "allowSystem", "allowAllAgents",
                 "allowedAgentIDs", "minTrustLevel"}

WriterValues == BOOLEAN \cup Int \cup SUBSET STRING

Numbers == TrustFields \cup LimitFields

\* A policy holds numbers, rules, and no levels for single actors: neither a
\* default nor a config file names one.
IsPolicy(policy) ==
  /\ policy \in [PolicyFields -> PolicyValues]
  /\ \A field \in Numbers : policy[field] \in Int
  /\ \A rule \in Rules : policy[rule] \in [WriterFields -> WriterValues]
  /\ policy["trustLevels"] = NoTrustLevels

\* The values an unwritten policy and an unwritten rule start from.
LEMMA FieldsOfZero ==
  /\ DOMAIN ZeroPolicy = PolicyFields
  /\ DOMAIN ZeroWriters = WriterFields
  /\ ZeroWriters \in [WriterFields -> WriterValues]
<1>1. DOMAIN ZeroPolicy = PolicyFields
  BY DEF ZeroPolicy, PolicyFields
<1>2. DOMAIN ZeroWriters = WriterFields
  BY DEF ZeroWriters, WriterFields
<1>3. ZeroWriters \in [WriterFields -> WriterValues]
  <2>1. \A f \in WriterFields : ZeroWriters[f] \in WriterValues
    <3>1. FALSE \in WriterValues /\ {} \in WriterValues /\ 0 \in WriterValues
      <4>1. FALSE \in BOOLEAN /\ 0 \in Int /\ {} \in SUBSET STRING
        OBVIOUS
      <4>. QED  BY <4>1, Zenon DEF WriterValues
    <3>2. /\ ZeroWriters["allowHuman"] = FALSE /\ ZeroWriters["allowSystem"] = FALSE
          /\ ZeroWriters["allowAllAgents"] = FALSE
          /\ ZeroWriters["allowedAgentIDs"] = {}
          /\ ZeroWriters["minTrustLevel"] = 0
      BY DEF ZeroWriters
    <3>. QED  BY <3>1, <3>2, Zenon DEF WriterFields
  <2>2. ZeroWriters = [f \in WriterFields |-> ZeroWriters[f]]
    BY DEF ZeroWriters, WriterFields
  <2>. QED  BY <2>1, <2>2
<1>. QED  BY <1>1, <1>2, <1>3

\* Fields are either numbers, rules or the levels of single actors.
LEMMA FieldKinds ==
  /\ PolicyFields = Numbers \cup Rules \cup {"trustLevels"}
  /\ Numbers \cap Rules = {} /\ "trustLevels" \notin Numbers \cup Rules
BY DEF PolicyFields, Numbers, TrustFields, LimitFields, Rules

\* The default policy has every field, and none of its numbers and rules is one
\* that reads as unwritten (DefaultSpaceWritePolicy, NormalizeSpaceWritePolicy).
LEMMA DefaultIsPolicy ==
  /\ IsPolicy(DefaultSpaceWritePolicy)
  /\ \A field \in Numbers : DefaultSpaceWritePolicy[field] # 0
  /\ \A field \in Numbers : ZeroPolicy[field] = 0
  /\ \A rule \in Rules : /\ DefaultSpaceWritePolicy[rule] # ZeroWriters
                         /\ ZeroPolicy[rule] = ZeroWriters
  /\ ZeroPolicy["trustLevels"] = NoTrustLevels
<1>. DEFINE d == DefaultSpaceWritePolicy
            e == [ZeroWriters EXCEPT !.allowHuman = TRUE, !.allowSystem = TRUE,
                                     !.allowAllAgents = TRUE]
            s == [ZeroWriters EXCEPT !.allowHuman = TRUE, !.allowSystem = TRUE]
            v == [ZeroWriters EXCEPT !.allowHuman = TRUE, !.allowAllAgents = TRUE]
            p == [ZeroWriters EXCEPT !.allowHuman = TRUE]
<1>0. \A w \in {e, s, v, p} : /\ w \in [WriterFields -> WriterValues]
                             /\ w["allowHuman"] = TRUE
  <2>1. TRUE \in WriterValues
    <3>1. TRUE \in BOOLEAN
      OBVIOUS
    <3>. QED  BY <3>1, Zenon DEF WriterValues
  <2>2. {"allowHuman", "allowSystem", "allowAllAgents"} \subseteq WriterFields
    BY DEF WriterFields
  <2>. HIDE DEF WriterFields, WriterValues
  <2>3. \A z \in [WriterFields -> WriterValues] :
          \A f \in {"allowHuman", "allowSystem", "allowAllAgents"} :
            [z EXCEPT ![f] = TRUE] \in [WriterFields -> WriterValues]
    BY <2>1, <2>2
  <2>4. \A w \in {e, s, v, p} : w \in [WriterFields -> WriterValues]
    <3>1. s = [p EXCEPT !.allowSystem = TRUE] /\ v = [p EXCEPT !.allowAllAgents = TRUE]
          /\ e = [s EXCEPT !.allowAllAgents = TRUE]
          /\ p = [ZeroWriters EXCEPT !["allowHuman"] = TRUE]
      OBVIOUS
    <3>. HIDE DEF e, s, v, p
    <3>2. p \in [WriterFields -> WriterValues]
      BY <2>3, <3>1, FieldsOfZero
    <3>3. s \in [WriterFields -> WriterValues] /\ v \in [WriterFields -> WriterValues]
      BY <2>3, <3>1, <3>2
    <3>4. e \in [WriterFields -> WriterValues]
      BY <2>3, <3>1, <3>3
    <3>. QED  BY <3>2, <3>3, <3>4
  <2>5. \A w \in {e, s, v, p} : w["allowHuman"] = TRUE
    BY <2>2, FieldsOfZero
  <2>. QED  BY <2>4, <2>5
<1>. HIDE DEF e, s, v, p
<1>3. /\ d["episodicWriters"] = e /\ d["staticWriters"] = s
      /\ d["derivedWriters"] = v /\ d["promotePolicy"] = p
      /\ d = [f \in PolicyFields |-> d[f]]
  <2>1. d = [humanTrust |-> FullTrust, systemTrust |-> FullTrust,
             defaultAgentTrust |-> 7, trustLevels |-> NoTrustLevels,
             episodicWriters |-> e, staticWriters |-> s,
             derivedWriters |-> v, promotePolicy |-> p,
             maxStaticMemories |-> 500, maxEpisodicMemories |-> 10000,
             profileMaxStatic |-> 50, profileMaxEpisodic |-> 10]
    BY DEF DefaultSpaceWritePolicy, e, s, v, p
  <2>. HIDE DEF d
  <2>2. d = [f \in PolicyFields |-> d[f]]
    BY <2>1 DEF PolicyFields
  <2>. QED  BY <2>1, <2>2
<1>1. \A field \in Numbers : d[field] \in Int /\ d[field] # 0 /\ ZeroPolicy[field] = 0
  BY DEF DefaultSpaceWritePolicy, Numbers, TrustFields, LimitFields, ZeroPolicy, FullTrust
<1>2. ZeroPolicy["trustLevels"] = NoTrustLevels /\ d["trustLevels"] = NoTrustLevels
  BY DEF DefaultSpaceWritePolicy, ZeroPolicy
<1>5. \A rule \in Rules : ZeroPolicy[rule] = ZeroWriters
  BY DEF ZeroPolicy, Rules
<1>6. \A rule \in Rules : /\ d[rule] \in [WriterFields -> WriterValues]
                          /\ d[rule]["allowHuman"] = TRUE
  BY <1>0, <1>3 DEF Rules
<1>4. ZeroWriters["allowHuman"] = FALSE
  BY DEF ZeroWriters
<1>. HIDE DEF d
<1>7. \A f \in PolicyFields : d[f] \in PolicyValues
  <2>1. \A rule \in Rules : d[rule] \in PolicyValues
    BY <1>6, FieldsOfZero DEF PolicyValues, WriterValues
  <2>2. \A f \in Numbers : d[f] \in PolicyValues
    BY <1>1 DEF PolicyValues
  <2>3. d["trustLevels"] \in PolicyValues
    BY <1>2 DEF PolicyValues
  <2>. QED  BY <2>1, <2>2, <2>3, FieldKinds
<1>8. d \in [PolicyFields -> PolicyValues]
  BY <1>3, <1>7
<1>9. IsPolicy(d)
  BY <1>1, <1>2, <1>6, <1>8 DEF IsPolicy
<1>. QED  BY <1>1, <1>2, <1>4, <1>5, <1>6, <1>9 DEF d

-------------------------------------------------------------------------------
(* What a config file makes of a policy. *)

\* Replacing some values of a function by values of the same kind keeps it a
\* function of that kind, and replacing them again changes nothing.
LEMMA OverriddenAgain ==
  ASSUME NEW D, NEW R, NEW base \in [D -> R], NEW over,
         \A f \in D \cap DOMAIN over : over[f] \in R
  PROVE  /\ Overridden(base, over) \in [D -> R]
         /\ Overridden(Overridden(base, over), over) = Overridden(base, over)
BY DEF Overridden

\* Filling in defaults leaves no number zero and no rule empty, and keeps the
\* rest.
LEMMA NormalizedFields ==
  ASSUME NEW p, IsPolicy(p)
  PROVE  /\ IsPolicy(NormalizeSpaceWritePolicy(p))
         /\ \A f \in Numbers : /\ NormalizeSpaceWritePolicy(p)[f] # 0
                               /\ p[f] # 0 => NormalizeSpaceWritePolicy(p)[f] = p[f]
         /\ \A rule \in Rules :
              /\ NormalizeSpaceWritePolicy(p)[rule] # ZeroWriters
              /\ IF p[rule] = ZeroWriters
                 THEN NormalizeSpaceWritePolicy(p)[rule] = DefaultSpaceWritePolicy[rule]
                 ELSE NormalizeSpaceWritePolicy(p)[rule] = p[rule]
<1>. DEFINE n == NormalizeSpaceWritePolicy(p)
<1>1. n = [f \in PolicyFields |-> IF p[f] = ZeroPolicy[f]
                                  THEN DefaultSpaceWritePolicy[f] ELSE p[f]]
  BY FieldsOfZero DEF NormalizeSpaceWritePolicy
<1>2. Numbers \subseteq PolicyFields /\ Rules \subseteq PolicyFields
      /\ "trustLevels" \in PolicyFields
  BY FieldKinds
<1>. HIDE DEF n
<1>3. IsPolicy(n)
  <2>1. n \in [PolicyFields -> PolicyValues]
    BY <1>1, DefaultIsPolicy DEF IsPolicy
  <2>2. \A f \in Numbers : n[f] \in Int
    BY <1>1, <1>2, DefaultIsPolicy DEF IsPolicy
  <2>3. \A rule \in Rules : n[rule] \in [WriterFields -> WriterValues]
    BY <1>1, <1>2, DefaultIsPolicy DEF IsPolicy
  <2>4. n["trustLevels"] = NoTrustLevels
    BY <1>1, <1>2, DefaultIsPolicy DEF IsPolicy
  <2>. QED  BY <2>1, <2>2, <2>3, <2>4 DEF IsPolicy
<1>4. \A f \in Numbers : n[f] # 0 /\ (p[f] # 0 => n[f] = p[f])
  BY <1>1, <1>2, DefaultIsPolicy
<1>5. \A rule \in Rules :
        /\ n[rule] # ZeroWriters
        /\ IF p[rule] = ZeroWriters THEN n[rule] = DefaultSpaceWritePolicy[rule]
                                    ELSE n[rule] = p[rule]
  BY <1>1, <1>2, DefaultIsPolicy
<1>. QED  BY <1>3, <1>4, <1>5 DEF n

\* A table makes a policy of a policy: what it sets as it sets it, the rest with
\* the defaults filled in.
LEMMA SpaceInitFields ==
  ASSUME NEW settings, settings # Nil, IsSettings(settings), NEW p, IsPolicy(p)
  PROVE  /\ IsPolicy(SpaceInit(settings, p))
         /\ \A f \in Numbers :
              SpaceInit(settings, p)[f] =
                IF f \in DOMAIN settings.scalars THEN settings.scalars[f]
                ELSE NormalizeSpaceWritePolicy(p)[f]
         /\ \A rule \in Rules :
              SpaceInit(settings, p)[rule] =
                Overridden(NormalizeSpaceWritePolicy(p)[rule],
                           settings.writers[rule])
<1>. DEFINE n == NormalizeSpaceWritePolicy(p)
            q == Overridden(n, settings.scalars)
            r == SpaceInit(settings, p)
<1>1. IsPolicy(n)
  BY NormalizedFields
<1>2. r = Overridden(q, [rule \in Rules |-> Overridden(q[rule], settings.writers[rule])])
  BY DEF SpaceInit, ApplyRuntimeWriters
<1>. HIDE DEF n, r
<1>3. q = [f \in PolicyFields |-> IF f \in DOMAIN settings.scalars
                                  THEN settings.scalars[f] ELSE n[f]]
  BY <1>1 DEF Overridden, IsPolicy
<1>. HIDE DEF q
<1>4. DOMAIN settings.scalars \subseteq Numbers
  BY DEF IsSettings, Numbers
<1>5. /\ \A rule \in Rules : q[rule] = n[rule]
      /\ q["trustLevels"] = n["trustLevels"]
      /\ \A f \in Numbers : q[f] = IF f \in DOMAIN settings.scalars
                                   THEN settings.scalars[f] ELSE n[f]
  BY <1>3, <1>4, FieldKinds
<1>6. r = [f \in PolicyFields |-> IF f \in Rules
             THEN Overridden(q[f], settings.writers[f]) ELSE q[f]]
  BY <1>2, <1>3 DEF Overridden
<1>7. /\ \A rule \in Rules : r[rule] = Overridden(n[rule], settings.writers[rule])
      /\ r["trustLevels"] = NoTrustLevels
      /\ \A f \in Numbers : r[f] = q[f]
  BY <1>1, <1>5, <1>6, FieldKinds DEF IsPolicy
<1>8. \A rule \in Rules : r[rule] \in [WriterFields -> WriterValues]
  <2>. SUFFICES ASSUME NEW rule \in Rules
                PROVE  Overridden(n[rule], settings.writers[rule])
                         \in [WriterFields -> WriterValues]
    BY <1>7
  <2>1. n[rule] \in [WriterFields -> WriterValues]
    BY <1>1 DEF IsPolicy
  <2>2. \A f \in WriterFields \cap DOMAIN settings.writers[rule] :
          settings.writers[rule][f] \in WriterTypes[f]
    BY DEF IsSettings
  <2>3. \A f \in WriterFields : WriterTypes[f] \subseteq WriterValues
    BY DEF WriterFields, WriterTypes, WriterValues
  <2>4. \A f \in WriterFields \cap DOMAIN settings.writers[rule] :
          settings.writers[rule][f] \in WriterValues
    BY <2>2, <2>3
  <2>. QED  BY <2>1, <2>4, OverriddenAgain
<1>9. \A f \in Numbers : r[f] \in Int
  BY <1>1, <1>5, <1>7 DEF IsSettings, IsPolicy
<1>10. r \in [PolicyFields -> PolicyValues]
  <2>1. \A f \in PolicyFields : r[f] \in PolicyValues
    <3>1. \A f \in Numbers : r[f] \in PolicyValues
      BY <1>9 DEF PolicyValues
    <3>2. \A rule \in Rules : r[rule] \in PolicyValues
      BY <1>8, FieldsOfZero DEF PolicyValues, WriterValues
    <3>3. r["trustLevels"] \in PolicyValues
      BY <1>7 DEF PolicyValues
    <3>. QED  BY <3>1, <3>2, <3>3, FieldKinds
  <2>. QED  BY <1>6, <2>1
<1>11. IsPolicy(r)
  BY <1>7, <1>8, <1>9, <1>10 DEF IsPolicy
<1>. QED  BY <1>5, <1>7, <1>11 DEF n, r

\* A config file compared again with the policy it made of another one, stored
\* as it is or with the defaults filled in, as those of a new space are.
MadeBy(settings, p, q) ==
  \/ q = SpaceInit(settings, p)
  \/ /\ p = DefaultSpaceWritePolicy
     /\ q = NormalizeSpaceWritePolicy(SpaceInit(settings, p))

\* Unless a zero is involved, the file finds nothing more to change.
LEMMA SpaceInitAgain ==
  ASSUME NEW settings, settings # Nil, IsSettings(settings),
         NEW p, IsPolicy(p), NEW q, MadeBy(settings, p, q),
         \A f \in DOMAIN settings.scalars : settings.scalars[f] # 0,
         ~Mutes(q), ~Mutes(SpaceInit(settings, q))
  PROVE  SpaceInit(settings, q) = q
<1>. DEFINE n == NormalizeSpaceWritePolicy(p)
            i == SpaceInit(settings, p)
            m == NormalizeSpaceWritePolicy(q)
            j == SpaceInit(settings, q)
            w(rule) == settings.writers[rule]
<1>1. /\ IsPolicy(n) /\ \A f \in Numbers : n[f] # 0
      /\ \A rule \in Rules : n[rule] # ZeroWriters
  BY NormalizedFields
<1>2. /\ IsPolicy(i)
      /\ \A f \in Numbers : i[f] = IF f \in DOMAIN settings.scalars
                                   THEN settings.scalars[f] ELSE n[f]
      /\ \A rule \in Rules : i[rule] = Overridden(n[rule], w(rule))
  BY SpaceInitFields
<1>3. IsPolicy(q) /\ \A f \in Numbers : q[f] = i[f]
  <2>1. CASE q = i
    BY <1>2, <2>1
  <2>2. CASE q = NormalizeSpaceWritePolicy(i)
    BY <1>1, <1>2, <2>2, NormalizedFields
  <2>. QED  BY <2>1, <2>2 DEF MadeBy
<1>4. /\ \A f \in Numbers : q[f] # 0 => m[f] = q[f]
      /\ \A rule \in Rules : q[rule] # ZeroWriters => m[rule] = q[rule]
  BY <1>3, NormalizedFields
<1>5. /\ IsPolicy(j)
      /\ \A f \in Numbers : j[f] = IF f \in DOMAIN settings.scalars
                                   THEN settings.scalars[f] ELSE m[f]
      /\ \A rule \in Rules : j[rule] = Overridden(m[rule], w(rule))
  BY <1>3, SpaceInitFields
<1>6. \A f \in Numbers : j[f] = q[f]
  BY <1>1, <1>2, <1>3, <1>4, <1>5
<1>7. \A rule \in Rules : j[rule] = q[rule]
  <2>. SUFFICES ASSUME NEW rule \in Rules  PROVE j[rule] = q[rule]
    OBVIOUS
  <2>1. m[rule] = q[rule]
    BY <1>4 DEF Mutes
  <2>2. CASE q[rule] = i[rule]
    <3>1. Overridden(i[rule], w(rule)) = i[rule]
      <4>1. n[rule] = [f \in WriterFields |-> n[rule][f]]
        BY <1>1 DEF IsPolicy
      <4>. HIDE DEF n, i, w
      <4>. QED  BY <1>2, <4>1 DEF Overridden
    <3>. QED  BY <1>5, <2>1, <2>2, <3>1
  <2>3. CASE q[rule] # i[rule]
    <3>1. p = DefaultSpaceWritePolicy /\ q = NormalizeSpaceWritePolicy(i)
      BY <2>3 DEF MadeBy
    <3>2. i[rule] = ZeroWriters /\ q[rule] = p[rule]
      BY <1>2, <2>3, <3>1, NormalizedFields
    <3>3. n[rule] = p[rule]
      BY <3>1, DefaultIsPolicy, NormalizedFields
    <3>4. j[rule] = ZeroWriters
      BY <1>2, <1>5, <2>1, <3>2, <3>3
    <3>. QED  BY <3>4 DEF Mutes
  <2>. QED  BY <2>2, <2>3
<1>8. j["trustLevels"] = q["trustLevels"]
  BY <1>3, <1>5 DEF IsPolicy
<1>9. j \in [PolicyFields -> PolicyValues] /\ q \in [PolicyFields -> PolicyValues]
  BY <1>3, <1>5 DEF IsPolicy
<1>10. \A f \in PolicyFields : j[f] = q[f]
  BY <1>6, <1>7, <1>8, FieldKinds
<1>. HIDE DEF j
<1>11. j = q
  BY <1>9, <1>10
<1>. QED  BY <1>11 DEF j

\* A trust level the file declares is the one actors of that kind are judged by.
LEMMA DeclaredTrust ==
  ASSUME NEW settings, settings # Nil, IsSettings(settings),
         NEW p, IsPolicy(p), NEW q, MadeBy(settings, p, q),
         NEW kind \in ActorKinds, NEW level \in Numbers,
         level = [human |-> "humanTrust", system |-> "systemTrust",
                  agent |-> "defaultAgentTrust"][kind],
         level \in DOMAIN settings.scalars, settings.scalars[level] # 0
  PROVE  ResolveActorTrust(q, [id |-> Nil, kind |-> kind]) = settings.scalars[level]
<1>. DEFINE i == SpaceInit(settings, p)
            m == NormalizeSpaceWritePolicy(q)
<1>1. IsPolicy(i) /\ i[level] = settings.scalars[level]
  BY SpaceInitFields
<1>2. IsPolicy(q) /\ q[level] = settings.scalars[level]
  BY <1>1, NormalizedFields DEF MadeBy
<1>3. m[level] = settings.scalars[level]
  BY <1>2, NormalizedFields
<1>4. DOMAIN q.trustLevels = {}
  BY <1>2 DEF IsPolicy, NoTrustLevels
<1>. HIDE DEF i, m
<1>5. KindTrust(m, kind) = m[level]
  BY DEF KindTrust, ActorKinds
<1>. QED  BY <1>3, <1>4, <1>5 DEF ResolveActorTrust, m

-------------------------------------------------------------------------------
(* Programs. *)

EmbeddingOps == {"search", "remember"}

Ops == EmbeddingOps \cup {"read", "forget", "revive", "ensure", "init", "apply",
                          "migrate"}

\* The calls that name no space are reads, forgets and revivals.
Calls ==
  {c \in [op: Ops, spaces: SpaceLists \cup {<<>>}, model: Models \cup {Nil}] :
     c.op \in {"read", "forget", "revive"} \/ c.spaces # <<>>}

Embeds(c) == c.op \in EmbeddingOps

Ensures(c, s) == c.op = "ensure" /\ c.spaces[1] = s

\* Every space a call embeds for is known already or ensured before the call.
Prepared(todo, known) ==
  \A n \in 1 .. Len(todo) :
    Embeds(todo[n]) =>
      \A s \in ToSet(todo[n].spaces) :
        s \in known \/ \E m \in 1 .. n - 1 : Ensures(todo[m], s)

\* For a call that embeds for one space nothing before it has to do with the
\* embedder of another one, and its own is the exact one already or ensured.
Focused(todo, exact) ==
  \A n \in 1 .. Len(todo) :
    Embeds(todo[n]) =>
      \A s \in Spaces :
        ToSet(todo[n].spaces) = {s} =>
          /\ \A m \in 1 .. n - 1 :
               /\ todo[m].op \notin {"init", "migrate"}
               /\ todo[m].op = "ensure" => Ensures(todo[m], s)
          /\ s \in exact \/ \E m \in 1 .. n - 1 : Ensures(todo[m], s)

\* What a request may start with, in any workspace.
Startable ==
  {p \in Seq(Calls) : Prepared(p, {}) /\ Focused(p, {})}

\* The lists a request names have one or two entries, each a space.
LEMMA ListsOfSpaces ==
  ASSUME NEW list \in SpaceLists
  PROVE  /\ list \in Seq(Spaces) /\ list # <<>> /\ list[1] \in Spaces
         /\ ToSet(list) \subseteq Spaces
         /\ DOMAIN list = {1} \/ DOMAIN list = {1, 2}
         /\ Len(list) \in {1, 2}
<1>1. list \in Seq(Spaces) /\ Len(list) \in {1, 2}
  <2>1. CASE list \in {<<s>> : s \in Spaces}
    <3>1. PICK s \in Spaces : list = <<s>>
      BY <2>1
    <3>. QED  BY <3>1
  <2>2. CASE list \in {<<s, t>> : s \in Spaces, t \in Spaces}
    <3>1. PICK s \in Spaces, t \in Spaces : list = <<s, t>>
      BY <2>2
    <3>. QED  BY <3>1
  <2>. QED  BY <2>1, <2>2 DEF SpaceLists
<1>2. /\ list \in [1 .. Len(list) -> Spaces] /\ DOMAIN list = 1 .. Len(list)
  BY <1>1, LenProperties
<1>3. ToSet(list) = {list[i] : i \in 1 .. Len(list)}
  BY <1>2 DEF ToSet
<1>. QED  BY <1>1, <1>2, <1>3

\* A sequence of calls after its first one.
LEMMA AfterFirst ==
  ASSUME NEW todo \in Seq(Calls), todo # <<>>
  PROVE  /\ Head(todo) \in Calls /\ Head(todo) = todo[1]
         /\ Tail(todo) \in Seq(Calls)
         /\ Len(todo) \in Nat /\ Len(todo) >= 1
         /\ Len(Tail(todo)) = Len(todo) - 1
         /\ \A i \in 1 .. Len(Tail(todo)) : Tail(todo)[i] = todo[i + 1]
<1>1. /\ Head(todo) \in Calls /\ Tail(todo) \in Seq(Calls)
      /\ Len(Tail(todo)) = Len(todo) - 1
      /\ \A i \in 1 .. Len(Tail(todo)) : Tail(todo)[i] = todo[i + 1]
  BY HeadTailProperties
<1>2. Len(todo) \in Nat /\ Len(todo) # 0
  BY LenProperties, EmptySeq
<1>3. Head(todo) = todo[1]
  OBVIOUS
<1>. QED  BY <1>1, <1>2, <1>3

\* More spaces may be known, or exact.
LEMMA PreparedGrows ==
  ASSUME NEW todo, NEW known, NEW more, known \subseteq more,
         Prepared(todo, known)
  PROVE  Prepared(todo, more)
BY DEF Prepared

\* A program stays focused when more spaces have their own model.
LEMMA FocusedGrows ==
  ASSUME NEW todo, NEW exact, NEW more, exact \subseteq more,
         Focused(todo, exact)
  PROVE  Focused(todo, more)
BY DEF Focused

\* The rest of a program is prepared once its first call, if it ensures the
\* embedder of a space, has made the space known.
LEMMA PreparedAdvances ==
  ASSUME NEW todo \in Seq(Calls), todo # <<>>, NEW known, NEW more,
         known \subseteq more, Prepared(todo, known),
         \A s : Ensures(Head(todo), s) => s \in more
  PROVE  Prepared(Tail(todo), more)
<1>. SUFFICES ASSUME NEW n \in 1 .. Len(Tail(todo)), Embeds(Tail(todo)[n]),
                     NEW s \in ToSet(Tail(todo)[n].spaces), s \notin more
              PROVE  \E m \in 1 .. n - 1 : Ensures(Tail(todo)[m], s)
  BY DEF Prepared
<1>1. /\ n + 1 \in 1 .. Len(todo) /\ Tail(todo)[n] = todo[n + 1]
  BY AfterFirst
<1>2. PICK m \in 1 .. (n + 1) - 1 : Ensures(todo[m], s)
  BY <1>1 DEF Prepared
<1>3. m # 1
  BY <1>2, AfterFirst
<1>4. m - 1 \in 1 .. n - 1 /\ m - 1 \in 1 .. Len(Tail(todo))
  BY <1>3
<1>5. Tail(todo)[m - 1] = todo[m]
  <2>1. Tail(todo)[m - 1] = todo[(m - 1) + 1]
    BY <1>4, AfterFirst
  <2>2. (m - 1) + 1 = m
    OBVIOUS
  <2>. QED  BY <2>1, <2>2
<1>. QED  BY <1>2, <1>4, <1>5

\* The first call of a prepared program that embeds does so for known spaces.
LEMMA PreparedFirst ==
  ASSUME NEW todo \in Seq(Calls), todo # <<>>, NEW known,
         Prepared(todo, known), Embeds(Head(todo))
  PROVE  ToSet(Head(todo).spaces) \subseteq known
<1>1. 1 \in 1 .. Len(todo) /\ Head(todo) = todo[1]
  BY AfterFirst
<1>. QED  BY <1>1 DEF Prepared

\* The rest of a focused program is focused if the first call, unless it starts
\* a space, migrates one or ensures another one, has left the exact spaces so
\* and made the one it ensures exact.
LEMMA FocusedAdvances ==
  ASSUME NEW todo \in Seq(Calls), todo # <<>>, NEW exact, NEW after,
         Focused(todo, exact),
         \A s \in Spaces :
           /\ Head(todo).op \notin {"init", "migrate"}
           /\ Head(todo).op = "ensure" => Ensures(Head(todo), s)
           /\ s \in exact \/ Ensures(Head(todo), s)
           => s \in after
  PROVE  Focused(Tail(todo), after)
<1>. SUFFICES ASSUME NEW n \in 1 .. Len(Tail(todo)), Embeds(Tail(todo)[n]),
                     NEW s \in Spaces, ToSet(Tail(todo)[n].spaces) = {s}
              PROVE  /\ \A m \in 1 .. n - 1 :
                          /\ Tail(todo)[m].op \notin {"init", "migrate"}
                          /\ Tail(todo)[m].op = "ensure" => Ensures(Tail(todo)[m], s)
                     /\ s \in after \/ \E m \in 1 .. n - 1 : Ensures(Tail(todo)[m], s)
  BY DEF Focused
<1>1. n + 1 \in 1 .. Len(todo) /\ Tail(todo)[n] = todo[n + 1]
  BY AfterFirst
<1>2. \A m \in 1 .. n - 1 : /\ m \in 1 .. Len(Tail(todo)) /\ m + 1 \in 1 .. (n + 1) - 1
                           /\ Tail(todo)[m] = todo[m + 1]
  <2>. SUFFICES ASSUME NEW m \in 1 .. n - 1
                PROVE  /\ m \in 1 .. Len(Tail(todo)) /\ m + 1 \in 1 .. (n + 1) - 1
                       /\ Tail(todo)[m] = todo[m + 1]
    OBVIOUS
  <2>1. m \in 1 .. Len(Tail(todo)) /\ m + 1 \in 1 .. (n + 1) - 1
    BY AfterFirst
  <2>. QED  BY <2>1, AfterFirst
<1>3. /\ \A m \in 1 .. (n + 1) - 1 :
           /\ todo[m].op \notin {"init", "migrate"}
           /\ todo[m].op = "ensure" => Ensures(todo[m], s)
      /\ s \in exact \/ \E m \in 1 .. (n + 1) - 1 : Ensures(todo[m], s)
  <2>1. ToSet(todo[n + 1].spaces) = {s} /\ Embeds(todo[n + 1])
    BY <1>1
  <2>. QED  BY <1>1, <2>1 DEF Focused
<1>4. 1 \in 1 .. (n + 1) - 1 /\ Head(todo) = todo[1]
  BY AfterFirst
<1>5. /\ Head(todo).op \notin {"init", "migrate"}
      /\ Head(todo).op = "ensure" => Ensures(Head(todo), s)
  BY <1>3, <1>4
<1>6. CASE s \in exact \/ Ensures(Head(todo), s)
  BY <1>2, <1>3, <1>5, <1>6
<1>7. CASE ~(s \in exact \/ Ensures(Head(todo), s))
  <2>1. PICK m \in 1 .. (n + 1) - 1 : Ensures(todo[m], s)
    BY <1>3, <1>7
  <2>2. m # 1
    BY <1>4, <1>7, <2>1
  <2>3. m - 1 \in 1 .. n - 1 /\ (m - 1) + 1 = m
    BY <2>2
  <2>4. Ensures(Tail(todo)[m - 1], s)
    BY <1>2, <2>1, <2>3
  <2>. QED  BY <1>2, <1>3, <2>3, <2>4
<1>. QED  BY <1>6, <1>7

\* The first call of a focused program that embeds for one space does so for an
\* exact one.
LEMMA FocusedFirst ==
  ASSUME NEW todo \in Seq(Calls), todo # <<>>, NEW exact, NEW s \in Spaces,
         Focused(todo, exact), Embeds(Head(todo)),
         ToSet(Head(todo).spaces) = {s}
  PROVE  s \in exact
<1>1. 1 \in 1 .. Len(todo) /\ Head(todo) = todo[1]
  BY AfterFirst
<1>. QED  BY <1>1 DEF Focused

\* A focused program that starts or migrates a space first embeds for no single
\* space.
LEMMA FocusedMigration ==
  ASSUME NEW todo \in Seq(Calls), todo # <<>>, NEW exact, NEW after,
         Focused(todo, exact), Head(todo).op \in {"init", "migrate"}
  PROVE  Focused(todo, after)
<1>1. 1 \in 1 .. Len(todo) /\ Head(todo) = todo[1] /\ Len(todo) \in Nat
  BY AfterFirst
<1>. SUFFICES ASSUME NEW n \in 1 .. Len(todo), Embeds(todo[n]), NEW s \in Spaces,
                     ToSet(todo[n].spaces) = {s}
              PROVE  FALSE
  BY DEF Focused
<1>2. n # 1
  BY <1>1 DEF Embeds, EmbeddingOps
<1>3. 1 \in 1 .. n - 1
  BY <1>1, <1>2
<1>. QED  BY <1>1, <1>3 DEF Focused

\* What a request does with the spaces on a list, once their embedders are
\* ensured.
Bodies(list) ==
  {b \in Seq(Calls) : \A n \in 1 .. Len(b) :
     \/ b[n].op = "read"
     \/ Embeds(b[n]) /\ b[n].spaces = list}

\* The parts of such a program are of that kind, and put together still are.
LEMMA BodyParts ==
  ASSUME NEW list \in SpaceLists
  PROVE  /\ Read \in Bodies(list) /\ Refused \in Bodies(list)
         /\ Search(list) \in Bodies(list) /\ Remember(list) \in Bodies(list)
<1>1. /\ Call("read", <<>>, Nil) \in Calls
      /\ \A op \in {"search", "remember"} : Call(op, list, Nil) \in Calls
  BY ListsOfSpaces DEF Calls, Call, Ops, EmbeddingOps
<1>2. ASSUME NEW c \in Calls, c.op = "read" \/ (Embeds(c) /\ c.spaces = list)
      PROVE  <<c>> \in Bodies(list)
  <2>1. <<c>> \in Seq(Calls) /\ Len(<<c>>) = 1 /\ <<c>>[1] = c
    OBVIOUS
  <2>. QED  BY <1>2, <2>1 DEF Bodies
<1>3. Refused \in Bodies(list)
  <2>1. <<>> \in Seq(Calls) /\ Len(<<>>) = 0
    BY EmptySeq
  <2>. QED  BY <2>1 DEF Bodies, Refused
<1>4. Read \in Bodies(list)
  <2>1. Call("read", <<>>, Nil).op = "read"
    BY DEF Call
  <2>. QED  BY <1>1, <1>2, <2>1 DEF Read
<1>5. Search(list) \in Bodies(list)
  BY <1>1, <1>2 DEF Search, Call, Embeds, EmbeddingOps
<1>6. Remember(list) \in Bodies(list)
  BY <1>1, <1>2 DEF Remember, Call, Embeds, EmbeddingOps
<1>. QED  BY <1>3, <1>4, <1>5, <1>6

\* The calls of two bodies for the same spaces make a body for them.
LEMMA BodiesJoin ==
  ASSUME NEW list, NEW b \in Bodies(list), NEW c \in Bodies(list)
  PROVE  b \o c \in Bodies(list)
<1>1. b \in Seq(Calls) /\ c \in Seq(Calls)
  BY DEF Bodies
<1>2. /\ b \o c \in Seq(Calls)
      /\ Len(b) \in Nat /\ Len(c) \in Nat
      /\ Len(b \o c) = Len(b) + Len(c)
      /\ \A i \in 1 .. Len(b) + Len(c) :
           (b \o c)[i] = IF i <= Len(b) THEN b[i] ELSE c[i - Len(b)]
  BY <1>1, ConcatProperties, LenProperties
<1>3. ASSUME NEW n \in 1 .. Len(b \o c)
      PROVE  \/ (b \o c)[n].op = "read"
             \/ Embeds((b \o c)[n]) /\ (b \o c)[n].spaces = list
  <2>1. CASE n <= Len(b)
    <3>1. n \in 1 .. Len(b) /\ (b \o c)[n] = b[n]
      BY <1>2, <2>1
    <3>. QED  BY <3>1 DEF Bodies
  <2>2. CASE ~(n <= Len(b))
    <3>1. n - Len(b) \in 1 .. Len(c) /\ (b \o c)[n] = c[n - Len(b)]
      BY <1>2, <2>2
    <3>. QED  BY <3>1 DEF Bodies
  <2>. QED  BY <2>1, <2>2
<1>. QED  BY <1>2, <1>3 DEF Bodies

\* The calls that ensure the embedders of a list.
LEMMA EnsuresOfList ==
  ASSUME NEW list \in SpaceLists
  PROVE  /\ EnsureEmbeddersForSpaces(list) \in Seq(Calls)
         /\ Len(EnsureEmbeddersForSpaces(list)) = Len(list)
         /\ \A n \in 1 .. Len(list) :
              /\ EnsureEmbeddersForSpaces(list)[n].op = "ensure"
              /\ EnsureEmbeddersForSpaces(list)[n].spaces[1] = list[n]
<1>. DEFINE e == EnsureEmbeddersForSpaces(list)
<1>1. list \in [1 .. Len(list) -> Spaces] /\ Len(list) \in Nat
      /\ DOMAIN list = 1 .. Len(list)
  BY ListsOfSpaces, LenProperties
<1>2. e = [n \in 1 .. Len(list) |-> Call("ensure", <<list[n]>>, Nil)]
  BY <1>1 DEF EnsureEmbeddersForSpaces
<1>3. \A n \in 1 .. Len(list) : Call("ensure", <<list[n]>>, Nil) \in Calls
  <2>. SUFFICES ASSUME NEW n \in 1 .. Len(list)
                PROVE  Call("ensure", <<list[n]>>, Nil) \in Calls
    OBVIOUS
  <2>1. <<list[n]>> \in SpaceLists /\ <<list[n]>> # <<>>
    BY <1>1 DEF SpaceLists
  <2>. QED  BY <2>1 DEF Calls, Call, Ops
<1>4. e \in [1 .. Len(list) -> Calls]
  BY <1>2, <1>3
<1>5. e \in Seq(Calls) /\ Len(e) = Len(list)
  <2>1. e \in Seq(Calls)
    BY <1>1, <1>4, SeqDef
  <2>2. DOMAIN e = 1 .. Len(list) /\ DOMAIN e = 1 .. Len(e) /\ Len(e) \in Nat
    BY <1>4, <2>1, LenProperties
  <2>. HIDE DEF e
  <2>. QED  BY <1>1, <2>1, <2>2
<1>6. \A n \in 1 .. Len(list) : e[n].op = "ensure" /\ e[n].spaces[1] = list[n]
  BY <1>2 DEF Call
<1>. QED  BY <1>5, <1>6

\* A program that ensures the embedders of a list of spaces and then embeds for
\* that list only can start in any workspace.
LEMMA EnsuredPrograms ==
  ASSUME NEW list \in SpaceLists, NEW b \in Bodies(list)
  PROVE  EnsureEmbeddersForSpaces(list) \o b \in Startable
<1>. DEFINE e == EnsureEmbeddersForSpaces(list)
            p == e \o b
<1>1. /\ e \in Seq(Calls) /\ Len(e) = Len(list) /\ Len(list) \in Nat
      /\ \A n \in 1 .. Len(list) : e[n].op = "ensure" /\ e[n].spaces[1] = list[n]
  BY EnsuresOfList, ListsOfSpaces
<1>. HIDE DEF e
<1>2. b \in Seq(Calls) /\ Len(b) \in Nat
  BY LenProperties DEF Bodies
<1>3. /\ p \in Seq(Calls) /\ Len(p) = Len(list) + Len(b)
      /\ \A i \in 1 .. Len(list) + Len(b) :
           p[i] = IF i <= Len(list) THEN e[i] ELSE b[i - Len(list)]
  <2>1. /\ e \o b \in Seq(Calls) /\ Len(e \o b) = Len(e) + Len(b)
        /\ \A i \in 1 .. Len(e) + Len(b) :
             (e \o b)[i] = IF i <= Len(e) THEN e[i] ELSE b[i - Len(e)]
    <3>1. e \in Seq(Calls) /\ b \in Seq(Calls)
      BY <1>1, <1>2
    <3>. QED  BY <3>1, ConcatProperties
  <2>. QED  BY <1>1, <2>1
<1>. HIDE DEF p
<1>4. \A i \in 1 .. Len(list) :
        /\ i \in 1 .. Len(p) /\ p[i].op = "ensure" /\ p[i].spaces[1] = list[i]
  BY <1>1, <1>2, <1>3
<1>5. \A i \in 1 .. Len(p) : i > Len(list) =>
        p[i].op = "read" \/ (Embeds(p[i]) /\ p[i].spaces = list)
  <2>. SUFFICES ASSUME NEW i \in 1 .. Len(p), i > Len(list)
                PROVE  p[i].op = "read" \/ (Embeds(p[i]) /\ p[i].spaces = list)
    OBVIOUS
  <2>1. i - Len(list) \in 1 .. Len(b) /\ p[i] = b[i - Len(list)]
    BY <1>1, <1>2, <1>3
  <2>. QED  BY <2>1 DEF Bodies
<1>6. ToSet(list) = {list[i] : i \in 1 .. Len(list)}
  BY ListsOfSpaces, LenProperties DEF ToSet
<1>7. ASSUME NEW n \in 1 .. Len(p), Embeds(p[n])
      PROVE  /\ p[n].spaces = list /\ n > Len(list)
             /\ \A s \in ToSet(list) : \E m \in 1 .. n - 1 : Ensures(p[m], s)
  <2>1. n > Len(list)
    <3>1. ~(n <= Len(list))
      BY <1>4, <1>7 DEF Embeds, EmbeddingOps
    <3>. QED  BY <1>1, <3>1
  <2>2. p[n].spaces = list
    BY <1>5, <1>7, <2>1 DEF Embeds, EmbeddingOps
  <2>3. \A i \in 1 .. Len(list) : i \in 1 .. n - 1 /\ Ensures(p[i], list[i])
    BY <1>1, <1>4, <2>1 DEF Ensures
  <2>. QED  BY <1>6, <2>1, <2>2, <2>3
<1>8. Prepared(p, {})
  BY <1>7 DEF Prepared
<1>9. Focused(p, {})
  <2>. SUFFICES ASSUME NEW n \in 1 .. Len(p), Embeds(p[n]), NEW s \in Spaces,
                       ToSet(p[n].spaces) = {s}
                PROVE  /\ \A m \in 1 .. n - 1 :
                            /\ p[m].op \notin {"init", "migrate"}
                            /\ p[m].op = "ensure" => Ensures(p[m], s)
                       /\ \E m \in 1 .. n - 1 : Ensures(p[m], s)
    BY DEF Focused
  <2>1. ToSet(list) = {s} /\ p[n].spaces = list
    BY <1>7
  <2>2. \E m \in 1 .. n - 1 : Ensures(p[m], s)
    BY <1>7, <2>1
  <2>3. ASSUME NEW m \in 1 .. n - 1
        PROVE  /\ p[m].op \notin {"init", "migrate"}
               /\ p[m].op = "ensure" => Ensures(p[m], s)
    <3>0. m \in 1 .. Len(p)
      BY <1>3, <1>1, <1>2
    <3>1. CASE m <= Len(list)
      <4>1. m \in 1 .. Len(list)
        BY <1>1, <3>1
      <4>2. list[m] = s
        BY <1>6, <2>1, <4>1
      <4>. QED  BY <1>4, <4>1, <4>2 DEF Ensures
    <3>2. CASE m > Len(list)
      BY <1>5, <3>0, <3>2 DEF Embeds, EmbeddingOps
    <3>. QED  BY <1>1, <3>1, <3>2
  <2>. QED  BY <2>2, <2>3
<1>. QED  BY <1>3, <1>8, <1>9 DEF Startable, p, e

\* So can one that embeds nothing.
LEMMA QuietPrograms ==
  ASSUME NEW p \in Seq(Calls), \A n \in 1 .. Len(p) : ~Embeds(p[n])
  PROVE  p \in Startable
BY DEF Startable, Prepared, Focused

\* The programs the four interfaces are put together from.
LEMMA RequestsStart ==
  /\ \A list \in SpaceLists :
       /\ EnsureEmbeddersForSpaces(list) \o Search(list) \in Startable
       /\ EnsureEmbeddersForSpaces(list) \o Profile(list) \in Startable
       /\ EnsureEmbeddersForSpaces(list) \o Remember(list) \in Startable
  /\ \A s \in Spaces :
       /\ EnsureEmbedderForSpace(s) \in Startable
       /\ EnsureEmbedderForSpace(s) \o Refused \in Startable
       /\ EnsureEmbedderForSpace(s) \o Search(<<s>>) \in Startable
       /\ EnsureEmbedderForSpace(s) \o Remember(<<s>>) \in Startable
       /\ EnsureEmbedderForSpace(s) \o Report(s) \in Startable
       /\ EnsureEmbedderForSpace(s) \o Plan(s) \in Startable
       /\ EnsureEmbedderForSpace(s) \o Report(s) \o Plan(s) \in Startable
       /\ EnsureEmbedderForSpace(s) \o Search(<<s>>) \o Remember(<<s>>) \in Startable
<1>1. ASSUME NEW list \in SpaceLists
      PROVE  /\ EnsureEmbeddersForSpaces(list) \o Search(list) \in Startable
             /\ EnsureEmbeddersForSpaces(list) \o Profile(list) \in Startable
             /\ EnsureEmbeddersForSpaces(list) \o Remember(list) \in Startable
  <2>1. Profile(list) \in Bodies(list)
    BY BodyParts, BodiesJoin DEF Profile
  <2>. QED  BY <2>1, BodyParts, EnsuredPrograms
<1>2. ASSUME NEW s \in Spaces
      PROVE  /\ EnsureEmbedderForSpace(s) \in Startable
             /\ EnsureEmbedderForSpace(s) \o Refused \in Startable
             /\ EnsureEmbedderForSpace(s) \o Search(<<s>>) \in Startable
             /\ EnsureEmbedderForSpace(s) \o Remember(<<s>>) \in Startable
             /\ EnsureEmbedderForSpace(s) \o Report(s) \in Startable
             /\ EnsureEmbedderForSpace(s) \o Plan(s) \in Startable
             /\ EnsureEmbedderForSpace(s) \o Report(s) \o Plan(s) \in Startable
             /\ EnsureEmbedderForSpace(s) \o Search(<<s>>) \o Remember(<<s>>) \in Startable
  <2>1. <<s>> \in SpaceLists
    BY DEF SpaceLists
  <2>2. /\ Read \in Bodies(<<s>>) /\ Refused \in Bodies(<<s>>)
        /\ Search(<<s>>) \in Bodies(<<s>>) /\ Remember(<<s>>) \in Bodies(<<s>>)
    BY <2>1, BodyParts
  <2>3. Report(s) \in Bodies(<<s>>)
    BY <2>2, BodiesJoin DEF Report
  <2>4. Plan(s) \in Bodies(<<s>>)
    BY <2>2, <2>3, BodiesJoin DEF Plan
  <2>. DEFINE e == EnsureEmbedderForSpace(s)
  <2>5. e \in Seq(Calls) /\ \A b \in Bodies(<<s>>) : e \o b \in Startable
    BY <2>1, EnsuresOfList, EnsuredPrograms DEF EnsureEmbedderForSpace
  <2>. HIDE DEF e
  <2>6. \A b, c \in Bodies(<<s>>) : e \o b \o c \in Startable
    <3>. SUFFICES ASSUME NEW b \in Bodies(<<s>>), NEW c \in Bodies(<<s>>)
                  PROVE  e \o b \o c \in Startable
      OBVIOUS
    <3>1. e \in Seq(Calls) /\ b \in Seq(Calls) /\ c \in Seq(Calls)
      BY <2>5 DEF Bodies
    <3>2. (e \o b) \o c = e \o (b \o c)
      BY <3>1, ConcatAssociative
    <3>3. b \o c \in Bodies(<<s>>)
      BY BodiesJoin
    <3>. QED  BY <2>5, <3>2, <3>3
  <2>7. e \in Startable
    <3>1. e \o <<>> = e
      BY <2>5, ConcatEmptySeq
    <3>. QED  BY <2>2, <2>5, <3>1 DEF Refused
  <2>. QED  BY <2>2, <2>3, <2>4, <2>5, <2>6, <2>7 DEF e
<1>. QED  BY <1>1, <1>2

\* The programs that embed nothing.
LEMMA OthersStart ==
  /\ Refused \in Startable /\ Read \in Startable
  /\ Forget \in Startable /\ Revive \in Startable
  /\ \A s \in Spaces :
       /\ InitSpace(s) \in Startable /\ ApplyConfig(s) \in Startable
       /\ \A asked \in Models \cup {Nil} : Migrate(s, asked) \in Startable
<1>1. ASSUME NEW c \in Calls, ~Embeds(c)
      PROVE  <<c>> \in Startable
  <2>1. <<c>> \in Seq(Calls) /\ Len(<<c>>) = 1 /\ <<c>>[1] = c
    OBVIOUS
  <2>2. \A n \in 1 .. Len(<<c>>) : ~Embeds(<<c>>[n])
    BY <1>1, <2>1
  <2>. QED  BY <2>1, <2>2, QuietPrograms
<1>2. Refused \in Startable
  <2>1. <<>> \in Seq(Calls) /\ Len(<<>>) = 0
    BY EmptySeq
  <2>2. \A n \in 1 .. Len(<<>>) : ~Embeds(<<>>[n])
    BY <2>1
  <2>. QED  BY <2>1, <2>2, QuietPrograms DEF Refused
<1>3. \A op \in {"read", "forget", "revive"} :
        Call(op, <<>>, Nil) \in Calls /\ ~Embeds(Call(op, <<>>, Nil))
  BY DEF Calls, Call, Ops, Embeds, EmbeddingOps
<1>4. \A s \in Spaces, asked \in Models \cup {Nil}, op \in {"init", "apply", "migrate"} :
        Call(op, <<s>>, asked) \in Calls /\ ~Embeds(Call(op, <<s>>, asked))
  <2>1. \A s \in Spaces : <<s>> \in SpaceLists /\ <<s>> # <<>>
    BY DEF SpaceLists
  <2>. QED  BY <2>1 DEF Calls, Call, Ops, Embeds, EmbeddingOps
<1>5. Read \in Startable /\ Forget \in Startable /\ Revive \in Startable
  BY <1>1, <1>3 DEF Read, Forget, Revive
<1>6. ASSUME NEW s \in Spaces
      PROVE  InitSpace(s) \in Startable /\ ApplyConfig(s) \in Startable
  BY <1>1, <1>4 DEF InitSpace, ApplyConfig
<1>7. ASSUME NEW s \in Spaces, NEW asked \in Models \cup {Nil}
      PROVE  Migrate(s, asked) \in Startable
  <2>. DEFINE c == Call("migrate", <<s>>, asked)
              d == Call("read", <<>>, Nil)
  <2>1. c \in Calls /\ ~Embeds(c) /\ d \in Calls /\ ~Embeds(d)
    BY <1>3, <1>4
  <2>. HIDE DEF c, d
  <2>2. /\ <<c>> \in Seq(Calls) /\ Len(<<c>>) = 1 /\ <<c>>[1] = c
        /\ <<d>> \in Seq(Calls) /\ Len(<<d>>) = 1 /\ <<d>>[1] = d
    BY <2>1
  <2>3. /\ <<c>> \o <<d>> \in Seq(Calls) /\ Len(<<c>> \o <<d>>) = 2
        /\ \A i \in 1 .. 2 : (<<c>> \o <<d>>)[i] = IF i <= 1 THEN <<c>>[i] ELSE <<d>>[i - 1]
    BY <2>2, ConcatProperties
  <2>4. \A n \in 1 .. 2 : (<<c>> \o <<d>>)[n] \in {c, d}
    <3>1. \A n \in 1 .. 2 : n = 1 \/ (n = 2 /\ n - 1 = 1)
      OBVIOUS
    <3>. QED  BY <2>2, <2>3, <3>1
  <2>5. <<c>> \o <<d>> \in Startable
    BY <2>1, <2>3, <2>4, QuietPrograms
  <2>. QED  BY <2>5 DEF Migrate, Read, c, d
<1>. QED  BY <1>2, <1>5, <1>6, <1>7

\* Whatever a command, a tool call or a request turns into can start.
LEMMA ProgramsStart ==
  ASSUME NEW api \in {"cli", "mcp", "http", "grpc"}
  PROVE  Programs(api) \subseteq Startable
<1>1. CommandLinePrograms \subseteq Startable
  <2>1. runInit \cup runRemember \cup runLintRemember \cup runRecall
          \cup runProfile \subseteq Startable
    BY RequestsStart, OthersStart
    DEF runInit, runRemember, runLintRemember, runRecall, runProfile
  <2>2. runForget \cup runForgetBatch \cup runRevive \cup runLineage
          \cup runRelated \cup runAudit \cup runExport \cup runSpace
          \cup runSpaceValidateConfig \cup runSpaceDiffConfig \cup runConfig
          \subseteq Startable
    BY OthersStart
    DEF runForget, runForgetBatch, runRevive, runLineage, runRelated, runAudit,
        runExport, runSpace, runSpaceValidateConfig, runSpaceDiffConfig, runConfig
  <2>3. runCandidates \cup runQuality \cup runQualityPlan
          \cup runSynthesisCandidates \cup runPromotionSuggestions
          \cup runQualityReport \subseteq Startable
    BY RequestsStart
    DEF runCandidates, runQuality, runQualityPlan, runSynthesisCandidates,
        runPromotionSuggestions, runQualityReport
  <2>4. runMigrate \cup runSpaceApplyConfig \subseteq Startable
    BY OthersStart DEF runMigrate, runSpaceApplyConfig
  <2>. QED  BY <2>1, <2>2, <2>3, <2>4 DEF CommandLinePrograms
<1>2. McpPrograms \subseteq Startable
  <2>1. spaceInitTool \cup memoryForgetTool \cup memoryLineageTool
          \cup memoryRelatedTool \cup memoryExportSummaryTool \subseteq Startable
    BY OthersStart DEF spaceInitTool, memoryForgetTool, memoryLineageTool,
        memoryRelatedTool, memoryExportSummaryTool
  <2>2. memoryLintRememberTool \cup memoryRememberTool \subseteq Startable
    BY RequestsStart DEF memoryLintRememberTool, memoryRememberTool
  <2>3. memoryRecallTool \cup memoryProfileTool \cup memoryProfileCompactTool
          \subseteq Startable
    BY RequestsStart
    DEF memoryRecallTool, memoryProfileTool, memoryProfileCompactTool
  <2>4. memorySynthesisCandidatesTool \cup memoryPromotionSuggestionsTool
          \subseteq Startable
    BY RequestsStart
    DEF memorySynthesisCandidatesTool, memoryPromotionSuggestionsTool
  <2>. QED  BY <2>1, <2>2, <2>3, <2>4 DEF McpPrograms
<1>3. HttpPrograms \subseteq Startable
  <2>0. WithoutRepeats \subseteq SpaceLists
    BY DEF WithoutRepeats
  <2>1. handleHealth \cup handleInspector \cup handleConfig
          \cup handleListMemories \cup handleForgetBatch \cup handleAudit
          \cup handleExport \cup handleExportDiff \cup handleExportCompare
          \cup handleMemoryAction \cup handleLineageAction \cup handleSpaceConfig
          \subseteq Startable
    BY OthersStart
    DEF handleHealth, handleInspector, handleConfig, handleListMemories,
        handleForgetBatch, handleAudit, handleExport, handleExportDiff,
        handleExportCompare, handleMemoryAction, handleLineageAction,
        handleSpaceConfig
  <2>2. handleSpaceInit \cup handleSpaceMigrate \subseteq Startable
    BY OthersStart DEF handleSpaceInit, handleSpaceMigrate
  <2>3. handleRemember \cup handleRememberBatch \cup handleRecall
          \cup handleProfile \cup handleCandidates \subseteq Startable
    BY <2>0, RequestsStart, OthersStart
    DEF handleRemember, handleRememberBatch, handleRecall, handleProfile,
        handleCandidates
  <2>4. handleQualityDiagnostics \cup handleQualityCleanupPlan
          \cup handleSynthesisCandidates \cup handlePromotionSuggestions
          \subseteq Startable
    BY RequestsStart, OthersStart
    DEF handleQualityDiagnostics, handleQualityCleanupPlan,
        handleSynthesisCandidates, handlePromotionSuggestions, BadQuery
  <2>. QED  BY <2>1, <2>2, <2>3, <2>4 DEF HttpPrograms
<1>4. GrpcPrograms \subseteq Startable
  <2>1. GrpcHealth \cup GrpcGetRuntimeConfig \cup GrpcInitSpace
          \cup GrpcGetSpaceConfig \cup GrpcForget \cup GrpcRevive
          \cup GrpcGetLineage \cup GrpcGetRelated \cup GrpcGetAuditLog
          \cup GrpcMigrateEmbeddings \subseteq Startable
    BY OthersStart
    DEF GrpcHealth, GrpcGetRuntimeConfig, GrpcInitSpace, GrpcGetSpaceConfig,
        GrpcForget, GrpcRevive, GrpcGetLineage, GrpcGetRelated,
        GrpcGetAuditLog, GrpcMigrateEmbeddings
  <2>2. GrpcRemember \cup GrpcRecall \cup GrpcGetProfile
          \cup GrpcFindCandidates \cup GrpcSynthesisCandidates
          \cup GrpcPromotionSuggestions \subseteq Startable
    BY RequestsStart
    DEF GrpcRemember, GrpcRecall, GrpcGetProfile, GrpcFindCandidates,
        GrpcSynthesisCandidates, GrpcPromotionSuggestions
  <2>. QED  BY <2>1, <2>2 DEF GrpcPrograms
<1>. QED  BY <1>1, <1>2, <1>3, <1>4 DEF Programs

-------------------------------------------------------------------------------
(* What the operations of the store do to the configurations of the spaces. *)

SameConfigs(old, new) ==
  "spacesConfig" \in DOMAIN new /\ new.spacesConfig = old.spacesConfig

\* A write of a memory leaves them alone.
LEMMA RememberKeepsConfigs ==
  ASSUME NEW d, "spacesConfig" \in DOMAIN d, NEW input, NEW id, NEW e
  PROVE  SameConfigs(d, RememberPreparedInTx(d, input, id, e))
<1>1. SameConfigs(d, RememberRoot(d, input, id, e))
  BY DEF RememberRoot, SameConfigs
<1>2. SameConfigs(d, RememberUpdate(d, input, id, e))
  BY DEF RememberUpdate, SameConfigs
<1>. QED  BY <1>1, <1>2 DEF RememberPreparedInTx

\* Nor does a deletion touch the configurations.
LEMMA ForgetKeepsConfigs ==
  ASSUME NEW d, "spacesConfig" \in DOMAIN d, NEW id
  PROVE  SameConfigs(d, ForgetInTx(d, id))
<1>1. SameConfigs(d, ForgetVersion(d, id))
  BY DEF ForgetVersion, SameConfigs
<1>2. ASSUME NEW f, SameConfigs(d, f), NEW mem, NEW root
      PROVE  SameConfigs(d, DeactivateLineage(f, mem, id, root))
  BY <1>2 DEF DeactivateLineage, SameConfigs
<1>. QED  BY <1>1, <1>2 DEF ForgetInTx, SameConfigs

\* Nor does a revival.
LEMMA ReviveKeepsConfigs ==
  ASSUME NEW d, "spacesConfig" \in DOMAIN d, NEW root, NEW pred, NEW kind, NEW id
  PROVE  SameConfigs(d, ReviveLineage(d, root, pred, kind, id))
BY DEF ReviveLineage, SameConfigs

\* So does a batch of them: its inputs are written one after the other.
LEMMA BatchKeepsConfigs ==
  ASSUME NEW d, "spacesConfig" \in DOMAIN d, NEW list \in SpaceLists,
         NEW actor, NEW vectors
  PROVE  SameConfigs(d, RememberInputs(d, list, actor, vectors))
<1>. DEFINE Op(content, s) ==
              RememberPreparedInTx(content, Observation(s, actor),
                                   FreeID(content), vectors[s])
            after == RememberInputs(d, list, actor, vectors)
            D == DOMAIN list
            IsFold(g) == g = [S \in SUBSET D |->
                           IF S = {} THEN d
                           ELSE Op(g[S \ {Max(S)}], list[Max(S)])]
            it == CHOOSE g : IsFold(g)
            One(S) == IF S = {} THEN d ELSE Op(d, list[Max(S)])
            w == [S \in SUBSET D |->
                    IF S = {1, 2} THEN Op(One(S \ {Max(S)}), list[Max(S)])
                                  ELSE One(S)]
<1>1. D = {1} \/ D = {1, 2}
  BY ListsOfSpaces
<1>2. after = it[D]
  BY DEF RememberInputs, FoldLeft, MapThenFoldSet
<1>3. Max({1}) = 1 /\ Max({2}) = 2 /\ Max({1, 2}) \in {1, 2}
  <2>1. ASSUME NEW n \in {1, 2}  PROVE Max({n}) = n
    BY DEF Max
  <2>2. Max({1, 2}) = 2
    <3>1. \A y \in {1, 2} : 2 >= y
      OBVIOUS
    <3>2. \A x \in {1, 2} : (\A y \in {1, 2} : x >= y) => x = 2
      OBVIOUS
    <3>. QED  BY <3>1, <3>2 DEF Max
  <2>. QED  BY <2>1, <2>2
<1>. HIDE DEF Op, after
<1>4. IsFold(w)
  <2>. DEFINE step == [S \in SUBSET D |-> IF S = {} THEN d
                          ELSE Op(w[S \ {Max(S)}], list[Max(S)])]
  <2>1. ASSUME NEW S \in SUBSET D  PROVE  w[S] = step[S]
    <3>1. S \in {{}, {1}, {2}, {1, 2}}
      BY <1>1
    <3>2. CASE S = {}
      BY <3>2
    <3>3. CASE S = {1} \/ S = {2}
      <4>1. S # {1, 2} /\ S # {} /\ S \ {Max(S)} = {}
        BY <1>3, <3>3
      <4>2. {} \in SUBSET D /\ w[{}] = d
        OBVIOUS
      <4>3. w[S] = Op(d, list[Max(S)])
        BY <4>1
      <4>. HIDE DEF w
      <4>. QED  BY <4>1, <4>2, <4>3
    <3>4. CASE S = {1, 2}
      <4>1. S \ {Max(S)} # {1, 2} /\ S # {} /\ S \ {Max(S)} \in SUBSET D
        BY <1>3, <3>4
      <4>2. w[S \ {Max(S)}] = One(S \ {Max(S)})
        BY <4>1
      <4>3. w[S] = Op(One(S \ {Max(S)}), list[Max(S)])
        BY <3>4
      <4>. HIDE DEF w, One
      <4>. QED  BY <4>1, <4>2, <4>3
    <3>. QED  BY <3>1, <3>2, <3>3, <3>4
  <2>2. w = step
    <3>1. w = [S \in SUBSET D |-> w[S]] /\ step = [S \in SUBSET D |-> step[S]]
      OBVIOUS
    <3>. HIDE DEF w, step
    <3>. QED  BY <2>1, <3>1
  <2>. QED  BY <2>2
<1>. HIDE DEF w
<1>5. IsFold(it)
  BY <1>4
<1>. HIDE DEF it
<1>6. /\ it[{}] = d
      /\ \A S \in SUBSET D : S # {} => it[S] = Op(it[S \ {Max(S)}], list[Max(S)])
  BY <1>5
<1>. HIDE DEF IsFold
<1>7. \A f, s : SameConfigs(d, f) => SameConfigs(d, Op(f, s))
  <2>. SUFFICES ASSUME NEW f, NEW s, SameConfigs(d, f)
                PROVE  SameConfigs(d, Op(f, s))
    OBVIOUS
  <2>1. SameConfigs(f, Op(f, s))
    BY RememberKeepsConfigs DEF Op, SameConfigs
  <2>. QED  BY <2>1 DEF SameConfigs
<1>8. \A S \in SUBSET D : S \in {{1}, {2}} => SameConfigs(d, it[S])
  <2>. SUFFICES ASSUME NEW S \in SUBSET D, S \in {{1}, {2}}
                PROVE  SameConfigs(d, it[S])
    OBVIOUS
  <2>1. S # {} /\ S \ {Max(S)} = {}
    BY <1>3
  <2>2. it[S] = Op(d, list[Max(S)])
    BY <1>6, <2>1
  <2>3. SameConfigs(d, d)
    BY DEF SameConfigs
  <2>. QED  BY <1>7, <2>2, <2>3
<1>9. CASE D = {1}
  BY <1>2, <1>8, <1>9 DEF after
<1>10. CASE D = {1, 2}
  <2>1. D \ {Max(D)} \in {{1}, {2}} /\ D \ {Max(D)} \in SUBSET D /\ D # {}
    BY <1>3, <1>10
  <2>2. it[D] = Op(it[D \ {Max(D)}], list[Max(D)])
    BY <1>6, <2>1
  <2>3. SameConfigs(d, it[D])
    BY <1>7, <1>8, <2>1, <2>2
  <2>. QED  BY <1>2, <2>3 DEF after
<1>. QED  BY <1>1, <1>9, <1>10

-------------------------------------------------------------------------------
(* The inductive invariant. *)

\* The configurations in the file.
ConfigsTyped ==
  /\ "spacesConfig" \in DOMAIN db
  /\ db.spacesConfig \in [Spaces -> ConfiguredSpace \cup {Nil}]
  /\ \A s \in Spaces :
       db.spacesConfig[s] # Nil => IsPolicy(db.spacesConfig[s].writePolicy)

\* The embedders of a process: under each id one with that id, and one it
\* was ever given.
ProcessTyped ==
  process # Nil =>
    /\ process \in Process
    /\ \A id \in ModelIDs :
         process.registry[id] # Nil =>
           process.registry[id].id = id /\ process.registry[id] \in process.offered

\* A model a lookup finds an embedder for, unless the file is at fault.
Met(space, model) ==
  process.registry[model.id] # Nil \/ Drifted(space, model)

\* A model a lookup finds itself for, unless the file is at fault.
Exact(space, model) ==
  process.registry[model.id] = model \/ Drifted(space, model)

\* The spaces whose model was met since the process started, which those that
\* do not exist yet will have been when they do.
KnownSpaces ==
  {s \in Spaces : db.spacesConfig[s] # Nil => Met(s, db.spacesConfig[s].model)}

ExactSpaces ==
  {s \in Spaces : db.spacesConfig[s] # Nil => Exact(s, db.spacesConfig[s].model)}

\* What a goroutine read of a space and has not registered yet: still its model,
\* or one that a migration has replaced by a model it registered.
FoundOK(t) ==
  Holds(t, "found") =>
    /\ Current(t) \in Calls /\ SpaceOf(t) \in Spaces
    /\ threads[t].held.found \in Models
    /\ db.spacesConfig[SpaceOf(t)] # Nil
    /\ LET model == db.spacesConfig[SpaceOf(t)].model
       IN  \/ model = threads[t].held.found
           \/ IsServer /\ Met(SpaceOf(t), model)

\* The models it read and looks up next.
ModelsOK(t) ==
  Holds(t, "models") =>
    \A s \in DOMAIN threads[t].held.models :
      LET model == threads[t].held.models[s]
      IN  /\ s \in Spaces /\ model \in Models /\ Met(s, model)
          /\ ~IsServer /\ ToSet(Current(t).spaces) = {s} => Exact(s, model)

\* The embedders it found for them.
VectorsOK(t) ==
  Holds(t, "vectors") =>
    \A s \in DOMAIN threads[t].held.vectors :
      LET model == threads[t].held.models[s]
          used  == threads[t].held.vectors[s]
      IN  /\ ~IsServer /\ ToSet(Current(t).spaces) = {s} =>
               used = model \/ Drifted(s, model)
          /\ used # model => used.id = model.id /\ used \in process.offered

\* The target of a migration, and the one it started or joined.
TargetOK(t) ==
  /\ Holds(t, "chosen") => threads[t].held.chosen \in Models
  /\ Holds(t, "registered") =>
       /\ threads[t].held.registered \in Models
       /\ process.registry[threads[t].held.registered.id] # Nil
  /\ Holds(t, "embedder") =>
       /\ SpaceOf(t) \in Spaces
       /\ threads[t].held.embedder \in Models
       /\ process.registry[threads[t].held.embedder.id] # Nil
       /\ db.spacesConfig[SpaceOf(t)] # Nil

\* The program a goroutine runs, and what it read before its next step.
ThreadOK(t) ==
  threads[t] # Nil =>
    /\ process # Nil
    /\ threads[t] = [todo |-> threads[t].todo, held |-> threads[t].held]
    /\ threads[t].todo \in Seq(Calls)
    /\ threads[t].held # Nil => threads[t].todo # <<>>
    /\ Prepared(threads[t].todo, KnownSpaces)
    /\ ~IsServer => Focused(threads[t].todo, ExactSpaces)
    /\ FoundOK(t) /\ ModelsOK(t) /\ VectorsOK(t) /\ TargetOK(t)

\* A command runs in one goroutine.
OneProgram ==
  ~IsServer =>
    \A t, u \in Threads : threads[t] # Nil /\ threads[u] # Nil => t = u

WorkspaceInv ==
  /\ ConfigsTyped
  /\ ProcessTyped
  /\ threads = [t \in Threads |-> threads[t]]
  /\ \A t \in Threads : ThreadOK(t)
  /\ OneProgram

\* What every step of a goroutine has in common: embedders are added or
\* replaced, never removed; a space keeps its configuration, and its model
\* changes to a registered one only.
Effect(t) ==
  /\ ConfigsTyped' /\ ProcessTyped'
  /\ process # Nil /\ process' # Nil
  /\ process'.api = process.api /\ process'.config = process.config
  /\ \A id \in ModelIDs : process.registry[id] # Nil => process'.registry[id] # Nil
  /\ process.offered \subseteq process'.offered
  /\ \A s \in Spaces :
       /\ db.spacesConfig[s] # Nil => db'.spacesConfig[s] # Nil
       /\ db'.spacesConfig[s] # Nil =>
            \/ process'.registry[db'.spacesConfig[s].model.id] # Nil
            \/ /\ db.spacesConfig[s] # Nil
               /\ db'.spacesConfig[s].model = db.spacesConfig[s].model
  /\ threads' = [u \in Threads |-> threads'[u]]
  /\ \A u \in Threads : u # t => threads'[u] = threads[u]

\* A model of the constants has an id of its own kind and is not Nil.
LEMMA ModelFacts ==
  \A m \in Models : m # Nil /\ m.id \in ModelIDs
BY ModelsAssumption DEF ModelIDs

\* The configuration of a space that exists.
LEMMA ConfigFacts ==
  ASSUME ConfigsTyped, NEW s \in Spaces, db.spacesConfig[s] # Nil
  PROVE  /\ db.spacesConfig[s] \in ConfiguredSpace
         /\ db.spacesConfig[s].model \in Models
         /\ db.spacesConfig[s].migrating \in BOOLEAN
         /\ db.spacesConfig[s].target \in Models \cup {Nil}
         /\ IsPolicy(db.spacesConfig[s].writePolicy)
BY DEF ConfigsTyped, ConfiguredSpace

\* What was met stays so, and what the file says of a model does not change.
LEMMA EffectGrows ==
  ASSUME ConfigsTyped, NEW t, Effect(t)
  PROVE  /\ IsServer' = IsServer
         /\ \A s \in Spaces, m \in Models :
              /\ Met(s, m) => Met(s, m)'
              /\ Drifted(s, m)' <=> Drifted(s, m)
         /\ KnownSpaces \subseteq KnownSpaces'
<1>1. IsServer' = IsServer
  BY DEF IsServer, Effect
<1>2. ASSUME NEW s \in Spaces, NEW m \in Models
      PROVE  /\ Met(s, m) => Met(s, m)'
             /\ Drifted(s, m)' <=> Drifted(s, m)
  BY ModelFacts DEF Met, Drifted, Settings, Effect
<1>3. ASSUME NEW s \in KnownSpaces  PROVE s \in KnownSpaces'
  <2>0. s \in Spaces
    BY DEF KnownSpaces
  <2>1. CASE db'.spacesConfig[s] = Nil
    BY <2>0, <2>1 DEF KnownSpaces
  <2>2. CASE /\ db'.spacesConfig[s] # Nil
             /\ process'.registry[db'.spacesConfig[s].model.id] # Nil
    BY <2>0, <2>2 DEF KnownSpaces, Met
  <2>3. CASE /\ db'.spacesConfig[s] # Nil /\ db.spacesConfig[s] # Nil
             /\ db'.spacesConfig[s].model = db.spacesConfig[s].model
    <3>1. PICK m \in Models : m = db.spacesConfig[s].model /\ Met(s, m)
      BY <2>0, <2>3, ConfigFacts DEF KnownSpaces
    <3>2. Met(s, m)'
      BY <1>2, <2>0, <3>1
    <3>3. db'.spacesConfig[s].model = m
      BY <2>3, <3>1
    <3>. QED  BY <2>0, <3>2, <3>3 DEF KnownSpaces
  <2>. QED  BY <2>0, <2>1, <2>2, <2>3 DEF Effect
<1>. QED  BY <1>1, <1>2, <1>3

\* A goroutine of a server is not disturbed by the step of another one.
LEMMA OthersOK ==
  ASSUME WorkspaceInv, NEW t \in Threads, Effect(t),
         threads[t] # Nil \/ IsServer, NEW u \in Threads, u # t
  PROVE  ThreadOK(u)'
<1>. SUFFICES ASSUME threads'[u] # Nil  PROVE ThreadOK(u)'
  BY DEF ThreadOK
<1>1. threads'[u] = threads[u] /\ threads[u] # Nil
  BY DEF Effect
<1>2. IsServer
  BY <1>1 DEF WorkspaceInv, OneProgram
<1>3. /\ IsServer' = IsServer
      /\ \A s \in Spaces, m \in Models :
           /\ Met(s, m) => Met(s, m)'
           /\ Drifted(s, m)' <=> Drifted(s, m)
      /\ KnownSpaces \subseteq KnownSpaces'
  BY EffectGrows DEF WorkspaceInv
<1>4. /\ threads[u] = [todo |-> threads[u].todo, held |-> threads[u].held]
      /\ threads[u].todo \in Seq(Calls)
      /\ threads[u].held # Nil => threads[u].todo # <<>>
      /\ Prepared(threads[u].todo, KnownSpaces)
      /\ FoundOK(u) /\ ModelsOK(u) /\ VectorsOK(u) /\ TargetOK(u)
  BY <1>1 DEF WorkspaceInv, ThreadOK
<1>5. /\ Current(u)' = Current(u) /\ SpaceOf(u)' = SpaceOf(u)
      /\ \A part \in {"found", "models", "vectors", "chosen", "registered",
                       "embedder"} :
           Holds(u, part)' = Holds(u, part)
  BY <1>1 DEF Current, SpaceOf, Holds
<1>6. Prepared(threads[u].todo, KnownSpaces')
  BY <1>3, <1>4, PreparedGrows
<1>7. FoundOK(u)'
  <2>. SUFFICES ASSUME Holds(u, "found")
                PROVE  FoundOK(u)'
    BY <1>5 DEF FoundOK
  <2>1. PICK s \in Spaces, m \in Models :
          /\ s = SpaceOf(u) /\ Current(u) \in Calls
          /\ threads[u].held.found \in Models
          /\ db.spacesConfig[s] # Nil /\ m = db.spacesConfig[s].model
          /\ m = threads[u].held.found \/ Met(s, m)
    <3>1. SpaceOf(u) \in Spaces /\ db.spacesConfig[SpaceOf(u)] # Nil
      BY <1>4 DEF FoundOK
    <3>2. db.spacesConfig[SpaceOf(u)].model \in Models
      BY <3>1, ConfigFacts DEF WorkspaceInv
    <3>. QED  BY <1>4, <3>1, <3>2 DEF FoundOK
  <2>2. db'.spacesConfig[s] # Nil
    BY <2>1 DEF Effect
  <2>3. PICK n : n = db'.spacesConfig[s].model
    OBVIOUS
  <2>4. n = threads[u].held.found \/ Met(s, n)'
    <3>1. CASE process'.registry[n.id] # Nil
      BY <3>1 DEF Met
    <3>2. CASE n = m
      BY <1>3, <2>1, <3>2
    <3>. QED  BY <2>1, <2>2, <2>3, <3>1, <3>2 DEF Effect
  <2>. QED  BY <1>1, <1>2, <1>3, <1>5, <2>1, <2>2, <2>3, <2>4 DEF FoundOK
<1>8. ModelsOK(u)'
  <2>. SUFFICES ASSUME Holds(u, "models")
                PROVE  ModelsOK(u)'
    BY <1>5 DEF ModelsOK
  <2>1. ASSUME NEW s \in DOMAIN threads[u].held.models
        PROVE  \E m \in Models : /\ m = threads'[u].held.models[s]
                                 /\ s \in Spaces /\ Met(s, m)'
    <3>1. PICK m \in Models : m = threads[u].held.models[s] /\ s \in Spaces /\ Met(s, m)
      BY <1>4 DEF ModelsOK
    <3>2. Met(s, m)' /\ m = threads'[u].held.models[s]
      BY <1>1, <1>3, <3>1
    <3>. QED  BY <3>1, <3>2
  <2>. QED  BY <1>1, <1>2, <1>3, <2>1 DEF ModelsOK
<1>9. VectorsOK(u)'
  BY <1>1, <1>2, <1>3, <1>4, <1>5 DEF VectorsOK, Effect
<1>10. TargetOK(u)'
  <2>1. Holds(u, "chosen") => threads[u].held.chosen \in Models
    BY <1>4 DEF TargetOK
  <2>2. ASSUME Holds(u, "registered")
        PROVE  /\ threads[u].held.registered \in Models
               /\ process'.registry[threads[u].held.registered.id] # Nil
    <3>1. /\ threads[u].held.registered \in Models
          /\ process.registry[threads[u].held.registered.id] # Nil
      BY <1>4, <2>2 DEF TargetOK
    <3>. QED  BY <3>1, ModelFacts DEF Effect
  <2>3. ASSUME Holds(u, "embedder")
        PROVE  /\ SpaceOf(u) \in Spaces
               /\ threads[u].held.embedder \in Models
               /\ process'.registry[threads[u].held.embedder.id] # Nil
               /\ db'.spacesConfig[SpaceOf(u)] # Nil
    <3>1. /\ SpaceOf(u) \in Spaces
          /\ threads[u].held.embedder \in Models
          /\ process.registry[threads[u].held.embedder.id] # Nil
          /\ db.spacesConfig[SpaceOf(u)] # Nil
      BY <1>4, <2>3 DEF TargetOK
    <3>. QED  BY <3>1, ModelFacts DEF Effect
  <2>. QED  BY <1>1, <1>5, <2>1, <2>2, <2>3 DEF TargetOK
<1>. QED  BY <1>1, <1>2, <1>3, <1>4, <1>6, <1>7, <1>8, <1>9, <1>10
          DEF ThreadOK, Effect

\* What a step may do to the configurations.  The model of a space changes by
\* the completion of a migration only, and a policy is made by the config file
\* of the process.
Lawful ==
  \A s \in Spaces :
    LET old == db.spacesConfig[s]
        new == db'.spacesConfig[s]
    IN  /\ old # Nil =>
             /\ new # Nil
             /\ new.model # old.model =>
                  old.migrating /\ new.model = old.target /\ ~new.migrating
             /\ old.migrating /\ ~new.migrating => new.model = old.target
        /\ WritesPolicy(s) /\ process.config[s] # Nil =>
             \E p : IsPolicy(p) /\ MadeBy(process.config[s], p, new.writePolicy)

\* A step that leaves the configurations alone writes no policy and no model.
LEMMA SameIsLawful ==
  ASSUME SameConfigs(db, db')
  PROVE  Lawful
BY DEF SameConfigs, Lawful, WritesPolicy, Policy

\* The process of a goroutine that runs.
LEMMA RunningProcess ==
  ASSUME WorkspaceInv, NEW t \in Threads, threads[t] # Nil
  PROVE  /\ process # Nil /\ process \in Process
         /\ process.config \in ConfigFiles
         /\ process.registry \in [ModelIDs -> Models \cup {Nil}]
         /\ \A id \in ModelIDs :
              process.registry[id] # Nil =>
                process.registry[id].id = id /\ process.registry[id] \in process.offered
         /\ \A s \in Spaces : Settings(s) # Nil => IsSettings(Settings(s))
<1>1. process # Nil /\ process \in Process
  BY DEF WorkspaceInv, ThreadOK, ProcessTyped
<1>2. process.config \in ConfigFiles /\ process.registry \in [ModelIDs -> Models \cup {Nil}]
  BY <1>1 DEF Process
<1>. QED  BY <1>1, <1>2, ConfigFilesAssumption DEF WorkspaceInv, ProcessTyped, Settings

\* A registration replaces the embedder of one id.
LEMMA RegisteredFacts ==
  ASSUME WorkspaceInv, process # Nil, NEW m \in Models, Registered(m)
  PROVE  /\ ProcessTyped' /\ process' # Nil
         /\ process'.api = process.api /\ process'.config = process.config
         /\ process'.registry = [process.registry EXCEPT ![m.id] = m]
         /\ process'.registry[m.id] = m
         /\ process'.offered = process.offered \cup {m}
         /\ \A id \in ModelIDs : process.registry[id] # Nil => process'.registry[id] # Nil
<1>1. /\ process \in Process
      /\ \A id \in ModelIDs :
           process.registry[id] # Nil =>
             process.registry[id].id = id /\ process.registry[id] \in process.offered
  BY DEF WorkspaceInv, ProcessTyped
<1>2. process = [api |-> process.api, config |-> process.config,
                 registry |-> process.registry, offered |-> process.offered,
                 left |-> process.left]
      /\ process.api \in Apis /\ process.config \in ConfigFiles
      /\ process.registry \in [ModelIDs -> Models \cup {Nil}]
      /\ process.offered \in SUBSET Models /\ process.left \in Nat
  BY <1>1 DEF Process
<1>3. m # Nil /\ m.id \in ModelIDs
  BY ModelFacts
<1>. DEFINE registry == [process.registry EXCEPT ![m.id] = m]
            offered == process.offered \cup {m}
<1>4. process' = [api |-> process.api, config |-> process.config,
                  registry |-> registry, offered |-> offered,
                  left |-> process.left]
  <2>. DEFINE one == [process EXCEPT !.registry = registry]
  <2>1. process' = [one EXCEPT !.offered = offered]
    BY <1>2 DEF Registered
  <2>. HIDE DEF registry, offered
  <2>2. one = [api |-> process.api, config |-> process.config,
               registry |-> registry, offered |-> process.offered,
               left |-> process.left]
    BY <1>2
  <2>. HIDE DEF one
  <2>. QED  BY <2>1, <2>2
<1>5. registry \in [ModelIDs -> Models \cup {Nil}] /\ offered \in SUBSET Models
      /\ registry[m.id] = m
      /\ \A id \in ModelIDs : id # m.id => registry[id] = process.registry[id]
  BY <1>2, <1>3
<1>. HIDE DEF registry, offered
<1>6. process' \in Process
  BY <1>2, <1>4, <1>5 DEF Process
<1>7. process' # Nil
  BY <1>6, NilProcessAssumption
<1>8. /\ process'.api = process.api /\ process'.config = process.config
      /\ process'.registry = registry /\ process'.offered = offered
  BY <1>4
<1>9. \A id \in ModelIDs :
        registry[id] # Nil => registry[id].id = id /\ registry[id] \in offered
  BY <1>1, <1>5 DEF offered
<1>10. ProcessTyped'
  BY <1>6, <1>8, <1>9 DEF ProcessTyped
<1>11. \A id \in ModelIDs : process.registry[id] # Nil => registry[id] # Nil
  BY <1>3, <1>5
<1>. QED  BY <1>5, <1>7, <1>8, <1>10, <1>11 DEF registry, offered

\* A step that touches neither the process nor the configurations.
LEMMA QuietStep ==
  ASSUME WorkspaceInv, NEW t \in Threads, threads[t] # Nil,
         process' = process, SameConfigs(db, db'),
         NEW x, threads' = [threads EXCEPT ![t] = x]
  PROVE  Effect(t) /\ Lawful /\ ExactSpaces' = ExactSpaces
<1>1. ConfigsTyped' /\ ProcessTyped'
  BY DEF WorkspaceInv, ConfigsTyped, ProcessTyped, SameConfigs
<1>2. process # Nil
  BY RunningProcess
<1>3. /\ threads' = [u \in Threads |-> threads'[u]]
      /\ \A u \in Threads : u # t => threads'[u] = threads[u]
  BY DEF WorkspaceInv
<1>4. ExactSpaces' = ExactSpaces
  BY DEF SameConfigs, ExactSpaces, Exact, Drifted, Settings
<1>5. Effect(t)
  BY <1>1, <1>2, <1>3 DEF Effect, SameConfigs
<1>. QED  BY <1>4, <1>5, SameIsLawful

\* A step that registers an embedder and does not touch the configurations.
LEMMA RegisterStep ==
  ASSUME WorkspaceInv, NEW t \in Threads, threads[t] # Nil,
         NEW m \in Models, Registered(m), SameConfigs(db, db'),
         NEW x, threads' = [threads EXCEPT ![t] = x]
  PROVE  Effect(t) /\ Lawful
<1>1. process # Nil
  BY RunningProcess
<1>2. /\ ProcessTyped' /\ process' # Nil
      /\ process'.api = process.api /\ process'.config = process.config
      /\ process'.offered = process.offered \cup {m}
      /\ \A id \in ModelIDs : process.registry[id] # Nil => process'.registry[id] # Nil
  BY <1>1, RegisteredFacts
<1>3. ConfigsTyped'
  BY DEF WorkspaceInv, ConfigsTyped, SameConfigs
<1>4. /\ threads' = [u \in Threads |-> threads'[u]]
      /\ \A u \in Threads : u # t => threads'[u] = threads[u]
  BY DEF WorkspaceInv
<1>5. Effect(t)
  BY <1>1, <1>2, <1>3, <1>4 DEF Effect, SameConfigs
<1>. QED  BY <1>5, SameIsLawful

\* A step that writes the configuration of a space.
LEMMA ConfigWrite ==
  ASSUME ConfigsTyped, NEW s \in Spaces, NEW c \in ConfiguredSpace,
         IsPolicy(c.writePolicy), "spacesConfig" \in DOMAIN db',
         db'.spacesConfig = [db.spacesConfig EXCEPT ![s] = c]
  PROVE  /\ ConfigsTyped' /\ c # Nil
         /\ db'.spacesConfig[s] = c
         /\ \A r \in Spaces : r # s => db'.spacesConfig[r] = db.spacesConfig[r]
BY NilConfigAssumption DEF ConfigsTyped

\* A call done, with what it left for the later ones.
LEMMA AdvanceOK ==
  ASSUME WorkspaceInv, NEW t \in Threads, threads[t] # Nil,
         threads[t].todo # <<>>, Effect(t), Advance(t),
         \A s : Ensures(Current(t), s) => s \in KnownSpaces',
         ~IsServer => \A s \in Spaces :
           /\ Current(t).op \notin {"init", "migrate"}
           /\ Current(t).op = "ensure" => Ensures(Current(t), s)
           /\ s \in ExactSpaces \/ Ensures(Current(t), s)
           => s \in ExactSpaces'
  PROVE  ThreadOK(t)'
<1>1. PICK todo \in Seq(Calls) : todo = threads[t].todo
  BY DEF WorkspaceInv, ThreadOK
<1>2. threads'[t] = [todo |-> Tail(todo), held |-> Nil]
  BY <1>1 DEF WorkspaceInv, Advance
<1>3. threads'[t].todo = Tail(todo) /\ threads'[t].held = Nil
  BY <1>2
<1>4. Tail(todo) \in Seq(Calls)
  BY <1>1, AfterFirst
<1>5. IsServer' = IsServer /\ KnownSpaces \subseteq KnownSpaces'
  BY EffectGrows DEF WorkspaceInv
<1>6. Prepared(Tail(todo), KnownSpaces')
  <2>1. Prepared(todo, KnownSpaces)
    BY <1>1 DEF WorkspaceInv, ThreadOK
  <2>2. \A s : Ensures(Head(todo), s) => s \in KnownSpaces'
    BY <1>1 DEF Current
  <2>. QED  BY <1>1, <1>5, <2>1, <2>2, PreparedAdvances
<1>7. ~IsServer => Focused(Tail(todo), ExactSpaces')
  <2>. SUFFICES ASSUME ~IsServer  PROVE Focused(Tail(todo), ExactSpaces')
    OBVIOUS
  <2>1. Focused(todo, ExactSpaces)
    BY <1>1 DEF WorkspaceInv, ThreadOK
  <2>2. \A s \in Spaces :
           /\ Head(todo).op \notin {"init", "migrate"}
           /\ Head(todo).op = "ensure" => Ensures(Head(todo), s)
           /\ s \in ExactSpaces \/ Ensures(Head(todo), s)
           => s \in ExactSpaces'
    BY <1>1 DEF Current
  <2>. QED  BY <1>1, <2>1, <2>2, FocusedAdvances
<1>8. FoundOK(t)' /\ ModelsOK(t)' /\ VectorsOK(t)' /\ TargetOK(t)'
  BY <1>3 DEF FoundOK, ModelsOK, VectorsOK, TargetOK, Holds
<1>. QED  BY <1>2, <1>3, <1>4, <1>5, <1>6, <1>7, <1>8 DEF ThreadOK, Effect

\* A call failed.
LEMMA FailOK ==
  ASSUME WorkspaceInv, NEW t \in Threads, threads[t] # Nil, Effect(t), Fail(t)
  PROVE  ThreadOK(t)'
<1>1. threads'[t] = [todo |-> <<>>, held |-> Nil]
  BY DEF WorkspaceInv, Fail
<1>2. threads'[t].todo = <<>> /\ threads'[t].held = Nil
  BY <1>1
<1>3. <<>> \in Seq(Calls) /\ Len(<<>>) = 0
  BY EmptySeq
<1>4. Prepared(<<>>, KnownSpaces') /\ Focused(<<>>, ExactSpaces')
  BY <1>3 DEF Prepared, Focused
<1>5. FoundOK(t)' /\ ModelsOK(t)' /\ VectorsOK(t)' /\ TargetOK(t)'
  BY <1>2 DEF FoundOK, ModelsOK, VectorsOK, TargetOK, Holds
<1>. QED  BY <1>1, <1>2, <1>3, <1>4, <1>5 DEF ThreadOK, Effect

\* A goroutine keeps what it read; the four parts are checked where it is read.
LEMMA HoldOK ==
  ASSUME WorkspaceInv, NEW t \in Threads, threads[t] # Nil,
         threads[t].todo # <<>>, Effect(t), NEW h, Hold(t, h),
         ~IsServer => Focused(threads[t].todo, ExactSpaces'),
         FoundOK(t)', ModelsOK(t)', VectorsOK(t)', TargetOK(t)'
  PROVE  ThreadOK(t)'
<1>1. PICK todo, held : /\ threads[t] = [todo |-> todo, held |-> held]
                        /\ todo \in Seq(Calls)
  BY DEF WorkspaceInv, ThreadOK
<1>2. threads'[t] = [todo |-> todo, held |-> h]
  BY <1>1 DEF WorkspaceInv, Hold
<1>3. threads[t].todo = todo /\ threads'[t].todo = todo /\ threads'[t].held = h
  BY <1>1, <1>2
<1>4. IsServer' = IsServer /\ KnownSpaces \subseteq KnownSpaces'
  BY EffectGrows DEF WorkspaceInv
<1>5. Prepared(todo, KnownSpaces')
  <2>1. Prepared(todo, KnownSpaces)
    BY <1>3 DEF WorkspaceInv, ThreadOK
  <2>. QED  BY <1>4, <2>1, PreparedGrows
<1>6. /\ ~IsServer' => Focused(todo, ExactSpaces')
      /\ todo # <<>> /\ process' # Nil
  BY <1>3, <1>4 DEF Effect
<1>. QED  BY <1>1, <1>2, <1>3, <1>5, <1>6 DEF ThreadOK

-------------------------------------------------------------------------------
(* The steps of a goroutine. *)

Outcome(t) == Effect(t) /\ ThreadOK(t)' /\ Lawful

\* The call a goroutine is at.
LEMMA RunningCall ==
  ASSUME WorkspaceInv, NEW t \in Threads, NEW op, Runs(t, op)
  PROVE  /\ threads[t] # Nil /\ threads[t].todo # <<>>
         /\ threads[t].todo \in Seq(Calls)
         /\ Current(t) = Head(threads[t].todo)
         /\ Current(t) \in Calls /\ Current(t).op = op
         /\ Current(t).model \in Models \cup {Nil}
         /\ op \notin {"read", "forget", "revive"} =>
              /\ Current(t).spaces \in SpaceLists
              /\ SpaceOf(t) \in Spaces
         /\ \A s : Ensures(Current(t), s) <=> op = "ensure" /\ s = SpaceOf(t)
<1>1. /\ threads[t] # Nil /\ threads[t].todo # <<>>
      /\ threads[t].todo \in Seq(Calls) /\ Current(t) = Head(threads[t].todo)
      /\ Current(t).op = op
  BY DEF WorkspaceInv, ThreadOK, Runs, Current
<1>2. Current(t) \in Calls
  BY <1>1, AfterFirst
<1>3. /\ op \notin {"read", "forget", "revive"} => Current(t).spaces \in SpaceLists
      /\ Current(t).model \in Models \cup {Nil}
  BY <1>1, <1>2 DEF Calls
<1>. QED  BY <1>1, <1>2, <1>3, ListsOfSpaces DEF SpaceOf, Ensures

\* A call that changes neither the process nor the configurations, and is done.
LEMMA QuietAdvance ==
  ASSUME WorkspaceInv, NEW t \in Threads, NEW op, Runs(t, op), op # "ensure",
         process' = process, SameConfigs(db, db'), Advance(t)
  PROVE  Outcome(t)
<1>1. /\ threads[t] # Nil /\ threads[t].todo # <<>>
      /\ \A s : ~Ensures(Current(t), s)
  BY RunningCall
<1>2. PICK x : threads' = [threads EXCEPT ![t] = x]
  BY DEF Advance
<1>3. Effect(t) /\ Lawful /\ ExactSpaces' = ExactSpaces
  BY <1>1, <1>2, QuietStep
<1>4. ThreadOK(t)'
  BY <1>1, <1>3, AdvanceOK
<1>. QED  BY <1>3, <1>4 DEF Outcome

\* One that fails.
LEMMA QuietFail ==
  ASSUME WorkspaceInv, NEW t \in Threads, NEW op, Runs(t, op),
         process' = process, SameConfigs(db, db'), Fail(t)
  PROVE  Outcome(t)
<1>1. threads[t] # Nil
  BY RunningCall
<1>2. PICK x : threads' = [threads EXCEPT ![t] = x]
  BY DEF Fail
<1>3. Effect(t) /\ Lawful
  BY <1>1, <1>2, QuietStep
<1>4. ThreadOK(t)'
  BY <1>1, <1>3, FailOK
<1>. QED  BY <1>3, <1>4 DEF Outcome

\* One that only reads, and keeps what it read.
LEMMA QuietHold ==
  ASSUME WorkspaceInv, NEW t \in Threads, NEW op, Runs(t, op),
         process' = process, db' = db, NEW h, Hold(t, h),
         FoundOK(t)', ModelsOK(t)', VectorsOK(t)', TargetOK(t)'
  PROVE  Outcome(t)
<1>1. threads[t] # Nil /\ threads[t].todo # <<>>
  BY RunningCall
<1>2. PICK x : threads' = [threads EXCEPT ![t] = x]
  BY DEF Hold
<1>3. SameConfigs(db, db')
  BY DEF SameConfigs, WorkspaceInv, ConfigsTyped
<1>4. Effect(t) /\ Lawful /\ ExactSpaces' = ExactSpaces
  BY <1>1, <1>2, <1>3, QuietStep
<1>5. ~IsServer => Focused(threads[t].todo, ExactSpaces')
  BY <1>1, <1>4 DEF WorkspaceInv, ThreadOK
<1>6. ThreadOK(t)'
  BY <1>1, <1>4, <1>5, HoldOK
<1>. QED  BY <1>4, <1>6 DEF Outcome

\* What a goroutine holds after that.
LEMMA HeldAfter ==
  ASSUME WorkspaceInv, NEW t \in Threads, NEW op, Runs(t, op), NEW h, Hold(t, h)
  PROVE  /\ threads'[t].todo = threads[t].todo /\ threads'[t].held = h
         /\ Current(t)' = Current(t) /\ SpaceOf(t)' = SpaceOf(t)
         /\ \A part : part \notin DOMAIN h => ~Holds(t, part)'
<1>1. threads[t] = [todo |-> threads[t].todo, held |-> threads[t].held]
  BY RunningCall DEF WorkspaceInv, ThreadOK
<1>2. threads'[t].todo = threads[t].todo /\ threads'[t].held = h
  BY <1>1 DEF WorkspaceInv, Hold
<1>. QED  BY <1>2 DEF Current, SpaceOf, Holds

\* Calls that embed nothing and write nothing.
LEMMA ReadStep ==
  ASSUME WorkspaceInv, NEW t \in Threads, ReadCall(t)
  PROVE  Outcome(t)
<1>1. SameConfigs(db, db')
  BY DEF ReadCall, SameConfigs, WorkspaceInv, ConfigsTyped
<1>. QED  BY <1>1, QuietAdvance DEF ReadCall

\* The comparison of the vectors ends the call.
LEMMA CompareStep ==
  ASSUME WorkspaceInv, NEW t \in Threads, CompareVectors(t)
  PROVE  Outcome(t)
<1>1. SameConfigs(db, db')
  BY DEF CompareVectors, SameConfigs, WorkspaceInv, ConfigsTyped
<1>. QED  BY <1>1, QuietAdvance DEF CompareVectors

\* A deletion changes memories only.
LEMMA ForgetStep ==
  ASSUME WorkspaceInv, NEW t \in Threads, ForgetCall(t)
  PROVE  Outcome(t)
<1>1. "spacesConfig" \in DOMAIN db
  BY DEF WorkspaceInv, ConfigsTyped
<1>2. PICK id \in MemoryIDs :
        IF ForgetAllowed(db, id) THEN db' = ForgetInTx(db, id) /\ Advance(t)
                                 ELSE Fail(t) /\ UNCHANGED db
  BY DEF ForgetCall
<1>3. SameConfigs(db, db')
  BY <1>1, <1>2, ForgetKeepsConfigs DEF SameConfigs
<1>. QED  BY <1>2, <1>3, QuietAdvance, QuietFail DEF ForgetCall

\* A revival changes memories only.
LEMMA ReviveStep ==
  ASSUME WorkspaceInv, NEW t \in Threads, ReviveCall(t)
  PROVE  Outcome(t)
<1>1. "spacesConfig" \in DOMAIN db
  BY DEF WorkspaceInv, ConfigsTyped
<1>2. SameConfigs(db, db') /\ (Advance(t) \/ Fail(t))
  BY <1>1, ReviveKeepsConfigs DEF ReviveCall, SameConfigs
<1>. QED  BY <1>2, QuietAdvance, QuietFail DEF ReviveCall

\* A write of memories, with the vectors held, changes memories only.
LEMMA RememberStep ==
  ASSUME WorkspaceInv, NEW t \in Threads, RememberCall(t)
  PROVE  Outcome(t)
<1>1. "spacesConfig" \in DOMAIN db
  BY DEF WorkspaceInv, ConfigsTyped
<1>2. Runs(t, "remember") /\ process' = process
  BY DEF RememberCall
<1>3. Current(t).spaces \in SpaceLists
  BY <1>2, RunningCall
<1>4. PICK actor \in Actors :
        \/ /\ db' = RememberInputs(db, Current(t).spaces, actor,
                                   threads[t].held.vectors)
           /\ Advance(t)
        \/ Fail(t) /\ UNCHANGED db
  BY DEF RememberCall
<1>5. SameConfigs(db, db')
  BY <1>1, <1>3, <1>4, BatchKeepsConfigs DEF SameConfigs
<1>. QED  BY <1>2, <1>4, <1>5, QuietAdvance, QuietFail

\* The embedder the config file declares is registered: the file names the model
\* the space has, or the space has drifted (ensureEmbedderForSpace).
LEMMA EnsureDeclaredStep ==
  ASSUME WorkspaceInv, NEW t \in Threads, EnsureDeclared(t)
  PROVE  Outcome(t)
<1>1. Runs(t, "ensure") /\ Advance(t) /\ SameConfigs(db, db')
  BY DEF EnsureDeclared, SameConfigs, WorkspaceInv, ConfigsTyped
<1>2. /\ threads[t] # Nil /\ threads[t].todo # <<>>
      /\ SpaceOf(t) \in Spaces /\ Current(t).op = "ensure"
      /\ \A s : Ensures(Current(t), s) <=> s = SpaceOf(t)
  BY <1>1, RunningCall
<1>3. PICK space \in Spaces, m \in Models :
        /\ space = SpaceOf(t) /\ m = DeclaredEmbedder(Settings(space))
        /\ DeclaresEmbedder(Settings(space)) /\ Registered(m)
  BY <1>2, RunningProcess DEF EnsureDeclared, IsSettings, DeclaresEmbedder
<1>4. /\ process # Nil /\ process'.config = process.config
      /\ process'.registry[m.id] = m /\ m # Nil
  BY <1>2, <1>3, RunningProcess, RegisteredFacts, ModelFacts
<1>5. PICK x : threads' = [threads EXCEPT ![t] = x]
  BY <1>1 DEF Advance
<1>6. Effect(t) /\ Lawful
  BY <1>1, <1>2, <1>3, <1>5, RegisterStep
<1>7. \A other : other # m => Drifted(space, other)'
  BY <1>3, <1>4 DEF Drifted, Settings
<1>8. space \in KnownSpaces' /\ space \in ExactSpaces'
  BY <1>4, <1>7 DEF KnownSpaces, ExactSpaces, Met, Exact
<1>9. ThreadOK(t)'
  BY <1>1, <1>2, <1>3, <1>6, <1>8, AdvanceOK
<1>. QED  BY <1>6, <1>9 DEF Outcome

\* The read of a space the file declares no embedder for: what it holds is the
\* model of the space at that moment; a space that does not exist is known as
\* long as it does not.
LEMMA EnsureReadStep ==
  ASSUME WorkspaceInv, NEW t \in Threads, EnsureRead(t)
  PROVE  Outcome(t)
<1>1. /\ Runs(t, "ensure") /\ process' = process /\ db' = db
      /\ SameConfigs(db, db')
  BY DEF EnsureRead, SameConfigs, WorkspaceInv, ConfigsTyped
<1>2. /\ threads[t] # Nil /\ threads[t].todo # <<>> /\ Current(t) \in Calls
      /\ SpaceOf(t) \in Spaces /\ Current(t).op = "ensure"
      /\ \A s : Ensures(Current(t), s) <=> s = SpaceOf(t)
  BY <1>1, RunningCall
<1>3. PICK space \in Spaces : space = SpaceOf(t)
  BY <1>2
<1>4. CASE db.spacesConfig[space] = Nil
  <2>1. Advance(t)
    BY <1>3, <1>4 DEF EnsureRead
  <2>2. PICK x : threads' = [threads EXCEPT ![t] = x]
    BY <2>1 DEF Advance
  <2>3. Effect(t) /\ Lawful /\ ExactSpaces' = ExactSpaces
    BY <1>1, <1>2, <2>2, QuietStep
  <2>4. space \in KnownSpaces' /\ space \in ExactSpaces'
    BY <1>1, <1>4 DEF KnownSpaces, ExactSpaces
  <2>5. ThreadOK(t)'
    BY <1>2, <1>3, <2>1, <2>3, <2>4, AdvanceOK
  <2>. QED  BY <2>3, <2>5 DEF Outcome
<1>5. CASE db.spacesConfig[space] # Nil
  <2>1. PICK m \in Models : /\ m = db.spacesConfig[space].model
                            /\ Hold(t, [found |-> m])
    BY <1>3, <1>5, ConfigFacts DEF EnsureRead, WorkspaceInv
  <2>2. /\ threads'[t].held = [found |-> m]
        /\ Current(t)' = Current(t) /\ SpaceOf(t)' = SpaceOf(t)
        /\ ~Holds(t, "models")' /\ ~Holds(t, "vectors")'
        /\ ~Holds(t, "chosen")' /\ ~Holds(t, "registered")' /\ ~Holds(t, "embedder")'
    BY <1>1, <2>1, HeldAfter
  <2>3. FoundOK(t)'
    BY <1>1, <1>2, <1>3, <1>5, <2>1, <2>2 DEF FoundOK
  <2>4. ModelsOK(t)' /\ VectorsOK(t)' /\ TargetOK(t)'
    BY <2>2 DEF ModelsOK, VectorsOK, TargetOK
  <2>. QED  BY <1>1, <2>1, <2>3, <2>4, QuietHold
<1>. QED  BY <1>4, <1>5

\* The registration of the model read before: a migration that replaced it
\* meanwhile has registered its own, so the space is known either way.
LEMMA RegisterFoundStep ==
  ASSUME WorkspaceInv, NEW t \in Threads, RegisterFound(t)
  PROVE  Outcome(t)
<1>1. /\ Runs(t, "ensure") /\ Holds(t, "found") /\ Advance(t) /\ db' = db
      /\ SameConfigs(db, db')
  BY DEF RegisterFound, SameConfigs, WorkspaceInv, ConfigsTyped
<1>2. /\ threads[t] # Nil /\ threads[t].todo # <<>>
      /\ SpaceOf(t) \in Spaces /\ Current(t).op = "ensure"
      /\ \A s : Ensures(Current(t), s) <=> s = SpaceOf(t)
  BY <1>1, RunningCall
<1>3. PICK space, m, n :
        /\ space \in Spaces /\ m \in Models
        /\ space = SpaceOf(t) /\ m = threads[t].held.found /\ Registered(m)
        /\ db.spacesConfig[space] # Nil /\ n = db.spacesConfig[space].model
        /\ n = m \/ (IsServer /\ Met(space, n))
        /\ n \in Models
  <2>1. FoundOK(t)
    BY <1>2 DEF WorkspaceInv, ThreadOK
  <2>2. db.spacesConfig[SpaceOf(t)] # Nil
    BY <1>1, <2>1 DEF FoundOK
  <2>3. db.spacesConfig[SpaceOf(t)].model \in Models
    BY <1>2, <2>2, ConfigFacts DEF WorkspaceInv
  <2>. QED  BY <1>1, <1>2, <2>1, <2>2, <2>3 DEF FoundOK, RegisterFound
<1>4. /\ process # Nil /\ process'.registry[m.id] = m /\ m # Nil
  BY <1>2, <1>3, RunningProcess, RegisteredFacts, ModelFacts
<1>5. PICK x : threads' = [threads EXCEPT ![t] = x]
  BY <1>1 DEF Advance
<1>6. Effect(t) /\ Lawful
  BY <1>1, <1>2, <1>3, <1>5, RegisterStep
<1>7. /\ db'.spacesConfig[space].model = n
      /\ n = m \/ Met(space, n)'
  BY <1>1, <1>3, <1>6, EffectGrows DEF WorkspaceInv
<1>8. space \in KnownSpaces' /\ (~IsServer => space \in ExactSpaces')
  BY <1>3, <1>4, <1>7 DEF KnownSpaces, ExactSpaces, Met, Exact
<1>9. ThreadOK(t)'
  BY <1>1, <1>2, <1>3, <1>6, <1>8, AdvanceOK
<1>. QED  BY <1>6, <1>9 DEF Outcome

\* The read of the models of a call: the spaces were ensured by an earlier call
\* of the same program, so an embedder is registered for each of their models.
LEMMA ReadConfigsStep ==
  ASSUME WorkspaceInv, NEW t \in Threads, ReadConfigs(t)
  PROVE  Outcome(t)
<1>1. /\ process' = process /\ db' = db /\ SameConfigs(db, db')
  BY DEF ReadConfigs, SameConfigs, WorkspaceInv, ConfigsTyped
<1>2. PICK op \in EmbeddingOps : Runs(t, op)
  BY DEF ReadConfigs, EmbeddingOps
<1>3. /\ threads[t] # Nil /\ threads[t].todo # <<>>
      /\ threads[t].todo \in Seq(Calls)
      /\ Current(t) = Head(threads[t].todo) /\ Embeds(Current(t))
      /\ Current(t).spaces \in SpaceLists
  BY <1>2, RunningCall DEF Embeds, EmbeddingOps
<1>4. PICK spaces : spaces = ToSet(Current(t).spaces) /\ spaces \subseteq Spaces
  BY <1>3, ListsOfSpaces
<1>5. CASE Fail(t)
  BY <1>1, <1>2, <1>5, QuietFail
<1>6. CASE ~Fail(t)
  <2>1. PICK models :
          /\ models = [s \in spaces |-> db.spacesConfig[s].model]
          /\ \A s \in spaces : db.spacesConfig[s] # Nil
          /\ Hold(t, [models |-> models])
    BY <1>4, <1>6 DEF ReadConfigs
  <2>2. /\ threads'[t].held = [models |-> models]
        /\ Current(t)' = Current(t) /\ SpaceOf(t)' = SpaceOf(t)
        /\ ~Holds(t, "found")' /\ ~Holds(t, "vectors")'
        /\ ~Holds(t, "chosen")' /\ ~Holds(t, "registered")' /\ ~Holds(t, "embedder")'
    BY <1>2, <2>1, HeldAfter
  <2>3. spaces \subseteq KnownSpaces
    <3>1. Prepared(threads[t].todo, KnownSpaces)
      BY <1>3 DEF WorkspaceInv, ThreadOK
    <3>. QED  BY <1>3, <1>4, <3>1, PreparedFirst
  <2>4. \A s \in Spaces : ~IsServer /\ spaces = {s} => s \in ExactSpaces
    <3>1. ~IsServer => Focused(threads[t].todo, ExactSpaces)
      BY <1>3 DEF WorkspaceInv, ThreadOK
    <3>. QED  BY <1>3, <1>4, <3>1, FocusedFirst
  <2>5. ASSUME NEW s \in spaces
        PROVE  /\ s \in Spaces /\ models[s] \in Models /\ Met(s, models[s])
               /\ ~IsServer /\ spaces = {s} => Exact(s, models[s])
    <3>1. s \in Spaces /\ db.spacesConfig[s] # Nil /\ models[s] = db.spacesConfig[s].model
      BY <1>4, <2>1
    <3>2. models[s] \in Models
      BY <3>1, ConfigFacts DEF WorkspaceInv
    <3>. QED  BY <2>3, <2>4, <3>1, <3>2 DEF KnownSpaces, ExactSpaces
  <2>6. ModelsOK(t)'
    <3>1. threads'[t].held.models = models /\ DOMAIN models = spaces
      BY <2>1, <2>2
    <3>2. IsServer' = IsServer
      BY <1>1 DEF IsServer
    <3>3. \A s \in spaces :
            /\ s \in Spaces /\ models[s] \in Models /\ Met(s, models[s])'
            /\ ~IsServer' /\ ToSet(Current(t).spaces) = {s} => Exact(s, models[s])'
      <4>. SUFFICES ASSUME NEW s \in spaces
                    PROVE  /\ s \in Spaces /\ models[s] \in Models /\ Met(s, models[s])'
                           /\ ~IsServer' /\ ToSet(Current(t).spaces) = {s} =>
                                Exact(s, models[s])'
        OBVIOUS
      <4>1. PICK m : m = models[s]
        OBVIOUS
      <4>2. (Met(s, m)' <=> Met(s, m)) /\ (Exact(s, m)' <=> Exact(s, m))
        BY <1>1 DEF Met, Exact, Drifted, Settings
      <4>3. /\ s \in Spaces /\ m \in Models /\ Met(s, m)
            /\ ~IsServer /\ spaces = {s} => Exact(s, m)
        BY <2>5, <4>1
      <4>. QED  BY <1>4, <3>2, <4>1, <4>2, <4>3
    <3>. QED  BY <2>2, <3>1, <3>3 DEF ModelsOK
  <2>7. FoundOK(t)' /\ VectorsOK(t)' /\ TargetOK(t)'
    BY <2>2 DEF FoundOK, VectorsOK, TargetOK
  <2>. QED  BY <1>1, <1>2, <2>1, <2>6, <2>7, QuietHold
<1>. QED  BY <1>5, <1>6

\* The lookups: an embedder is found for every model held, since registrations
\* are never undone; another one under its id was offered to this process.
LEMMA EmbedStep ==
  ASSUME WorkspaceInv, NEW t \in Threads, Embed(t)
  PROVE  Outcome(t)
<1>1. /\ process' = process /\ db' = db /\ SameConfigs(db, db')
      /\ Holds(t, "models")
  BY DEF Embed, SameConfigs, WorkspaceInv, ConfigsTyped
<1>2. PICK op \in EmbeddingOps : Runs(t, op)
  BY DEF Embed, EmbeddingOps
<1>3. CASE Unavailable(t)
  BY <1>1, <1>2, <1>3, QuietFail DEF Embed
<1>4. CASE ~Unavailable(t)
  <2>1. PICK models, vectors :
          /\ models = threads[t].held.models
          /\ vectors = [s \in DOMAIN models |-> process.registry[models[s].id]]
          /\ \A s \in DOMAIN models : process.registry[models[s].id] # Nil
          /\ Hold(t, [models |-> models, vectors |-> vectors])
    BY <1>4 DEF Embed, Unavailable
  <2>2. /\ threads'[t].held = [models |-> models, vectors |-> vectors]
        /\ Current(t)' = Current(t)
        /\ ~Holds(t, "found")'
        /\ ~Holds(t, "chosen")' /\ ~Holds(t, "registered")' /\ ~Holds(t, "embedder")'
    <3>1. DOMAIN [models |-> models, vectors |-> vectors] = {"models", "vectors"}
      OBVIOUS
    <3>2. PICK h : h = [models |-> models, vectors |-> vectors]
      OBVIOUS
    <3>3. Hold(t, h) /\ "found" \notin DOMAIN h /\ "embedder" \notin DOMAIN h
      BY <2>1, <3>1, <3>2
    <3>. QED  BY <1>2, <3>2, <3>3, HeldAfter
  <2>3. threads'[t].held.models = models /\ threads'[t].held.vectors = vectors
    BY <2>2
  <2>4. /\ \A s, m : /\ Met(s, m)' <=> Met(s, m)
                     /\ Exact(s, m)' <=> Exact(s, m)
                     /\ Drifted(s, m)' <=> Drifted(s, m)
        /\ IsServer' = IsServer
    BY <1>1 DEF Met, Exact, Drifted, Settings, IsServer
  <2>5. \A s \in DOMAIN models :
          /\ s \in Spaces /\ models[s] \in Models /\ Met(s, models[s])
          /\ ~IsServer /\ ToSet(Current(t).spaces) = {s} => Exact(s, models[s])
    BY <1>1, <1>2, <2>1, RunningCall DEF WorkspaceInv, ThreadOK, ModelsOK
  <2>6. ModelsOK(t)'
    BY <2>2, <2>3, <2>4, <2>5 DEF ModelsOK
  <2>7. \A s \in DOMAIN vectors :
          /\ s \in DOMAIN models /\ s \in Spaces
          /\ vectors[s].id = models[s].id /\ vectors[s] \in process.offered
          /\ ~IsServer /\ ToSet(Current(t).spaces) = {s} =>
               vectors[s] = models[s] \/ Drifted(s, models[s])
    <3>. SUFFICES ASSUME NEW s \in DOMAIN models
                  PROVE  /\ s \in Spaces
                         /\ vectors[s].id = models[s].id /\ vectors[s] \in process.offered
                         /\ ~IsServer /\ ToSet(Current(t).spaces) = {s} =>
                              vectors[s] = models[s] \/ Drifted(s, models[s])
      BY <2>1
    <3>1. vectors[s] = process.registry[models[s].id] /\ vectors[s] # Nil
      BY <2>1
    <3>2. models[s].id \in ModelIDs
      BY <2>5, ModelFacts
    <3>3. vectors[s].id = models[s].id /\ vectors[s] \in process.offered
      BY <1>2, <3>1, <3>2, RunningCall, RunningProcess
    <3>. QED  BY <2>5, <3>1, <3>3 DEF Exact
  <2>8. VectorsOK(t)'
    BY <1>1, <2>2, <2>3, <2>4, <2>7 DEF VectorsOK
  <2>9. FoundOK(t)' /\ TargetOK(t)'
    BY <2>2 DEF FoundOK, TargetOK
  <2>. QED  BY <1>1, <1>2, <2>1, <2>6, <2>8, <2>9, QuietHold
<1>. QED  BY <1>3, <1>4

\* The other steps write the configuration of the space of their call.  What
\* that does to the rest is the same for all of them.
LEMMA WriteEffect ==
  ASSUME WorkspaceInv, NEW t \in Threads, threads[t] # Nil,
         \/ process' = process
         \/ \E m \in Models : Registered(m),
         NEW s \in Spaces, NEW c \in ConfiguredSpace, IsPolicy(c.writePolicy),
         "spacesConfig" \in DOMAIN db',
         db'.spacesConfig = [db.spacesConfig EXCEPT ![s] = c],
         \/ process'.registry[c.model.id] # Nil
         \/ db.spacesConfig[s] # Nil /\ db.spacesConfig[s].model = c.model,
         NEW x, threads' = [threads EXCEPT ![t] = x]
  PROVE  Effect(t)
<1>1. /\ ConfigsTyped' /\ c # Nil /\ db'.spacesConfig[s] = c
      /\ \A r \in Spaces : r # s => db'.spacesConfig[r] = db.spacesConfig[r]
  BY ConfigWrite DEF WorkspaceInv
<1>2. process # Nil /\ ProcessTyped
  BY RunningProcess DEF WorkspaceInv
<1>3. /\ ProcessTyped' /\ process' # Nil
      /\ process'.api = process.api /\ process'.config = process.config
      /\ \A id \in ModelIDs : process.registry[id] # Nil => process'.registry[id] # Nil
      /\ process.offered \subseteq process'.offered
  <2>1. CASE process' = process
    BY <1>2, <2>1 DEF ProcessTyped
  <2>2. CASE \E m \in Models : Registered(m)
    BY <1>2, <2>2, RegisteredFacts
  <2>. QED  BY <2>1, <2>2
<1>4. /\ threads' = [u \in Threads |-> threads'[u]]
      /\ \A u \in Threads : u # t => threads'[u] = threads[u]
  BY DEF WorkspaceInv
<1>5. \A r \in Spaces :
        /\ db.spacesConfig[r] # Nil => db'.spacesConfig[r] # Nil
        /\ db'.spacesConfig[r] # Nil =>
            \/ process'.registry[db'.spacesConfig[r].model.id] # Nil
            \/ /\ db.spacesConfig[r] # Nil
               /\ db'.spacesConfig[r].model = db.spacesConfig[r].model
  BY <1>1
<1>. QED  BY <1>1, <1>2, <1>3, <1>4, <1>5 DEF Effect

\* A call that starts or migrates a space leaves nothing that embeds for one.
LEMMA AdvancePast ==
  ASSUME WorkspaceInv, NEW t \in Threads, NEW op \in {"init", "migrate"},
         Runs(t, op), Effect(t), Advance(t)
  PROVE  ThreadOK(t)'
<1>1. /\ threads[t] # Nil /\ threads[t].todo # <<>> /\ Current(t).op = op
      /\ \A s : ~Ensures(Current(t), s)
  BY RunningCall
<1>. QED  BY <1>1, AdvanceOK

\* A call that starts or migrates a space keeps what it read or registered.
LEMMA HoldPast ==
  ASSUME WorkspaceInv, NEW t \in Threads, NEW op \in {"init", "migrate"},
         Runs(t, op), Effect(t), NEW h, Hold(t, h),
         {"found", "models", "vectors"} \cap DOMAIN h = {}, TargetOK(t)'
  PROVE  ThreadOK(t)'
<1>1. /\ threads[t] # Nil /\ threads[t].todo # <<>>
      /\ threads[t].todo \in Seq(Calls) /\ Head(threads[t].todo).op = op
  BY RunningCall
<1>2. ~Holds(t, "found")' /\ ~Holds(t, "models")' /\ ~Holds(t, "vectors")'
  BY HeldAfter
<1>3. FoundOK(t)' /\ ModelsOK(t)' /\ VectorsOK(t)'
  BY <1>2 DEF FoundOK, ModelsOK, VectorsOK
<1>4. ~IsServer => Focused(threads[t].todo, ExactSpaces')
  BY <1>1, FocusedMigration DEF WorkspaceInv, ThreadOK
<1>. QED  BY <1>1, <1>3, <1>4, HoldOK

\* The registration before a space is started or migrated.
LEMMA RegisterPast ==
  ASSUME WorkspaceInv, NEW t \in Threads, NEW op \in {"init", "migrate"},
         Runs(t, op), NEW m \in Models, Registered(m), UNCHANGED db,
         Hold(t, [registered |-> m]) \/ Fail(t)
  PROVE  Outcome(t)
<1>1. threads[t] # Nil
  BY RunningCall
<1>2. SameConfigs(db, db')
  BY DEF SameConfigs, WorkspaceInv, ConfigsTyped
<1>3. PICK x : threads' = [threads EXCEPT ![t] = x]
  BY DEF Hold, Fail
<1>4. Effect(t) /\ Lawful
  BY <1>1, <1>2, <1>3, RegisterStep
<1>5. CASE Fail(t)
  BY <1>1, <1>4, <1>5, FailOK DEF Outcome
<1>6. CASE Hold(t, [registered |-> m])
  <2>1. PICK h : h = [registered |-> m]
    OBVIOUS
  <2>2. Hold(t, h) /\ DOMAIN h = {"registered"} /\ h.registered = m
    BY <1>6, <2>1
  <2>3. /\ threads'[t].held = h
        /\ ~Holds(t, "chosen")' /\ ~Holds(t, "embedder")'
    BY <2>2, HeldAfter
  <2>4. process'.registry[m.id] # Nil
    <3>1. process # Nil
      BY <1>1, RunningProcess
    <3>2. process'.registry[m.id] = m
      BY <3>1, RegisteredFacts
    <3>. QED  BY <3>2, ModelFacts
  <2>5. TargetOK(t)'
    BY <2>2, <2>3, <2>4 DEF TargetOK
  <2>6. ThreadOK(t)'
    BY <1>4, <2>2, <2>5, HoldPast
  <2>. QED  BY <1>4, <2>6 DEF Outcome
<1>. QED  BY <1>5, <1>6

\* What a call that starts or migrates a space has registered.
LEMMA RegisteredHeld ==
  ASSUME WorkspaceInv, NEW t \in Threads, NEW op, Runs(t, op),
         Holds(t, "registered")
  PROVE  /\ threads[t].held.registered \in Models
         /\ process.registry[threads[t].held.registered.id] # Nil
<1>1. threads[t] # Nil
  BY RunningCall
<1>. QED  BY <1>1 DEF WorkspaceInv, ThreadOK, TargetOK

\* InitSpace registers the model it writes, in this order.
LEMMA InitRegisterStep ==
  ASSUME WorkspaceInv, NEW t \in Threads, InitRegister(t)
  PROVE  Outcome(t)
<1>1. Runs(t, "init")
  BY DEF InitRegister
<1>2. PICK space \in Spaces : space = SpaceOf(t)
  BY <1>1, RunningCall
<1>3. threads[t] # Nil
  BY <1>1, RunningCall
<1>4. PICK m \in Models : m = EmbedderForBootstrap(Settings(space))
  BY <1>3, RunningProcess, ModelsAssumption
     DEF EmbedderForBootstrap, IsSettings, DeclaresEmbedder
<1>5. /\ Registered(m) /\ UNCHANGED db
      /\ Hold(t, [registered |-> m]) \/ Fail(t)
  BY <1>2, <1>4 DEF InitRegister
<1>. QED  BY <1>1, <1>5, RegisterPast

\* It writes the policy the file and the defaults make.
LEMMA InitStep ==
  ASSUME WorkspaceInv, NEW t \in Threads, InitCall(t)
  PROVE  Outcome(t)
<1>1. Runs(t, "init") /\ Holds(t, "registered") /\ process' = process
  BY DEF InitCall, StartSpace
<1>2. threads[t] # Nil /\ SpaceOf(t) \in Spaces
  BY <1>1, RunningCall
<1>3. PICK space \in Spaces : space = SpaceOf(t)
  BY <1>2
<1>4. PICK m \in Models : /\ m = threads[t].held.registered
                          /\ process.registry[m.id] # Nil
  BY <1>1, RegisteredHeld
<1>5. PICK p : p = SpaceInit(Settings(space), DefaultSpaceWritePolicy)
  OBVIOUS
<1>6. \/ db' = EnsureSpaceInTx(db, space, m, p) /\ Advance(t)
      \/ Fail(t) /\ UNCHANGED db
  BY <1>3, <1>4, <1>5 DEF InitCall, StartSpace
<1>7. "spacesConfig" \in DOMAIN db
  BY DEF WorkspaceInv, ConfigsTyped
<1>8. PICK x : threads' = [threads EXCEPT ![t] = x]
  BY <1>6 DEF Advance, Fail
<1>9. CASE SameConfigs(db, db')
  <2>1. Effect(t) /\ Lawful
    BY <1>1, <1>2, <1>8, <1>9, QuietStep
  <2>2. ThreadOK(t)'
    BY <1>1, <1>2, <1>6, <2>1, FailOK, AdvancePast
  <2>. QED  BY <2>1, <2>2 DEF Outcome
<1>10. CASE ~SameConfigs(db, db')
  <2>1. /\ db' = EnsureSpaceInTx(db, space, m, p) /\ Advance(t)
        /\ db.spacesConfig[space] = Nil
    BY <1>6, <1>7, <1>10 DEF SameConfigs, EnsureSpaceInTx
  <2>2. PICK q : q = NormalizeSpaceWritePolicy(p)
    OBVIOUS
  <2>3. PICK c : c = [model |-> m, migrating |-> FALSE, target |-> Nil,
                      writePolicy |-> q]
    OBVIOUS
  <2>4. /\ "spacesConfig" \in DOMAIN db'
        /\ db'.spacesConfig = [db.spacesConfig EXCEPT ![space] = c]
    BY <1>7, <2>1, <2>2, <2>3 DEF EnsureSpaceInTx
  <2>5. IsPolicy(p)
    BY <1>2, <1>5, RunningProcess, SpaceInitFields, DefaultIsPolicy DEF SpaceInit
  <2>6. IsPolicy(q)
    BY <2>2, <2>5, NormalizedFields
  <2>7. c \in ConfiguredSpace /\ c.model = m /\ c.writePolicy = q
    <3>1. q \in [DOMAIN ZeroPolicy -> PolicyValues]
      BY <2>6, FieldsOfZero DEF IsPolicy
    <3>. QED  BY <2>3, <3>1 DEF ConfiguredSpace
  <2>8. process'.registry[m.id] # Nil
    BY <1>1, <1>4
  <2>9. Effect(t)
    BY <1>1, <1>2, <1>8, <2>4, <2>6, <2>7, <2>8, WriteEffect
  <2>10. ThreadOK(t)'
    BY <1>1, <2>1, <2>9, AdvancePast
  <2>11. /\ db'.spacesConfig[space] = c /\ c # Nil
         /\ \A r \in Spaces : r # space => db'.spacesConfig[r] = db.spacesConfig[r]
    BY <2>4, <2>6, <2>7, ConfigWrite DEF WorkspaceInv
  <2>12. process.config[space] # Nil =>
           MadeBy(process.config[space], DefaultSpaceWritePolicy, q)
    BY <1>5, <2>2 DEF MadeBy, Settings
  <2>13. Lawful
    BY <2>1, <2>7, <2>11, <2>12, DefaultIsPolicy DEF Lawful, WritesPolicy, Policy
  <2>. QED  BY <2>9, <2>10, <2>13 DEF Outcome
<1>. QED  BY <1>9, <1>10

\* The reconciliation writes a policy, and leaves the model alone.
LEMMA ApplyStep ==
  ASSUME WorkspaceInv, NEW t \in Threads, ApplyCall(t)
  PROVE  Outcome(t)
<1>1. Runs(t, "apply") /\ process' = process
  BY DEF ApplyCall
<1>2. /\ threads[t] # Nil /\ threads[t].todo # <<>> /\ Current(t).op = "apply"
      /\ SpaceOf(t) \in Spaces
      /\ \A s : ~Ensures(Current(t), s)
  BY <1>1, RunningCall
<1>3. PICK space \in Spaces : space = SpaceOf(t)
  BY <1>2
<1>4. "spacesConfig" \in DOMAIN db
  BY DEF WorkspaceInv, ConfigsTyped
<1>5. CASE Fail(t) /\ UNCHANGED db
  <2>1. SameConfigs(db, db')
    BY <1>4, <1>5 DEF SameConfigs
  <2>. QED  BY <1>1, <1>5, <2>1, QuietFail
<1>6. CASE ~(Fail(t) /\ UNCHANGED db)
  <2>1. PICK old, settings :
          /\ old = db.spacesConfig[space] /\ settings = Settings(space)
          /\ old # Nil /\ Reconcile(settings, old).applyable
          /\ db' = [db EXCEPT !.spacesConfig[space] = Reconcile(settings, old).desired]
          /\ Advance(t)
    BY <1>3, <1>6 DEF ApplyCall, UpdateSpaceConfigInTx
  <2>2. /\ old \in ConfiguredSpace /\ IsPolicy(old.writePolicy)
        /\ settings # Nil => IsSettings(settings)
    BY <1>2, <2>1, ConfigFacts, RunningProcess DEF WorkspaceInv
  <2>3. PICK p, q : p = old.writePolicy /\ q = SpaceInit(settings, p)
    OBVIOUS
  <2>4. IsPolicy(p) /\ IsPolicy(q)
    BY <2>2, <2>3, SpaceInitFields DEF SpaceInit
  <2>5. PICK m : m = IF DeclaresEmbedder(settings)
                     THEN DeclaredEmbedder(settings) ELSE old.model
    OBVIOUS
  <2>6. PICK c : c = [[old EXCEPT !.writePolicy = q] EXCEPT !.model = m]
    OBVIOUS
  <2>7. Reconcile(settings, old).desired = c
    BY <2>3, <2>5, <2>6 DEF Reconcile
  <2>8. old = [model |-> old.model, migrating |-> old.migrating,
               target |-> old.target, writePolicy |-> old.writePolicy]
        /\ old.model \in Models /\ old.migrating \in BOOLEAN
        /\ old.target \in Models \cup {Nil}
    BY <2>2 DEF ConfiguredSpace
  <2>9. c = [model |-> m, migrating |-> old.migrating, target |-> old.target,
             writePolicy |-> q]
    BY <2>6, <2>8
  <2>10. m = old.model
    <3>1. CASE settings = Nil
      BY <2>5, <3>1 DEF DeclaresEmbedder
    <3>2. CASE settings # Nil
      <4>1. Reconcile(settings, old).desired.model = old.model
        BY <2>1, <3>2 DEF Reconcile
      <4>. QED  BY <2>7, <2>9, <4>1
    <3>. QED  BY <3>1, <3>2
  <2>11. c \in ConfiguredSpace
    <3>1. q \in [DOMAIN ZeroPolicy -> PolicyValues]
      BY <2>4, FieldsOfZero DEF IsPolicy
    <3>. QED  BY <2>8, <2>9, <2>10, <3>1 DEF ConfiguredSpace
  <2>12. /\ c.model = old.model /\ c.migrating = old.migrating
         /\ c.writePolicy = q
    BY <2>9, <2>10
  <2>13. /\ "spacesConfig" \in DOMAIN db'
         /\ db'.spacesConfig = [db.spacesConfig EXCEPT ![space] = c]
    BY <1>4, <2>1, <2>7
  <2>14. PICK x : threads' = [threads EXCEPT ![t] = x]
    BY <2>1 DEF Advance
  <2>15. Effect(t)
    BY <1>1, <1>2, <2>1, <2>4, <2>11, <2>12, <2>13, <2>14, WriteEffect
  <2>16. /\ db'.spacesConfig[space] = c /\ c # Nil
         /\ \A r \in Spaces : r # space => db'.spacesConfig[r] = db.spacesConfig[r]
    BY <2>4, <2>11, <2>12, <2>13, ConfigWrite DEF WorkspaceInv
  <2>17. ExactSpaces' = ExactSpaces
    <3>1. ASSUME NEW r \in Spaces, NEW k  PROVE Exact(r, k)' <=> Exact(r, k)
      BY <1>1 DEF Exact, Drifted, Settings
    <3>2. ASSUME NEW r \in Spaces
          PROVE  /\ db'.spacesConfig[r] # Nil <=> db.spacesConfig[r] # Nil
                 /\ db'.spacesConfig[r] # Nil =>
                      db'.spacesConfig[r].model = db.spacesConfig[r].model
      BY <2>1, <2>12, <2>16
    <3>3. ASSUME NEW r \in Spaces  PROVE r \in ExactSpaces' <=> r \in ExactSpaces
      <4>1. CASE db.spacesConfig[r] = Nil
        BY <3>2, <4>1 DEF ExactSpaces
      <4>2. CASE db.spacesConfig[r] # Nil
        <5>1. PICK k : k = db.spacesConfig[r].model
          OBVIOUS
        <5>2. db'.spacesConfig[r] # Nil /\ db'.spacesConfig[r].model = k
          BY <3>2, <4>2, <5>1
        <5>3. Exact(r, k)' <=> Exact(r, k)
          BY <3>1
        <5>. QED  BY <4>2, <5>1, <5>2, <5>3 DEF ExactSpaces
      <4>. QED  BY <4>1, <4>2
    <3>. QED  BY <3>3 DEF ExactSpaces
  <2>18. ThreadOK(t)'
    BY <1>2, <2>1, <2>15, <2>17, AdvanceOK
  <2>19. settings # Nil => MadeBy(settings, p, q)
    BY <2>3 DEF MadeBy
  <2>20. Lawful
    BY <2>1, <2>4, <2>12, <2>16, <2>19 DEF Lawful, WritesPolicy, Policy, Settings
  <2>. QED  BY <2>15, <2>18, <2>20 DEF Outcome
<1>. QED  BY <1>5, <1>6

\* The target of a migration, chosen before it is registered.
LEMMA MigrateReadStep ==
  ASSUME WorkspaceInv, NEW t \in Threads, MigrateRead(t)
  PROVE  Outcome(t)
<1>1. Runs(t, "migrate") /\ process' = process /\ db' = db
  BY DEF MigrateRead
<1>2. /\ threads[t] # Nil /\ SpaceOf(t) \in Spaces
      /\ Current(t).model \in Models \cup {Nil}
  BY <1>1, RunningCall
<1>3. PICK space \in Spaces : space = SpaceOf(t)
  BY <1>2
<1>4. PICK m \in Models :
        m = EmbedderForMigration(Current(t).model, Settings(space), db.spacesConfig[space])
  <2>1. db.spacesConfig[space] # Nil => db.spacesConfig[space].model \in Models
    BY ConfigFacts DEF WorkspaceInv
  <2>. QED  BY <1>2, <2>1, RunningProcess, ModelsAssumption
            DEF EmbedderForMigration, IsSettings, DeclaresEmbedder
<1>5. PICK h : h = [chosen |-> m]
  OBVIOUS
<1>6. Hold(t, h) /\ DOMAIN h = {"chosen"} /\ h.chosen = m
  BY <1>3, <1>4, <1>5 DEF MigrateRead
<1>7. /\ threads'[t].held = h
      /\ ~Holds(t, "found")' /\ ~Holds(t, "models")' /\ ~Holds(t, "vectors")'
      /\ ~Holds(t, "registered")' /\ ~Holds(t, "embedder")'
  BY <1>1, <1>6, HeldAfter
<1>8. FoundOK(t)' /\ ModelsOK(t)' /\ VectorsOK(t)' /\ TargetOK(t)'
  BY <1>6, <1>7 DEF FoundOK, ModelsOK, VectorsOK, TargetOK
<1>. QED  BY <1>1, <1>6, <1>8, QuietHold

\* It is registered before the migration begins.
LEMMA MigrateRegisterStep ==
  ASSUME WorkspaceInv, NEW t \in Threads, MigrateRegister(t)
  PROVE  Outcome(t)
<1>1. Runs(t, "migrate") /\ Holds(t, "chosen")
  BY DEF MigrateRegister
<1>2. threads[t] # Nil
  BY <1>1, RunningCall
<1>3. PICK m \in Models : m = threads[t].held.chosen
  BY <1>1, <1>2 DEF WorkspaceInv, ThreadOK, TargetOK
<1>4. Registered(m) /\ UNCHANGED db /\ Hold(t, [registered |-> m])
  BY <1>3 DEF MigrateRegister
<1>. QED  BY <1>1, <1>4, RegisterPast

\* A migration begins, or joins one under way.
LEMMA MigrateBeginStep ==
  ASSUME WorkspaceInv, NEW t \in Threads, MigrateBegin(t)
  PROVE  Outcome(t)
<1>1. Runs(t, "migrate") /\ Holds(t, "registered") /\ process' = process
  BY DEF MigrateBegin
<1>2. threads[t] # Nil /\ SpaceOf(t) \in Spaces
  BY <1>1, RunningCall
<1>3. PICK space \in Spaces : space = SpaceOf(t)
  BY <1>2
<1>4. PICK m \in Models : /\ m = threads[t].held.registered
                          /\ process.registry[m.id] # Nil
  BY <1>1, RegisteredHeld
<1>5. \/ /\ BeginMigrationAllowed(db, space, m)
         /\ db' = BeginMigrationInTx(db, space, m)
         /\ Hold(t, [embedder |-> m])
      \/ Fail(t) /\ UNCHANGED db
  BY <1>3, <1>4 DEF MigrateBegin
<1>6. "spacesConfig" \in DOMAIN db
  BY DEF WorkspaceInv, ConfigsTyped
<1>7. CASE Fail(t) /\ UNCHANGED db
  <2>1. SameConfigs(db, db')
    BY <1>6, <1>7 DEF SameConfigs
  <2>. QED  BY <1>1, <1>7, <2>1, QuietFail
<1>8. CASE /\ BeginMigrationAllowed(db, space, m)
           /\ db' = BeginMigrationInTx(db, space, m)
           /\ Hold(t, [embedder |-> m])
  <2>1. PICK x : threads' = [threads EXCEPT ![t] = x]
    BY <1>8 DEF Hold
  <2>2. process'.registry[m.id] # Nil
    BY <1>1, <1>4
  <2>3. Effect(t) /\ Lawful /\ db'.spacesConfig[space] # Nil
    <3>1. CASE db' = db
      <4>1. SameConfigs(db, db')
        BY <1>6, <3>1 DEF SameConfigs
      <4>. QED  BY <1>1, <1>2, <1>8, <2>1, <3>1, <4>1, QuietStep
                DEF BeginMigrationAllowed
    <3>2. CASE db' # db
      <4>1. PICK old : old = db.spacesConfig[space] /\ old # Nil
        BY <1>8 DEF BeginMigrationAllowed
      <4>2. ~old.migrating
        BY <1>8, <3>2, <4>1 DEF BeginMigrationInTx
      <4>3. /\ old \in ConfiguredSpace /\ old.model \in Models
            /\ IsPolicy(old.writePolicy)
        BY <4>1, ConfigFacts DEF WorkspaceInv
      <4>4. PICK c : c = [old EXCEPT !.migrating = TRUE, !.target = m]
        OBVIOUS
      <4>5. /\ c \in ConfiguredSpace /\ c.model = old.model
            /\ c.writePolicy = old.writePolicy /\ c.migrating
        <5>1. old = [model |-> old.model, migrating |-> old.migrating,
                     target |-> old.target, writePolicy |-> old.writePolicy]
              /\ old.writePolicy \in [DOMAIN ZeroPolicy -> PolicyValues]
          BY <4>3 DEF ConfiguredSpace
        <5>2. c = [model |-> old.model, migrating |-> TRUE,
                   target |-> m, writePolicy |-> old.writePolicy]
          BY <4>4, <5>1
        <5>. QED  BY <4>3, <5>1, <5>2 DEF ConfiguredSpace
      <4>6. /\ "spacesConfig" \in DOMAIN db'
            /\ db'.spacesConfig = [db.spacesConfig EXCEPT ![space] = c]
        <5>1. [db.spacesConfig[space] EXCEPT !.migrating = TRUE, !.target = m] = c
          BY <4>1, <4>4
        <5>2. db' = [db EXCEPT
                 !.spacesConfig[space] = [@ EXCEPT !.migrating = TRUE, !.target = m],
                 !.auditLog = @ \cup
                    {MigrationAudited("migration_start", space, m)}]
          BY <1>8, <3>2 DEF BeginMigrationInTx
        <5>. QED  BY <1>6, <5>1, <5>2
      <4>7. Effect(t)
        BY <1>1, <1>2, <2>1, <4>1, <4>3, <4>5, <4>6, WriteEffect
      <4>8. /\ db'.spacesConfig[space] = c /\ c # Nil
            /\ \A r \in Spaces : r # space => db'.spacesConfig[r] = db.spacesConfig[r]
        BY <4>3, <4>5, <4>6, ConfigWrite DEF WorkspaceInv
      <4>9. Lawful
        BY <4>1, <4>2, <4>5, <4>8 DEF Lawful, WritesPolicy, Policy
      <4>. QED  BY <4>7, <4>8, <4>9
    <3>. QED  BY <3>1, <3>2
  <2>4. PICK h : h = [embedder |-> m]
    OBVIOUS
  <2>5. Hold(t, h) /\ DOMAIN h = {"embedder"} /\ h.embedder = m
    BY <1>8, <2>4
  <2>6. /\ threads'[t].held = h /\ SpaceOf(t)' = SpaceOf(t)
        /\ ~Holds(t, "chosen")' /\ ~Holds(t, "registered")'
    BY <1>1, <2>5, HeldAfter
  <2>7. TargetOK(t)'
    BY <1>3, <2>2, <2>3, <2>5, <2>6 DEF TargetOK
  <2>8. ThreadOK(t)'
    BY <1>1, <2>3, <2>5, <2>7, HoldPast
  <2>. QED  BY <2>3, <2>8 DEF Outcome
<1>. QED  BY <1>5, <1>7, <1>8

\* A migration that ends makes its target the model of the space.
LEMMA MigrateCompleteStep ==
  ASSUME WorkspaceInv, NEW t \in Threads, MigrateComplete(t)
  PROVE  Outcome(t)
<1>1. Runs(t, "migrate") /\ process' = process /\ Holds(t, "embedder")
  BY DEF MigrateComplete
<1>2. threads[t] # Nil
  BY <1>1, RunningCall
<1>3. PICK space, m :
        /\ space \in Spaces /\ space = SpaceOf(t)
        /\ m \in Models /\ m = threads[t].held.embedder
        /\ process.registry[m.id] # Nil
        /\ db.spacesConfig[space] # Nil
  BY <1>1, <1>2 DEF WorkspaceInv, ThreadOK, TargetOK
<1>4. "spacesConfig" \in DOMAIN db
  BY DEF WorkspaceInv, ConfigsTyped
<1>5. CASE UNCHANGED db /\ (Advance(t) \/ Fail(t))
  <2>1. SameConfigs(db, db')
    BY <1>4, <1>5 DEF SameConfigs
  <2>. QED  BY <1>1, <1>5, <2>1, QuietAdvance, QuietFail
<1>6. CASE ~(UNCHANGED db /\ (Advance(t) \/ Fail(t)))
  <2>1. PICK old :
          /\ old = db.spacesConfig[space] /\ old.migrating /\ old.target = m
          /\ db' = MigrateInTx(db, space, m) /\ Advance(t)
    BY <1>3, <1>6 DEF MigrateComplete
  <2>2. old \in ConfiguredSpace /\ IsPolicy(old.writePolicy)
    BY <1>3, <2>1, ConfigFacts DEF WorkspaceInv
  <2>3. PICK c : c = [old EXCEPT !.model = m, !.migrating = FALSE, !.target = Nil]
    OBVIOUS
  <2>4. /\ c \in ConfiguredSpace /\ c.model = m /\ c.migrating = FALSE
        /\ c.writePolicy = old.writePolicy
    <3>1. old = [model |-> old.model, migrating |-> old.migrating,
                 target |-> old.target, writePolicy |-> old.writePolicy]
          /\ old.writePolicy \in [DOMAIN ZeroPolicy -> PolicyValues]
      BY <2>2 DEF ConfiguredSpace
    <3>2. c = [model |-> m, migrating |-> FALSE,
               target |-> Nil, writePolicy |-> old.writePolicy]
      BY <2>3, <3>1
    <3>. QED  BY <1>3, <3>1, <3>2 DEF ConfiguredSpace
  <2>5. /\ "spacesConfig" \in DOMAIN db'
        /\ db'.spacesConfig = [db.spacesConfig EXCEPT ![space] = c]
    <3>1. [db.spacesConfig[space] EXCEPT !.model = m, !.migrating = FALSE,
                                         !.target = Nil] = c
      BY <2>1, <2>3
    <3>. QED  BY <1>4, <2>1, <3>1 DEF MigrateInTx
  <2>6. PICK x : threads' = [threads EXCEPT ![t] = x]
    BY <2>1 DEF Advance
  <2>7. Effect(t)
    <3>1. process'.registry[c.model.id] # Nil /\ IsPolicy(c.writePolicy)
      BY <1>1, <1>3, <2>2, <2>4
    <3>. QED  BY <1>1, <1>2, <1>3, <2>4, <2>5, <2>6, <3>1, WriteEffect
  <2>8. ThreadOK(t)'
    BY <1>1, <2>1, <2>7, AdvancePast
  <2>9. /\ db'.spacesConfig[space] = c /\ c # Nil
        /\ \A r \in Spaces : r # space => db'.spacesConfig[r] = db.spacesConfig[r]
    BY <1>3, <2>2, <2>4, <2>5, ConfigWrite DEF WorkspaceInv
  <2>10. Lawful
    <3>1. ~c.migrating
      BY <2>4
    <3>2. /\ db.spacesConfig[space] = old /\ old # Nil /\ old.migrating
          /\ c.model = old.target /\ c.writePolicy = old.writePolicy
      BY <1>3, <2>1, <2>4
    <3>. QED  BY <2>9, <3>1, <3>2 DEF Lawful, WritesPolicy, Policy
  <2>. QED  BY <2>7, <2>8, <2>10 DEF Outcome
<1>. QED  BY <1>5, <1>6

-------------------------------------------------------------------------------
(* Every step. *)

\* What a goroutine does with its process keeps the invariant.
LEMMA OutcomeKeepsInv ==
  ASSUME WorkspaceInv, NEW t \in Threads, threads[t] # Nil \/ IsServer,
         Outcome(t)
  PROVE  WorkspaceInv' /\ Lawful
<1>1. Effect(t) /\ ThreadOK(t)' /\ Lawful
  BY DEF Outcome
<1>2. \A u \in Threads : ThreadOK(u)'
  BY <1>1, OthersOK
<1>3. OneProgram'
  <2>. SUFFICES ASSUME ~IsServer', NEW u \in Threads, threads'[u] # Nil
                PROVE  u = t
    BY DEF OneProgram
  <2>1. ~IsServer
    BY <1>1, EffectGrows DEF WorkspaceInv
  <2>2. CASE u # t
    <3>1. threads[u] # Nil
      BY <1>1, <2>2 DEF Effect
    <3>. QED  BY <2>1, <3>1 DEF WorkspaceInv, OneProgram
  <2>. QED  BY <2>2
<1>. QED  BY <1>1, <1>2, <1>3 DEF WorkspaceInv, Effect

\* A process that ends leaves nothing running.
LEMMA NoProcessKeepsInv ==
  ASSUME WorkspaceInv, SameConfigs(db, db'), process' = Nil,
         \A u \in Threads : threads'[u] = Nil,
         threads' = [u \in Threads |-> threads'[u]]
  PROVE  WorkspaceInv' /\ Lawful
<1>1. ConfigsTyped' /\ ProcessTyped'
  BY DEF WorkspaceInv, ConfigsTyped, ProcessTyped, SameConfigs
<1>2. /\ \A u \in Threads : ThreadOK(u)'
      /\ OneProgram'
  BY DEF ThreadOK, OneProgram
<1>. QED  BY <1>1, <1>2, SameIsLawful DEF WorkspaceInv

\* A goroutine that ended leaves; a command ends with it.
LEMMA FinishStep ==
  ASSUME WorkspaceInv, NEW t \in Threads, Finish(t)
  PROVE  WorkspaceInv' /\ Lawful
<1>1. /\ db' = db /\ SameConfigs(db, db') /\ threads[t] # Nil
      /\ threads' = [threads EXCEPT ![t] = Nil]
  BY DEF Finish, SameConfigs, WorkspaceInv, ConfigsTyped
<1>2. /\ threads' = [u \in Threads |-> threads'[u]] /\ threads'[t] = Nil
      /\ \A u \in Threads : u # t => threads'[u] = threads[u]
  BY <1>1 DEF WorkspaceInv
<1>3. CASE IsServer
  <2>1. process' = process
    BY <1>3 DEF Finish
  <2>2. Effect(t) /\ Lawful
    BY <1>1, <2>1, QuietStep
  <2>3. ThreadOK(t)'
    BY <1>2 DEF ThreadOK
  <2>. QED  BY <1>1, <2>2, <2>3, OutcomeKeepsInv DEF Outcome
<1>4. CASE ~IsServer
  <2>1. process' = Nil
    BY <1>4 DEF Finish
  <2>2. \A u \in Threads : threads'[u] = Nil
    BY <1>1, <1>2, <1>4 DEF WorkspaceInv, OneProgram
  <2>. QED  BY <1>1, <1>2, <2>1, <2>2, NoProcessKeepsInv
<1>. QED  BY <1>3, <1>4

\* A program that was just taken up.
LEMMA StartOK ==
  ASSUME NEW t \in Threads, process' # Nil, NEW program \in Startable,
         threads'[t] = [todo |-> program, held |-> Nil]
  PROVE  ThreadOK(t)'
<1>1. threads'[t].todo = program /\ threads'[t].held = Nil
  OBVIOUS
<1>2. /\ program \in Seq(Calls) /\ Prepared(program, KnownSpaces')
      /\ Focused(program, ExactSpaces')
  BY PreparedGrows, FocusedGrows DEF Startable
<1>3. FoundOK(t)' /\ ModelsOK(t)' /\ VectorsOK(t)' /\ TargetOK(t)'
  BY <1>1 DEF FoundOK, ModelsOK, VectorsOK, TargetOK, Holds
<1>. QED  BY <1>1, <1>2, <1>3 DEF ThreadOK

\* A process opens the file: it has an embedder for every id declared.
LEMMA OpenedProcess ==
  ASSUME WorkspaceInv, NEW api \in Apis, Open(api)
  PROVE  /\ ConfigsTyped' /\ ProcessTyped' /\ process' # Nil
         /\ process'.api = api /\ Lawful
         /\ \A t \in Threads : threads[t] = Nil
<1>1. PICK config, registry :
        /\ config \in ConfigFiles /\ registry \in RegistriesFor(config)
        /\ process' = [api |-> api, config |-> config, registry |-> registry,
                       offered |-> DeclaredEmbedders(config), left |-> MaxRequests]
  BY DEF Open
<1>2. DeclaredEmbedders(config) \subseteq Models
  <2>1. \A s \in Spaces :
          DeclaresEmbedder(config[s]) => DeclaredEmbedder(config[s]) \in Models
    <3>1. \A s \in Spaces : config[s] # Nil => IsSettings(config[s])
      BY <1>1, ConfigFilesAssumption
    <3>. QED  BY <3>1 DEF IsSettings, DeclaresEmbedder
  <2>. QED  BY <2>1 DEF DeclaredEmbedders
<1>3. /\ registry \in [ModelIDs -> DeclaredEmbedders(config) \cup {Nil}]
      /\ \A id \in ModelIDs : registry[id] # Nil => registry[id].id = id
  <2>. DEFINE declared == DeclaredEmbedders(config)
  <2>1. registry \in {r \in [ModelIDs -> declared \cup {Nil}] :
          \A id \in ModelIDs :
            IF r[id] = Nil THEN \A m \in declared : m.id # id ELSE r[id].id = id}
    BY <1>1, Zenon DEF RegistriesFor
  <2>. HIDE DEF declared
  <2>. QED  BY <2>1 DEF declared
<1>4. process' \in Process
  <2>1. registry \in [ModelIDs -> Models \cup {Nil}] /\ MaxRequests \in Nat
    BY <1>2, <1>3, BoundsAssumption
  <2>. QED  BY <1>1, <1>2, <2>1 DEF Process
<1>5. process' # Nil
  BY <1>4, NilProcessAssumption
<1>6. /\ process'.api = api /\ process'.registry = registry
      /\ process'.offered = DeclaredEmbedders(config)
  BY <1>1
<1>7. ProcessTyped'
  BY <1>3, <1>4, <1>6 DEF ProcessTyped
<1>8. ConfigsTyped' /\ SameConfigs(db, db')
  BY DEF Open, WorkspaceInv, ConfigsTyped, SameConfigs
<1>9. \A t \in Threads : threads[t] = Nil
  BY DEF Open, WorkspaceInv, ThreadOK
<1>. QED  BY <1>5, <1>6, <1>7, <1>8, <1>9, SameIsLawful

\* A command opens the file and starts one of its programs.
LEMMA RunCommandStep ==
  ASSUME WorkspaceInv, RunCommand
  PROVE  WorkspaceInv' /\ Lawful
<1>1. PICK api \in Apis \cap {"cli", "mcp"} :
        /\ Open(api)
        /\ \E t \in Threads, program \in Programs(api) :
             threads' = [NoThreads EXCEPT ![t] = [todo |-> program, held |-> Nil]]
  BY DEF RunCommand
<1>2. PICK t \in Threads, program \in Programs(api) :
        threads' = [NoThreads EXCEPT ![t] = [todo |-> program, held |-> Nil]]
  BY <1>1
<1>3. /\ ConfigsTyped' /\ ProcessTyped' /\ process' # Nil
      /\ process'.api = api /\ Lawful
  BY <1>1, OpenedProcess
<1>4. /\ threads' = [u \in Threads |-> threads'[u]]
      /\ threads'[t] = [todo |-> program, held |-> Nil]
      /\ \A u \in Threads : u # t => threads'[u] = Nil
  BY <1>2 DEF NoThreads
<1>5. program \in Startable
  BY <1>1, ProgramsStart
<1>6. \A u \in Threads : ThreadOK(u)'
  BY <1>3, <1>4, <1>5, StartOK DEF ThreadOK
<1>7. OneProgram'
  BY <1>4 DEF OneProgram
<1>. QED  BY <1>3, <1>4, <1>6, <1>7 DEF WorkspaceInv

\* A server opens the file and starts none.
LEMMA ServeStep ==
  ASSUME WorkspaceInv, Serve
  PROVE  WorkspaceInv' /\ Lawful
<1>1. PICK api \in Apis : Open(api)
  BY DEF Serve
<1>2. /\ ConfigsTyped' /\ ProcessTyped' /\ Lawful
      /\ \A t \in Threads : threads[t] = Nil
  BY <1>1, OpenedProcess
<1>3. threads' = threads
  BY DEF Serve
<1>4. (\A t \in Threads : ThreadOK(t)') /\ OneProgram'
  BY <1>2, <1>3 DEF ThreadOK, OneProgram
<1>. QED  BY <1>2, <1>3, <1>4 DEF WorkspaceInv

\* A server stops once its goroutines ended.
LEMMA CloseStep ==
  ASSUME WorkspaceInv, Close
  PROVE  WorkspaceInv' /\ Lawful
<1>1. SameConfigs(db, db') /\ process' = Nil
  BY DEF Close, SameConfigs, WorkspaceInv, ConfigsTyped
<1>2. /\ \A u \in Threads : threads'[u] = Nil
      /\ threads' = [u \in Threads |-> threads'[u]]
  BY DEF Close, NoThreads
<1>. QED  BY <1>1, <1>2, NoProcessKeepsInv

\* A server starts the program of a request, with the registry it has by then.
LEMMA AcceptStep ==
  ASSUME WorkspaceInv, NEW t \in Threads, Accept(t)
  PROVE  WorkspaceInv' /\ Lawful
<1>1. /\ IsServer /\ process.left > 0 /\ SameConfigs(db, db')
      /\ process' = [process EXCEPT !.left = @ - 1]
  BY DEF Accept, SameConfigs, WorkspaceInv, ConfigsTyped
<1>2. PICK program \in Programs(process.api) :
        threads' = [threads EXCEPT ![t] = [todo |-> program, held |-> Nil]]
  BY DEF Accept
<1>3. /\ process # Nil /\ process \in Process
      /\ \A id \in ModelIDs :
           process.registry[id] # Nil =>
             process.registry[id].id = id /\ process.registry[id] \in process.offered
  BY <1>1 DEF WorkspaceInv, ProcessTyped, IsServer
<1>4. /\ process = [api |-> process.api, config |-> process.config,
                    registry |-> process.registry, offered |-> process.offered,
                    left |-> process.left]
      /\ process.api \in Apis /\ process.config \in ConfigFiles
      /\ process.registry \in [ModelIDs -> Models \cup {Nil}]
      /\ process.offered \in SUBSET Models /\ process.left \in Nat
  BY <1>3 DEF Process
<1>5. PICK left \in Nat : left = process.left - 1
  BY <1>1, <1>4
<1>6. process' = [api |-> process.api, config |-> process.config,
                  registry |-> process.registry, offered |-> process.offered,
                  left |-> left]
  <2>1. process' = [process EXCEPT !.left = left]
    BY <1>1, <1>5
  <2>. QED  BY <1>4, <2>1
<1>7. process' \in Process
  BY <1>4, <1>6 DEF Process
<1>8. /\ process' # Nil /\ process'.api = process.api
      /\ process'.config = process.config
      /\ process'.registry = process.registry
      /\ process'.offered = process.offered
  BY <1>6, <1>7, NilProcessAssumption
<1>9. ProcessTyped' /\ ConfigsTyped'
  BY <1>1, <1>3, <1>7, <1>8
     DEF ProcessTyped, WorkspaceInv, ConfigsTyped, SameConfigs
<1>10. /\ threads' = [u \in Threads |-> threads'[u]]
       /\ threads'[t] = [todo |-> program, held |-> Nil]
       /\ \A u \in Threads : u # t => threads'[u] = threads[u]
  BY <1>2 DEF WorkspaceInv
<1>11. Effect(t)
  BY <1>1, <1>3, <1>8, <1>9, <1>10 DEF Effect, SameConfigs
<1>12. program \in Startable
  BY <1>1, ProgramsStart DEF IsServer
<1>13. ThreadOK(t)' /\ Lawful
  BY <1>1, <1>8, <1>10, <1>12, StartOK, SameIsLawful
<1>. QED  BY <1>1, <1>11, <1>13, OutcomeKeepsInv DEF Outcome

\* The invariant holds in the empty workspace and every step keeps it, within
\* what a step may do to the configurations.
LEMMA WorkspaceInit_Inv == WorkspaceInit => WorkspaceInv
<1>. SUFFICES ASSUME WorkspaceInit  PROVE WorkspaceInv
  OBVIOUS
<1>1. "spacesConfig" \in DOMAIN db /\ db.spacesConfig = [s \in Spaces |-> Nil]
  BY DEF WorkspaceInit, EmptyDB
<1>2. ConfigsTyped
  BY <1>1 DEF ConfigsTyped
<1>3. /\ threads = [t \in Threads |-> threads[t]]
      /\ \A t \in Threads : threads[t] = Nil
      /\ process = Nil
  BY DEF WorkspaceInit, NoThreads
<1>. QED  BY <1>2, <1>3 DEF WorkspaceInv, ProcessTyped, ThreadOK, OneProgram

\* Every step keeps the invariant, and is lawful.
LEMMA WorkspaceNext_Inv ==
  ASSUME WorkspaceInv, [WorkspaceNext]_workspaceVars
  PROVE  WorkspaceInv' /\ Lawful
<1>1. ASSUME NEW t \in Threads, ThreadStep(t)
      PROVE  WorkspaceInv' /\ Lawful
  <2>1. CASE Finish(t)
    BY <2>1, FinishStep
  <2>2. CASE ~Finish(t)
    <3>1. threads[t] # Nil
      BY <1>1, <2>2
         DEF ThreadStep, ReadCall, EnsureDeclared, EnsureRead, RegisterFound,
             ReadConfigs, Embed, CompareVectors, RememberCall, ForgetCall,
             ReviveCall, InitRegister, InitCall, StartSpace, ApplyCall,
             MigrateRead, MigrateRegister, MigrateBegin, MigrateComplete, Runs
    <3>2. Outcome(t)
      BY <1>1, <2>2, ReadStep, EnsureDeclaredStep, EnsureReadStep,
         RegisterFoundStep, ReadConfigsStep, EmbedStep, CompareStep,
         RememberStep, ForgetStep, ReviveStep, InitRegisterStep, InitStep,
         ApplyStep, MigrateReadStep, MigrateRegisterStep,
         MigrateBeginStep, MigrateCompleteStep
         DEF ThreadStep
    <3>. QED  BY <3>1, <3>2, OutcomeKeepsInv
  <2>. QED  BY <2>1, <2>2
<1>2. CASE UNCHANGED workspaceVars
  <2>1. db' = db /\ process' = process /\ threads' = threads
    BY <1>2 DEF workspaceVars
  <2>2. WorkspaceInv'
    <3>1. /\ KnownSpaces' = KnownSpaces /\ ExactSpaces' = ExactSpaces
          /\ IsServer' = IsServer
      BY <2>1 DEF KnownSpaces, ExactSpaces, Met, Exact, Drifted, Settings, IsServer
    <3>2. ASSUME NEW u \in Threads
          PROVE  /\ FoundOK(u)' = FoundOK(u) /\ ModelsOK(u)' = ModelsOK(u)
                 /\ VectorsOK(u)' = VectorsOK(u) /\ TargetOK(u)' = TargetOK(u)
      <4>1. FoundOK(u)' = FoundOK(u)
        BY <2>1, <3>1 DEF FoundOK, Met, Drifted, Settings, Holds, Current, SpaceOf
      <4>2. ModelsOK(u)' = ModelsOK(u)
        BY <2>1, <3>1 DEF ModelsOK, Met, Exact, Drifted, Settings, Holds, Current
      <4>3. VectorsOK(u)' = VectorsOK(u)
        BY <2>1, <3>1 DEF VectorsOK, Drifted, Settings, Holds, Current
      <4>4. TargetOK(u)' = TargetOK(u)
        BY <2>1 DEF TargetOK, Holds, Current, SpaceOf
      <4>. QED  BY <4>1, <4>2, <4>3, <4>4
    <3>3. \A u \in Threads : ThreadOK(u)'
      BY <2>1, <3>1, <3>2 DEF WorkspaceInv, ThreadOK
    <3>4. ConfigsTyped' /\ ProcessTyped' /\ OneProgram'
      BY <2>1, <3>1 DEF WorkspaceInv, ConfigsTyped, ProcessTyped, OneProgram
    <3>. QED  BY <2>1, <3>3, <3>4 DEF WorkspaceInv
  <2>3. SameConfigs(db, db')
    BY <2>1 DEF WorkspaceInv, ConfigsTyped, SameConfigs
  <2>. QED  BY <2>2, <2>3, SameIsLawful
<1>. QED  BY <1>1, <1>2, RunCommandStep, ServeStep, CloseStep, AcceptStep
          DEF WorkspaceNext

\* The invariant of a workspace: what each goroutine read and holds fits the
\* registry and the file at every moment between its steps, whatever the other
\* goroutines of its process do (runtime.go, handlers of the interfaces).
THEOREM WorkspaceSpec_Inv == WorkspaceSpec => []WorkspaceInv
<1>1. WorkspaceInit => WorkspaceInv
  BY WorkspaceInit_Inv
<1>2. WorkspaceInv /\ [WorkspaceNext]_workspaceVars => WorkspaceInv'
  BY WorkspaceNext_Inv
<1>. QED  BY <1>1, <1>2, PTL DEF WorkspaceSpec

-------------------------------------------------------------------------------
(* The properties. *)

\* A vector with the wrong dimension was made by an embedder that shares the id
\* of the space's model and that this process met; a command that works on one
\* space never makes one, unless the file declares another embedder for that
\* very space (RegisterEmbedder, ensureEmbedderForSpace).
THEOREM MisfitsAlwaysShareAnID == WorkspaceSpec => []MisfitsShareAnID
<1>1. WorkspaceInv => MisfitsShareAnID
  BY DEF WorkspaceInv, ThreadOK, VectorsOK, MisfitsShareAnID
<1>. QED  BY <1>1, WorkspaceSpec_Inv, PTL

\* A lookup finds an embedder, or the file declares another one for the space:
\* every program ensures the spaces it embeds for first, and the steps other
\* goroutines take meanwhile register before they write (ErrEmbedderUnavailable).
THEOREM AlwaysUnavailableOnlyByDrift == WorkspaceSpec => []UnavailableOnlyByDrift
<1>1. WorkspaceInv => UnavailableOnlyByDrift
  BY DEF WorkspaceInv, ThreadOK, ModelsOK, Met, UnavailableOnlyByDrift
<1>. QED  BY <1>1, WorkspaceSpec_Inv, PTL

\* Every step is lawful.
LEMMA StepsAreLawful ==
  ASSUME WorkspaceInv, [WorkspaceNext]_workspaceVars
  PROVE  Lawful
BY WorkspaceNext_Inv

\* Only a process writes, and its file holds tables.
LEMMA WritingProcess ==
  ASSUME WorkspaceInv, [WorkspaceNext]_workspaceVars, db' # db,
         NEW s \in Spaces, process.config[s] # Nil
  PROVE  IsSettings(process.config[s])
<1>1. PICK t \in Threads : ThreadStep(t)
  BY DEF WorkspaceNext, workspaceVars, RunCommand, Serve, Open, Close, Accept
<1>2. threads[t] # Nil
  BY <1>1
     DEF ThreadStep, ReadCall, EnsureDeclared, EnsureRead, RegisterFound,
         ReadConfigs, Embed, CompareVectors, RememberCall, ForgetCall,
         ReviveCall, InitRegister, InitCall, StartSpace, ApplyCall,
         MigrateRead, MigrateRegister, MigrateBegin, MigrateComplete, Runs,
         Finish
<1>. QED  BY <1>2, RunningProcess DEF Settings

\* A space that exists after a step has a configuration then.
LEMMA ConfigsAfter ==
  ASSUME WorkspaceInv', NEW s \in Spaces, db'.spacesConfig[s] # Nil
  PROVE  db'.spacesConfig[s] \in ConfiguredSpace
BY DEF WorkspaceInv, ConfigsTyped

\* The model of a space that exists changes to the target of a started
\* migration only, although apply-config writes the whole record
\* (UpdateSpaceConfig).
THEOREM ModelsChangeByMigration == WorkspaceSpec => ModelChangesByMigration
<1>1. WorkspaceInv /\ [WorkspaceNext]_workspaceVars =>
        [\A s \in Spaces :
           LET old == db.spacesConfig[s]
               new == db'.spacesConfig[s]
           IN  old # Nil =>
                 /\ new # Nil
                 /\ new.model # old.model =>
                      old.migrating /\ new.model = old.target /\ ~new.migrating
                 /\ old.migrating /\ ~new.migrating => new.model = old.target]_db
  BY StepsAreLawful DEF Lawful
<1>. QED  BY <1>1, WorkspaceSpec_Inv, PTL DEF WorkspaceSpec, ModelChangesByMigration

\* Whatever created or changed the policy of a space, the same file finds nothing
\* more to change in it, unless a zero is involved (SpaceInit).
THEOREM ReconciliationSettles == WorkspaceSpec => ReconcileSettles
<1>1. ASSUME WorkspaceInv, [WorkspaceNext]_workspaceVars, db' # db,
             NEW s \in Spaces, WritesPolicy(s), process.config[s] # Nil,
             \A field \in DOMAIN process.config[s].scalars :
               process.config[s].scalars[field] # 0,
             ~Mutes(Policy(s)'), ~Mutes(SpaceInit(process.config[s], Policy(s)'))
      PROVE  "writePolicy" \notin
               Reconcile(process.config[s], db'.spacesConfig[s]).changes
  <2>1. PICK c, settings : c = db'.spacesConfig[s] /\ settings = process.config[s]
    OBVIOUS
  <2>2. PICK q : q = c.writePolicy
    OBVIOUS
  <2>3. PICK p : IsPolicy(p) /\ MadeBy(settings, p, q)
    <3>1. Lawful
      BY <1>1, StepsAreLawful
    <3>. QED  BY <1>1, <2>1, <2>2, <3>1 DEF Lawful
  <2>4. IsSettings(settings) /\ settings # Nil
    BY <1>1, <2>1, WritingProcess
  <2>5. SpaceInit(settings, q) = q
    BY <1>1, <2>1, <2>2, <2>3, <2>4, SpaceInitAgain DEF Policy
  <2>6. c \in ConfiguredSpace
    BY <1>1, <2>1, WorkspaceNext_Inv, ConfigsAfter DEF WritesPolicy
  <2>. QED  BY <2>1, <2>2, <2>5, <2>6 DEF Reconcile, ConfiguredSpace
<1>2. WorkspaceInv /\ [WorkspaceNext]_workspaceVars =>
        [\A s \in Spaces :
           WritesPolicy(s) =>
             \/ process.config[s] = Nil
             \/ "writePolicy" \notin
                  Reconcile(process.config[s], db'.spacesConfig[s]).changes
             \/ \E field \in DOMAIN process.config[s].scalars :
                  process.config[s].scalars[field] = 0
             \/ Mutes(Policy(s)') \/ Mutes(SpaceInit(process.config[s], Policy(s)'))]_db
  BY <1>1
<1>. QED  BY <1>2, WorkspaceSpec_Inv, PTL DEF WorkspaceSpec, ReconcileSettles

\* A declared trust level is the one an actor of that kind is then judged by,
\* unless it is zero (ResolveActorTrust).
THEOREM DeclaredTrustAlwaysCounts == WorkspaceSpec => DeclaredTrustCounts
<1>1. ASSUME WorkspaceInv, [WorkspaceNext]_workspaceVars, db' # db,
             NEW s \in Spaces, NEW kind \in ActorKinds, NEW level,
             WritesPolicy(s), process.config[s] # Nil,
             level = [human |-> "humanTrust", system |-> "systemTrust",
                      agent |-> "defaultAgentTrust"][kind],
             level \in DOMAIN process.config[s].scalars,
             process.config[s].scalars[level] # 0
      PROVE  ResolveActorTrust(Policy(s)', [id |-> Nil, kind |-> kind])
               = process.config[s].scalars[level]
  <2>1. PICK settings, q : settings = process.config[s] /\ q = Policy(s)'
    OBVIOUS
  <2>2. PICK p : IsPolicy(p) /\ MadeBy(settings, p, q)
    <3>1. Lawful
      BY <1>1, StepsAreLawful
    <3>. QED  BY <1>1, <2>1, <3>1 DEF Lawful, Policy
  <2>3. IsSettings(settings) /\ settings # Nil
    BY <1>1, <2>1, WritingProcess
  <2>4. level \in Numbers
    BY <1>1, <2>1, <2>3 DEF IsSettings, Numbers
  <2>. QED  BY <1>1, <2>1, <2>2, <2>3, <2>4, DeclaredTrust
<1>2. WorkspaceInv /\ [WorkspaceNext]_workspaceVars =>
        [\A s \in Spaces, kind \in ActorKinds :
           WritesPolicy(s) /\ process.config[s] # Nil =>
             LET declared == process.config[s].scalars
                 level    == [human |-> "humanTrust", system |-> "systemTrust",
                              agent |-> "defaultAgentTrust"][kind]
             IN  level \in DOMAIN declared /\ declared[level] # 0 =>
                   ResolveActorTrust(Policy(s)', [id |-> Nil, kind |-> kind])
                     = declared[level]]_db
  BY <1>1
<1>. QED  BY <1>2, WorkspaceSpec_Inv, PTL DEF WorkspaceSpec, DeclaredTrustCounts

================================================================================
