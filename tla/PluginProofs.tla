---------------------------- MODULE PluginProofs ----------------------------
(***************************************************************************)
(* Proofs about the plugin host (PluginHost): what the registry holds when  *)
(* a load has ended, who is on the bus and whom a publish still calls, for  *)
(* any directory, any fates and any subscriptions; and what the contexts    *)
(* hold once the publishers have returned.                                  *)
(*                                                                          *)
(* HostInv is about the host thread: how far load_dir has come, what it has *)
(* registered until then, and who can have a subscription at every step.    *)
(* HookInv is about the publishers: what a call has told the hooks, and     *)
(* which contexts the hook that holds the list has yet to change.           *)
(* SilentInv relates the two: who is gone stays gone, so a publish that      *)
(* began after it can find nothing of his.                                   *)
(***************************************************************************)
EXTENDS PluginHost, SequenceTheorems, TLAPS

Owners == Files \cup {Hooks}
Calls == [event : Events \cup {None}, left : SUBSET Subscriptions, gone : SUBSET Owners]
HostPlaces == {"start", "load", "init", "loaded", "unhook", "unload", "drop", "end"}

AnyValue == (UNION {Values[k] : k \in Kinds}) \cup {None}

Types ==
  /\ TypeOK
  /\ plugins \in Seq(Files) /\ contexts \in Seq(Files)
  /\ host = [at |-> host.at, files |-> host.files, asks |-> host.asks]
  /\ host.files \in Seq(Files)
  /\ listLock \in [by : Publishers \cup {None}, left : Seq(Files)]
  /\ ctx \in [Files -> [Kinds -> AnyValue]]
  /\ announced \in [Publishers -> [Kinds -> AnyValue]]
  /\ call \in [Publishers -> Calls]

-----------------------------------------------------------------------------
\* The plugins stand in the order of the files.
Sorted == \A i, j \in DOMAIN plugins : i < j => Place(plugins[i]) < Place(plugins[j])

\* What is in the registry when the first n files have been through load_one.
Registered(n) ==
  /\ contexts = plugins /\ seen = Range(plugins)
  /\ \A f \in seen : fate[f] = "fine" /\ Place(f) <= n
  /\ \A g \in Files : fate[g] = "fine" /\ Place(g) <= n =>
       \E f \in seen : IdOf[f] = IdOf[g] /\ Place(f) <= Place(g)
  /\ \A f, g \in seen : IdOf[f] = IdOf[g] => f = g

RegistryInv ==
  /\ Sorted
  /\ At("start") => plugins = <<>> /\ contexts = <<>> /\ seen = {}
  /\ host.at \in {"load", "init"} =>
       \E n \in 0 .. Len(Dir) : host.files = SubSeq(Dir, n + 1, Len(Dir)) /\ Registered(n)
  /\ At("init") => host.files # <<>> /\ fate[Current] # "unusable" /\ ~ Taken(Current)
  /\ At("loaded") => Registered(Len(Dir))
  /\ At("end") => plugins = <<>>

LifeInv ==
  /\ \A f \in Files : life[f] = "loaded" /\ host.at \notin {"drop", "end"} => f \in Range(plugins)
  /\ \A f \in Files : life[f] = "shut down" => host.at \in {"unload", "drop", "end"}
  /\ ShutdownInReverse

\* Whose subscriptions the bus may hold: the plugins', those of the plugin in its
\* init, and the hooks' once every file is loaded and until they are dropped.
Loaded == host.at \notin {"start", "init"} /\ (At("load") => host.files = <<>>)
Known ==
  Range(plugins) \cup (IF At("init") THEN {Current} ELSE {})
    \cup (IF Loaded /\ host.at \notin {"unload", "end"} THEN {Hooks} ELSE {})

BusInv == \A s \in subs : s.owner \in Known

-----------------------------------------------------------------------------
Pending(t) == \E s \in call[t].left : s.owner = Hooks
Kind(t) == call[t].event.kind
Value(t) == call[t].event.value

\* Where a publisher is within a call, and what the hooks have been told of it.
CallInv ==
  \A t \in Publishers :
    /\ t \in {busLock, listLock.by} \/ call[t].left # {} => call[t].event \in Events
    /\ busLock = t => call[t].left = {}
    /\ Pending(t) \/ listLock.by = t => announced[t][Kind(t)] = Value(t)
    /\ listLock.by = t =>
         \A f \in Range(contexts) : f \in Range(listLock.left) \/ ctx[f][Kind(t)] = Value(t)

\* Before the hooks are subscribed nothing is told to them.
QuietInv ==
  ~ Loaded =>
    /\ listLock.by = None /\ \A t \in Publishers : ~ Pending(t)
    /\ \A f \in Files, k \in Kinds : ctx[f][k] = None
    /\ \A t \in Publishers, k \in Kinds : announced[t][k] = None

\* The contexts agree on a field while no hook is changing it: on what some
\* publisher has told last, unless there is more to come.
Agrees(k, v) ==
  /\ \A f \in Range(contexts) : ctx[f][k] = v
  /\ \/ \E t \in Publishers : Pending(t) /\ Kind(t) = k
     \/ v # None /\ \E t \in Publishers : announced[t][k] = v
     \/ v = None /\ \A t \in Publishers : announced[t][k] = None
AgreeInv ==
  \A k \in Kinds :
    \/ \E t \in Publishers : listLock.by = t /\ Kind(t) = k
    \/ \E v \in Values[k] \cup {None} : Agrees(k, v)

-----------------------------------------------------------------------------
\* The files load_dir has not been through are files still, and who was gone when
\* a publish began still is.
FilesInv ==
  /\ At("start") => \A f \in Files : life[f] = "file"
  /\ host.at \in {"load", "init"} =>
       \E n \in 0 .. Len(Dir) : /\ host.files = SubSeq(Dir, n + 1, Len(Dir))
                               /\ \A f \in Files : life[f] # "file" => Place(f) <= n
SilentInv ==
  /\ \A t \in Publishers : call[t].gone \subseteq Gone
  /\ GoneStaySilent

HostInv == Types /\ RegistryInv /\ LifeInv /\ BusInv
HookInv == CallInv /\ QuietInv /\ AgreeInv

-----------------------------------------------------------------------------
\* Sequences: what an element more or less does to their members and order.
LEMMA RangeOfAppend ==
  ASSUME NEW S, NEW s \in Seq(S), NEW e \in S
  PROVE  Append(s, e) \in Seq(S) /\ Range(Append(s, e)) = Range(s) \cup {e}
<1>1. /\ Append(s, e) \in Seq(S) /\ Len(Append(s, e)) = Len(s) + 1
      /\ \A i \in 1 .. Len(s) : Append(s, e)[i] = s[i]
      /\ Append(s, e)[Len(s) + 1] = e
  BY AppendProperties
<1>2. DOMAIN Append(s, e) = 1 .. Len(s) + 1 /\ DOMAIN s = 1 .. Len(s) /\ Len(s) \in Nat
  BY <1>1, LenProperties
<1>3. \A i \in 1 .. Len(s) + 1 : i \in 1 .. Len(s) \/ i = Len(s) + 1
  BY <1>2
<1>. QED
  BY <1>1, <1>2, <1>3 DEF Range

LEMMA RangeOfFront ==
  ASSUME NEW S, NEW s \in Seq(S), s # <<>>
  PROVE  /\ Front(s) \in Seq(S) /\ Last(s) \in S /\ Last(s) \in Range(s)
         /\ Range(s) = Range(Front(s)) \cup {Last(s)}
         /\ Len(s) \in Nat \ {0} /\ DOMAIN s = 1 .. Len(s) /\ Last(s) = s[Len(s)]
         /\ DOMAIN Front(s) = 1 .. Len(s) - 1 /\ \A i \in 1 .. Len(s) - 1 : Front(s)[i] = s[i]
<1>1. Len(s) \in Nat \ {0} /\ DOMAIN s = 1 .. Len(s)
  BY EmptySeq, LenProperties
<1>2. /\ Front(s) \in Seq(S) /\ Len(Front(s)) = Len(s) - 1
      /\ \A i \in 1 .. Len(s) - 1 : Front(s)[i] = s[i]
  BY <1>1, SubSeqProperties DEF Front
<1>3. DOMAIN Front(s) = 1 .. Len(s) - 1
  BY <1>2, LenProperties
<1>4. Last(s) = s[Len(s)] /\ s[Len(s)] \in S
  BY <1>1, ElementOfSeq DEF Last
<1>5. \A x : x \in Range(s) <=> \E i \in 1 .. Len(s) : s[i] = x
  BY <1>1 DEF Range
<1>6. \A x : x \in Range(Front(s)) <=> \E i \in 1 .. Len(s) - 1 : s[i] = x
  BY <1>2, <1>3 DEF Range
<1>7. ASSUME NEW x PROVE x \in Range(s) <=> x \in Range(Front(s)) \/ x = Last(s)
  <2>1. ASSUME NEW i \in 1 .. Len(s), s[i] = x, x # Last(s) PROVE x \in Range(Front(s))
    <3>1. i \in 1 .. Len(s) - 1
      BY <1>1, <1>4, <2>1
    <3>. QED
      BY <1>6, <2>1, <3>1
  <2>2. Len(s) \in 1 .. Len(s) /\ \A i \in 1 .. Len(s) - 1 : i \in 1 .. Len(s)
    BY <1>1
  <2>. QED
    BY <1>4, <1>5, <1>6, <2>1, <2>2
<1>. QED
  BY <1>1, <1>2, <1>3, <1>4, <1>5, <1>7

LEMMA RangeOfTail ==
  ASSUME NEW S, NEW s \in Seq(S), s # <<>>
  PROVE  /\ Tail(s) \in Seq(S) /\ Head(s) \in S /\ Head(s) = s[1]
         /\ Range(s) = Range(Tail(s)) \cup {Head(s)}
         /\ Len(s) \in Nat \ {0} /\ DOMAIN Tail(s) = 1 .. Len(s) - 1
         /\ \A i \in 1 .. Len(s) - 1 : Tail(s)[i] = s[i + 1]
<1>1. Len(s) \in Nat \ {0} /\ DOMAIN s = 1 .. Len(s) /\ Head(s) = s[1]
  BY EmptySeq, LenProperties
<1>2. /\ Tail(s) \in Seq(S) /\ Len(Tail(s)) = Len(s) - 1
      /\ \A i \in 1 .. Len(Tail(s)) : Tail(s)[i] = s[i + 1]
  BY HeadTailProperties
<1>3. DOMAIN Tail(s) = 1 .. Len(s) - 1
  BY <1>2, LenProperties
<1>4. s[1] \in S
  BY <1>1, ElementOfSeq
<1>5. \A x : x \in Range(s) <=> \E i \in 1 .. Len(s) : s[i] = x
  BY <1>1 DEF Range
<1>6. \A x : x \in Range(Tail(s)) <=> \E i \in 1 .. Len(s) - 1 : s[i + 1] = x
  BY <1>2, <1>3 DEF Range
<1>7. ASSUME NEW x PROVE x \in Range(s) <=> x \in Range(Tail(s)) \/ x = Head(s)
  <2>1. ASSUME NEW i \in 1 .. Len(s), s[i] = x, x # Head(s) PROVE x \in Range(Tail(s))
    <3>1. i - 1 \in 1 .. Len(s) - 1 /\ i - 1 + 1 = i
      BY <1>1, <2>1
    <3>. QED
      BY <1>6, <2>1, <3>1
  <2>2. ASSUME NEW i \in 1 .. Len(s) - 1 PROVE i + 1 \in 1 .. Len(s)
    BY <1>1
  <2>. QED
    BY <1>1, <1>5, <1>6, <2>1, <2>2
<1>. QED
  BY <1>1, <1>2, <1>3, <1>4, <1>7

LEMMA EmptyRange == DOMAIN <<>> = {} /\ Range(<<>>) = {} /\ \A S : <<>> \in Seq(S)
BY DEF Range

\* The files still to load are the rest of the directory.
LEMMA DirPlaces ==
  /\ Len(Dir) \in Nat /\ DOMAIN Dir = 1 .. Len(Dir)
  /\ \A i \in 1 .. Len(Dir) : Dir[i] \in Files /\ Place(Dir[i]) = i
  /\ \A f \in Files : Place(f) \in 1 .. Len(Dir) /\ Dir[Place(f)] = f
<1>1. Len(Dir) \in Nat /\ DOMAIN Dir = 1 .. Len(Dir)
  BY DirAssumption, LenProperties
<1>2. ASSUME NEW f \in Files PROVE Place(f) \in 1 .. Len(Dir) /\ Dir[Place(f)] = f
  BY <1>1 DEF Files, Range, Place
<1>3. ASSUME NEW i \in 1 .. Len(Dir) PROVE Dir[i] \in Files /\ Place(Dir[i]) = i
  <2>1. Dir[i] \in Files
    BY <1>1 DEF Files, Range
  <2>2. Dir[Place(Dir[i])] = Dir[i] /\ Place(Dir[i]) \in 1 .. Len(Dir)
    BY <1>2, <2>1
  <2>. QED
    BY <1>1, <2>1, <2>2, DirAssumption DEF IsInjective
<1>. QED
  BY <1>1, <1>2, <1>3

LEMMA RestOfDir ==
  ASSUME NEW n \in 0 .. Len(Dir)
  PROVE  LET rest == SubSeq(Dir, n + 1, Len(Dir)) IN
         /\ rest = <<>> <=> n = Len(Dir)
         /\ rest # <<>> => /\ n + 1 \in 0 .. Len(Dir) /\ Head(rest) \in Files /\ Place(Head(rest)) = n + 1
                           /\ Head(rest) = Dir[n + 1]
                           /\ Tail(rest) = SubSeq(Dir, (n + 1) + 1, Len(Dir))
<1>. DEFINE rest == SubSeq(Dir, n + 1, Len(Dir))
            L == Len(Dir)
<1>0. L \in Nat /\ n \in 0 .. L /\ Dir \in Seq(Files)
  BY DirPlaces, DirAssumption
<1>1. /\ rest \in Seq(Files) /\ Len(rest) = L - n
      /\ \A i \in 1 .. L - n : rest[i] = Dir[n + i]
  <2>1. n + 1 \in 1 .. L + 1 /\ L \in n .. L
    BY <1>0
  <2>. QED
    BY <1>0, <2>1, SubSeqProperties
<1>2. rest = <<>> <=> n = L
  <2>1. rest \in Seq(Files) => (rest = <<>> <=> Len(rest) = 0)
    BY EmptySeq
  <2>2. Len(rest) = 0 <=> n = L
    BY <1>0, <1>1
  <2>. QED
    BY <1>1, <2>1, <2>2
<1>3. ASSUME rest # <<>>
      PROVE  /\ n + 1 \in 0 .. L /\ Head(rest) \in Files /\ Place(Head(rest)) = n + 1
             /\ Head(rest) = Dir[n + 1] /\ Tail(rest) = SubSeq(Dir, (n + 1) + 1, L)
  <2>1. n + 1 \in 1 .. L /\ 1 \in 1 .. L - n
    BY <1>0, <1>2, <1>3
  <2>2. Head(rest) = rest[1]
    BY <1>1, <1>3, RangeOfTail
  <2>3. Head(rest) = Dir[n + 1]
    BY <1>1, <2>1, <2>2
  <2>4. /\ Tail(rest) \in Seq(Files) /\ Len(Tail(rest)) = L - n - 1
        /\ \A i \in 1 .. L - n - 1 : Tail(rest)[i] = rest[i + 1]
    BY <1>0, <1>1, <1>3, HeadTailProperties
  <2>5. /\ SubSeq(Dir, n + 2, L) \in Seq(Files) /\ Len(SubSeq(Dir, n + 2, L)) = L - n - 1
        /\ \A i \in 1 .. L - n - 1 : SubSeq(Dir, n + 2, L)[i] = Dir[n + 1 + i]
    <3>1. n + 2 \in 1 .. L + 1 /\ L \in n + 1 .. L
      BY <1>0, <2>1
    <3>. QED
      BY <1>0, <3>1, SubSeqProperties
  <2>6. \A i \in 1 .. L - n - 1 : Tail(rest)[i] = SubSeq(Dir, n + 2, L)[i]
    <3>1. TAKE i \in 1 .. L - n - 1
    <3>2. i + 1 \in 1 .. L - n /\ n + (i + 1) = n + 1 + i
      BY <1>0
    <3>. QED
      BY <1>1, <2>4, <2>5, <3>2
  <2>7. Tail(rest) = SubSeq(Dir, n + 2, L)
    BY <2>4, <2>5, <2>6, SeqEqual
  <2>8. (n + 1) + 1 = n + 2
    BY <1>0
  <2>. QED
    BY <2>1, <2>3, <2>7, <2>8, DirPlaces
<1>. QED
  BY <1>2, <1>3

LEMMA WholeDir == SubSeq(Dir, 0 + 1, Len(Dir)) = Dir
<1>1. Len(Dir) \in Nat /\ Dir \in Seq(Files) /\ \A i \in 1 .. Len(Dir) : Dir[i] \in Files
  BY DirPlaces, DirAssumption
<1>2. /\ SubSeq(Dir, 1, Len(Dir)) \in Seq(Files) /\ Len(SubSeq(Dir, 1, Len(Dir))) = Len(Dir)
      /\ \A i \in 1 .. Len(Dir) : SubSeq(Dir, 1, Len(Dir))[i] = Dir[i]
  BY <1>1, SubSeqProperties
<1>3. SubSeq(Dir, 1, Len(Dir)) = Dir
  BY <1>1, <1>2, SeqEqual
<1>. QED
  BY <1>3

-----------------------------------------------------------------------------
LEMMA EventValue ==
  ASSUME NEW e \in Events
  PROVE  /\ e.kind \in Kinds /\ e.value \in Values[e.kind] /\ e.value \in AnyValue
         /\ e # None /\ e.value # None
<1>1. PICK k \in Kinds : e \in [kind : {k}, value : Values[k]]
  BY DEF Events
<1>. QED
  BY <1>1, HostAssumption DEF AnyValue

LEMMA RangeIn ==
  ASSUME NEW S, NEW s \in Seq(S)
  PROVE  Range(s) \subseteq S
BY LenProperties DEF Range

LEMMA TypesNext ==
  ASSUME fate' \in [Files -> Fates], nextId' \in Nat, subs' \subseteq Subscriptions,
         busLock' \in Publishers \cup {None},
         plugins' \in Seq(Files), contexts' \in Seq(Files), seen' \subseteq Files,
         listLock' \in [by : Publishers \cup {None}, left : Seq(Files)],
         ctx' \in [Files -> [Kinds -> AnyValue]],
         \A f \in Files, k \in Kinds : ctx'[f][k] \in Values[k] \cup {None},
         host' = [at |-> host'.at, files |-> host'.files, asks |-> host'.asks],
         host'.at \in HostPlaces, host'.files \in Seq(Files),
         announced' \in [Publishers -> [Kinds -> AnyValue]],
         call' \in [Publishers -> Calls], published' \in 0 .. MaxPublish,
         life' \in [Files -> {"file", "refused", "loaded", "shut down"}]
  PROVE  Types'
<1>1. /\ Range(plugins') \subseteq Files /\ Range(contexts') \subseteq Files
      /\ Range(host'.files) \subseteq Files /\ Range(listLock'.left) \subseteq Files
      /\ listLock'.by \in Publishers \cup {None}
  BY RangeIn
<1>2. \A t \in Publishers : call'[t].event \in Events \cup {None} /\ call'[t].left \subseteq Subscriptions
                            /\ call'[t].gone \subseteq Files \cup {Hooks}
  BY DEF Calls, Owners
<1>. QED
  BY <1>1, <1>2 DEF Types, TypeOK, HostPlaces

\* A step of the host leaves to the publishers what is theirs.
HostOnly ==
  /\ UNCHANGED <<fate, busLock, listLock, ctx, call, published, announced>>

LEMMA HostTypes ==
  ASSUME Types, HostOnly,
         nextId' \in Nat, subs' \subseteq Subscriptions,
         plugins' \in Seq(Files), contexts' \in Seq(Files), seen' \subseteq Files,
         host' = [at |-> host'.at, files |-> host'.files, asks |-> host'.asks],
         host'.at \in HostPlaces, host'.files \in Seq(Files),
         life' \in [Files -> {"file", "refused", "loaded", "shut down"}]
  PROVE  Types'
BY TypesNext DEF Types, TypeOK, HostOnly

LEMMA StepGives ==
  ASSUME Types, NEW p \in HostPlaces, Step(p)
  PROVE  /\ host' = [at |-> host'.at, files |-> host'.files, asks |-> host'.asks]
         /\ host'.at = p /\ host'.files = host.files
BY DEF Types, Step

LEMMA NextFileGives ==
  ASSUME Types, host.files # <<>>, NextFile
  PROVE  /\ host' = [at |-> host'.at, files |-> host'.files, asks |-> host'.asks]
         /\ host'.at = "load" /\ host'.files = Tail(host.files) /\ host'.files \in Seq(Files)
         /\ Current \in Files
BY RangeOfTail DEF Types, NextFile, Current

LEMMA SubscribeGives ==
  ASSUME Types, NEW o \in Files \cup {Hooks}, NEW filter \in Filters, Subscribe(o, filter)
  PROVE  /\ nextId' \in Nat /\ subs' \subseteq Subscriptions
         /\ \A s \in subs' : s \in subs \/ s.owner = o
<1>. DEFINE s == [id |-> nextId, owner |-> o, filter |-> filter]
<1>1. nextId \in Nat /\ subs \subseteq Subscriptions
  BY DEF Types, TypeOK
<1>2. s \in Subscriptions /\ s.owner = o
  BY <1>1 DEF Subscriptions
<1>3. nextId' = nextId + 1 /\ subs' = subs \cup {s}
  BY DEF Subscribe
<1>. HIDE DEF s
<1>4. nextId' \in Nat
  BY <1>1, <1>3
<1>. QED
  BY <1>1, <1>2, <1>3, <1>4

LEMMA UnsubscribeGives ==
  ASSUME Types, NEW s, Unsubscribe(s)
  PROVE  nextId' \in Nat /\ subs' \subseteq Subscriptions /\ subs' \subseteq subs
BY DEF Types, TypeOK, Unsubscribe

LEMMA BusKept ==
  ASSUME BusInv, \A s \in subs' : s \in subs \/ s.owner \in Known', Known \subseteq Known'
  PROVE  BusInv'
BY DEF BusInv

LEMMA RegistryUnchanged ==
  ASSUME RegistryInv, LifeInv, BusInv, UNCHANGED <<fate, plugins, contexts, seen, host, life>>,
         subs' \subseteq subs
  PROVE  RegistryInv' /\ LifeInv' /\ BusInv'
<1>1. RegistryInv'
  BY DEF RegistryInv, Sorted, At, Registered, Current, Taken
<1>2. LifeInv'
  BY DEF LifeInv, ShutdownInReverse
<1>3. Known' = Known
  BY DEF Known, At, Current, Loaded
<1>. QED
  BY <1>1, <1>2, <1>3 DEF BusInv

\* One more file is through load_one and is not in the registry: it could not be
\* used, or its id is taken by an earlier one.
LEMMA OneRefused ==
  ASSUME Types, NEW n \in 0 .. Len(Dir), n + 1 \in 0 .. Len(Dir), Registered(n),
         NEW c \in Files, Place(c) = n + 1, fate[c] # "fine" \/ Taken(c),
         UNCHANGED <<fate, plugins, contexts, seen>>
  PROVE  Registered(n + 1)'
<1>1. \A g \in Files : Place(g) <= n + 1 => Place(g) <= n \/ g = c
  BY DirPlaces
<1>2. \A f \in Files : Place(f) <= n => Place(f) <= n + 1
  BY DirPlaces
<1>3. seen \subseteq Files
  BY DEF Types, TypeOK
<1>4. fate[c] = "fine" => \E f \in seen : IdOf[f] = IdOf[c] /\ Place(f) <= Place(c)
  BY <1>2, <1>3 DEF Registered, Taken
<1>. QED
  BY <1>1, <1>2, <1>3, <1>4 DEF Registered

LEMMA OneLoaded ==
  ASSUME Types, NEW n \in 0 .. Len(Dir), n + 1 \in 0 .. Len(Dir), Registered(n),
         NEW c \in Files, Place(c) = n + 1, fate[c] = "fine", ~ Taken(c), Sorted,
         plugins' = Append(plugins, c), contexts' = Append(contexts, c),
         seen' = seen \cup {c}, UNCHANGED fate
  PROVE  Registered(n + 1)' /\ Sorted' /\ Range(plugins') = Range(plugins) \cup {c}
<1>1. \A g \in Files : Place(g) <= n + 1 => Place(g) <= n \/ g = c
  BY DirPlaces
<1>2. \A f \in Files : Place(f) <= n => Place(f) <= n + 1
  BY DirPlaces
<1>3. seen \subseteq Files /\ plugins \in Seq(Files)
  BY DEF Types, TypeOK
<1>4. Range(plugins') = Range(plugins) \cup {c}
  BY <1>3, RangeOfAppend
<1>5. contexts' = plugins' /\ seen' = Range(plugins')
  BY <1>4 DEF Registered
<1>6. \A f \in seen' : fate'[f] = "fine" /\ Place(f) <= n + 1
  BY <1>2, <1>3 DEF Registered
<1>7. ASSUME NEW g \in Files, fate'[g] = "fine", Place(g) <= n + 1
      PROVE  \E f \in seen' : IdOf[f] = IdOf[g] /\ Place(f) <= Place(g)
  <2>1. CASE g = c
    BY <2>1, DirPlaces
  <2>2. CASE Place(g) <= n
    BY <1>7, <2>2 DEF Registered
  <2>. QED
    BY <1>1, <1>7, <2>1, <2>2
<1>8. \A f, g \in seen' : IdOf[f] = IdOf[g] => f = g
  BY DEF Registered, Taken
<1>9. Registered(n + 1)'
  BY <1>5, <1>6, <1>7, <1>8 DEF Registered
<1>10. Sorted'
  <2>1. ASSUME NEW i \in DOMAIN plugins', NEW j \in DOMAIN plugins', i < j
        PROVE  Place(plugins'[i]) < Place(plugins'[j])
    <3>1. /\ Len(plugins) \in Nat /\ DOMAIN plugins = 1 .. Len(plugins)
          /\ DOMAIN plugins' = 1 .. Len(plugins) + 1
          /\ \A k \in 1 .. Len(plugins) : plugins'[k] = plugins[k]
          /\ plugins'[Len(plugins) + 1] = c
      BY <1>3, AppendProperties, LenProperties
    <3>2. i \in 1 .. Len(plugins)
      BY <2>1, <3>1
    <3>3. CASE j = Len(plugins) + 1
      <4>1. plugins[i] \in seen
        BY <3>1, <3>2 DEF Registered, Range
      <4>2. Place(plugins[i]) <= n /\ Place(plugins[i]) \in Nat
        BY <1>3, <4>1, DirPlaces DEF Registered
      <4>. QED
        BY <3>1, <3>2, <3>3, <4>2
    <3>4. CASE j \in 1 .. Len(plugins)
      BY <2>1, <3>1, <3>2, <3>4 DEF Sorted
    <3>. QED
      BY <3>1, <3>3, <3>4
  <2>. QED
    BY <2>1 DEF Sorted
<1>. QED
  BY <1>4, <1>9, <1>10

-----------------------------------------------------------------------------
\* The host's steps.  Before it is at the end of a load it has been through the
\* first n files.
LEMMA InLoad ==
  ASSUME Types, RegistryInv, At("load") \/ At("init"), host.files # <<>>
  PROVE  \E n \in 0 .. Len(Dir) :
           /\ n + 1 \in 0 .. Len(Dir) /\ Registered(n)
           /\ Current \in Files /\ Place(Current) = n + 1
           /\ Tail(host.files) = SubSeq(Dir, (n + 1) + 1, Len(Dir))
<1>1. PICK n \in 0 .. Len(Dir) : host.files = SubSeq(Dir, n + 1, Len(Dir)) /\ Registered(n)
  BY DEF RegistryInv, At
<1>. QED
  BY <1>1, RestOfDir DEF Current

LEMMA LoadDirKeeps ==
  ASSUME HostInv, LoadDir
  PROVE  HostInv' /\ HostOnly
<1>1. /\ host' = [at |-> "load", files |-> Dir, asks |-> host.asks] /\ At("start")
      /\ UNCHANGED <<nextId, subs, plugins, contexts, seen, life>>
  BY DEF LoadDir, HostInv, Types, busVars, registryVars
<1>2. HostOnly
  BY DEF LoadDir, HostOnly, busVars, registryVars
<1>3. Types'
  BY <1>1, <1>2, HostTypes, DirAssumption DEF HostInv, Types, TypeOK, HostPlaces
<1>4. Registered(0)' /\ 0 \in 0 .. Len(Dir) /\ Dir = SubSeq(Dir, 0 + 1, Len(Dir))
  <2>1. plugins = <<>> /\ contexts = <<>> /\ seen = {}
    BY <1>1 DEF HostInv, RegistryInv
  <2>2. \A g \in Files : ~ Place(g) <= 0
    BY DirPlaces
  <2>. QED
    BY <1>1, <2>1, <2>2, WholeDir, DirPlaces, EmptyRange DEF Registered
<1>5. RegistryInv'
  BY <1>1, <1>4 DEF HostInv, RegistryInv, Sorted, At
<1>6. LifeInv' /\ BusInv'
  BY <1>1 DEF HostInv, LifeInv, ShutdownInReverse, BusInv, Known, At, Loaded
<1>. QED
  BY <1>2, <1>3, <1>5, <1>6 DEF HostInv

\* A file is through load_one without getting into the registry.
LEMMA RefusedKeeps ==
  ASSUME HostInv, HostOnly, At("load") \/ At("init"), host.files # <<>>,
         fate[Current] # "fine" \/ Taken(Current), At("init") => OwnedBy(Current) = {},
         NextFile, life' = [life EXCEPT ![Current] = "refused"],
         UNCHANGED <<nextId, subs, plugins, contexts, seen>>
  PROVE  HostInv'
<1>0. Types /\ RegistryInv /\ LifeInv /\ BusInv
  BY DEF HostInv
<1>1. /\ host' = [at |-> host'.at, files |-> host'.files, asks |-> host'.asks]
      /\ host'.at = "load" /\ host'.files = Tail(host.files) /\ host'.files \in Seq(Files)
      /\ Current \in Files
  BY <1>0, NextFileGives
<1>2. Types'
  BY <1>0, <1>1, HostTypes DEF Types, TypeOK, HostPlaces
<1>3. PICK n \in 0 .. Len(Dir) :
           /\ n + 1 \in 0 .. Len(Dir) /\ Registered(n)
           /\ Current \in Files /\ Place(Current) = n + 1
           /\ Tail(host.files) = SubSeq(Dir, (n + 1) + 1, Len(Dir))
  BY <1>0, InLoad
<1>4. Registered(n + 1)'
  BY <1>0, <1>3, OneRefused DEF HostOnly
<1>5. RegistryInv'
  BY <1>0, <1>1, <1>3, <1>4 DEF RegistryInv, Sorted, At
<1>6. LifeInv'
  BY <1>0, <1>1 DEF LifeInv, ShutdownInReverse, Types, TypeOK, At
<1>7. BusInv'
  <2>1. At("load") => ~ Loaded
    BY DEF Loaded, At
  <2>2. Range(plugins') = Range(plugins)
    OBVIOUS
  <2>3. ASSUME NEW s \in subs PROVE s.owner \in Range(plugins)
    BY <1>0, <2>1, <2>3 DEF BusInv, Known, At, OwnedBy, Loaded
  <2>. QED
    BY <2>2, <2>3 DEF BusInv, Known
<1>. QED
  BY <1>2, <1>5, <1>6, <1>7 DEF HostInv

LEMMA LoadRefusedKeeps ==
  ASSUME HostInv, LoadRefused
  PROVE  HostInv' /\ HostOnly
<1>1. HostOnly /\ At("load") /\ ~ At("init") /\ host.files # <<>>
  BY DEF LoadRefused, HostOnly, busVars, registryVars, At
<1>. QED
  BY <1>1, RefusedKeeps DEF LoadRefused, busVars, registryVars

LEMMA LoadOneKeeps ==
  ASSUME HostInv, LoadOne
  PROVE  HostInv' /\ HostOnly
<1>0. Types /\ RegistryInv /\ LifeInv /\ BusInv
  BY DEF HostInv
<1>1. /\ host' = [at |-> "init", files |-> host.files, asks |-> AsksOf(Current)]
      /\ At("load") /\ host.files # <<>>
      /\ UNCHANGED <<nextId, subs, plugins, contexts, seen, life>>
      /\ HostOnly
  BY <1>0 DEF LoadOne, Types, busVars, registryVars, HostOnly
<1>2. Types'
  BY <1>0, <1>1, HostTypes DEF Types, TypeOK, HostPlaces
<1>3. RegistryInv'
  BY <1>0, <1>1 DEF RegistryInv, Sorted, At, Registered, Current, Taken, LoadOne, HostOnly
<1>4. LifeInv' /\ BusInv'
  BY <1>0, <1>1 DEF LifeInv, ShutdownInReverse, BusInv, Known, At, Loaded
<1>. QED
  BY <1>1, <1>2, <1>3, <1>4 DEF HostInv

\* While the host stands still, or moves on within init, only the subscriptions
\* change.
LEMMA SubscriptionsChange ==
  ASSUME HostInv, HostOnly, UNCHANGED <<plugins, contexts, seen, life>>,
         host' = [at |-> host.at, files |-> host.files, asks |-> host'.asks],
         nextId' \in Nat, subs' \subseteq Subscriptions,
         \A s \in subs' : s \in subs \/ s.owner \in Known
  PROVE  HostInv'
<1>0. Types /\ RegistryInv /\ LifeInv /\ BusInv
  BY DEF HostInv
<1>1. host'.at = host.at /\ host'.files = host.files
  OBVIOUS
<1>2. Types'
  <2>1. host' = [at |-> host'.at, files |-> host'.files, asks |-> host'.asks]
    BY <1>1
  <2>2. /\ host.at \in HostPlaces /\ host.files \in Seq(Files)
        /\ plugins' \in Seq(Files) /\ contexts' \in Seq(Files) /\ seen' \subseteq Files
        /\ life' \in [Files -> {"file", "refused", "loaded", "shut down"}]
    BY <1>0 DEF Types, TypeOK, HostPlaces
  <2>. QED
    BY <1>0, <1>1, <2>1, <2>2, HostTypes
<1>3. RegistryInv'
  <2>1. fate' = fate
    BY DEF HostOnly
  <2>. QED
    BY <1>0, <1>1, <2>1 DEF RegistryInv, Sorted, At, Registered, Current, Taken
<1>4. LifeInv'
  BY <1>0, <1>1 DEF LifeInv, ShutdownInReverse, At
<1>5. Known' = Known
  BY <1>1 DEF Known, At, Current, Loaded
<1>. QED
  BY <1>0, <1>2, <1>3, <1>4, <1>5 DEF HostInv, BusInv

LEMMA InitSubscribesKeeps ==
  ASSUME HostInv, InitSubscribes
  PROVE  HostInv' /\ HostOnly
<1>0. Types /\ RegistryInv /\ At("init")
  BY DEF HostInv, InitSubscribes
<1>1. /\ host' = [at |-> host.at, files |-> host.files, asks |-> host'.asks]
      /\ UNCHANGED <<plugins, contexts, seen, life>> /\ HostOnly
  BY <1>0 DEF InitSubscribes, Types, busVars, registryVars, HostOnly
<1>2. Current \in Files /\ Current \in Known
  <2>1. host.files # <<>>
    BY <1>0 DEF RegistryInv
  <2>. QED
    BY <1>0, <2>1, RangeOfTail DEF Types, Current, Known
<1>3. /\ nextId' \in Nat /\ subs' \subseteq Subscriptions
      /\ \A s \in subs' : s \in subs \/ s.owner = Current
  <2>1. CASE Head(host.asks) \in Filters /\ Subscribe(Current, Head(host.asks))
    BY <1>0, <1>2, <2>1, SubscribeGives
  <2>2. CASE UNCHANGED <<nextId, subs>>
    BY <1>0, <2>2 DEF Types, TypeOK
  <2>. QED
    BY <2>1, <2>2 DEF InitSubscribes
<1>. QED
  BY <1>1, <1>2, <1>3, SubscriptionsChange

LEMMA InitDoneKeeps ==
  ASSUME HostInv, InitDone
  PROVE  HostInv' /\ HostOnly
<1>0. Types /\ RegistryInv /\ LifeInv /\ BusInv /\ At("init") /\ host.files # <<>> /\ ~ Taken(Current)
  BY DEF HostInv, InitDone, RegistryInv
<1>1. /\ host' = [at |-> host'.at, files |-> host'.files, asks |-> host'.asks]
      /\ host'.at = "load" /\ host'.files = Tail(host.files) /\ host'.files \in Seq(Files)
      /\ Current \in Files
  BY <1>0, NextFileGives DEF InitDone
<1>2. HostOnly /\ UNCHANGED <<nextId, subs>>
  BY DEF InitDone, HostOnly, busVars
<1>3. PICK n \in 0 .. Len(Dir) :
           /\ n + 1 \in 0 .. Len(Dir) /\ Registered(n)
           /\ Current \in Files /\ Place(Current) = n + 1
           /\ Tail(host.files) = SubSeq(Dir, (n + 1) + 1, Len(Dir))
  BY <1>0, InLoad
<1>4. /\ contexts' = Append(contexts, Current) /\ plugins' = Append(plugins, Current)
      /\ seen' = seen \cup {Current} /\ life' = [life EXCEPT ![Current] = "loaded"]
      /\ fate[Current] = "fine" /\ fate' = fate
  BY DEF InitDone
<1>5. Registered(n + 1)' /\ Sorted' /\ Range(plugins') = Range(plugins) \cup {Current}
  BY <1>0, <1>3, <1>4, OneLoaded DEF RegistryInv
<1>6. Types'
  <2>1. contexts' \in Seq(Files) /\ plugins' \in Seq(Files)
    BY <1>0, <1>1, <1>4, RangeOfAppend DEF Types
  <2>2. seen' \subseteq Files
    BY <1>0, <1>1, <1>4 DEF Types, TypeOK
  <2>3. life' \in [Files -> {"file", "refused", "loaded", "shut down"}]
    BY <1>0, <1>4 DEF Types, TypeOK
  <2>4. nextId' \in Nat /\ subs' \subseteq Subscriptions
    BY <1>0, <1>2 DEF Types, TypeOK
  <2>5. "load" \in HostPlaces
    BY DEF HostPlaces
  <2>. QED
    BY <1>0, <1>1, <1>2, <2>1, <2>2, <2>3, <2>4, <2>5, HostTypes
<1>7. RegistryInv'
  BY <1>1, <1>3, <1>5 DEF RegistryInv, At
<1>8. LifeInv'
  <2>1. \A f \in Files : life[f] # "shut down"
    BY <1>0 DEF LifeInv, At
  <2>2. \A f \in Files : life'[f] # "shut down"
    BY <1>0, <1>1, <1>4, <2>1 DEF Types, TypeOK
  <2>3. \A f \in Files : life'[f] = "loaded" => life[f] = "loaded" \/ f = Current
    BY <1>0, <1>1, <1>4 DEF Types, TypeOK
  <2>4. \A f \in Files : life[f] = "loaded" => f \in Range(plugins)
    BY <1>0 DEF LifeInv, At
  <2>. QED
    BY <1>5, <2>2, <2>3, <2>4 DEF LifeInv, ShutdownInReverse
<1>9. BusInv'
  <2>1. \A s \in subs : s.owner \in Range(plugins) \cup {Current}
    BY <1>0 DEF BusInv, Known, At, Loaded
  <2>. QED
    BY <1>2, <1>5, <2>1 DEF BusInv, Known
<1>. QED
  BY <1>2, <1>6, <1>7, <1>8, <1>9 DEF HostInv

LEMMA InitFailedKeeps ==
  ASSUME HostInv, InitFailed
  PROVE  HostInv' /\ HostOnly
<1>0. Types /\ RegistryInv /\ At("init") /\ ~ At("load") /\ host.files # <<>>
  BY DEF HostInv, InitFailed, RegistryInv, At
<1>1. HostOnly /\ UNCHANGED <<plugins, contexts, seen>>
  BY DEF InitFailed, HostOnly, registryVars
<1>2. CASE OwnedBy(Current) = {}
  BY <1>0, <1>1, <1>2, RefusedKeeps DEF InitFailed
<1>3. CASE OwnedBy(Current) # {}
  <2>1. PICK s \in OwnedBy(Current) : Unsubscribe(s)
    BY <1>3 DEF InitFailed
  <2>2. host' = [at |-> host.at, files |-> host.files, asks |-> host'.asks] /\ UNCHANGED life
    BY <1>0, <1>3 DEF InitFailed, Types
  <2>. QED
    BY <1>0, <1>1, <2>1, <2>2, UnsubscribeGives, SubscriptionsChange
<1>. QED
  BY <1>1, <1>2, <1>3

LEMMA SubscribeHooksKeeps ==
  ASSUME HostInv, SubscribeHooks
  PROVE  HostInv' /\ HostOnly
<1>0. Types /\ RegistryInv /\ LifeInv /\ BusInv /\ At("load") /\ host.files = <<>>
  BY DEF HostInv, SubscribeHooks
<1>1. HostOnly /\ UNCHANGED <<plugins, contexts, seen, life>>
  BY DEF SubscribeHooks, HostOnly, registryVars
<1>2. Known = Range(plugins) \cup {Hooks}
  BY <1>0 DEF Known, At, Loaded
<1>3. CASE Step("loaded") /\ UNCHANGED <<nextId, subs>>
  <2>1. /\ host' = [at |-> host'.at, files |-> host'.files, asks |-> host'.asks]
        /\ host'.at = "loaded" /\ host'.files = host.files
    BY <1>0, <1>3, StepGives DEF HostPlaces
  <2>2. Types'
    BY <1>0, <1>1, <1>3, <2>1, HostTypes DEF Types, TypeOK, HostPlaces
  <2>3. Registered(Len(Dir))
    BY <1>0, RestOfDir DEF RegistryInv, At
  <2>4. RegistryInv'
    <3>1. Registered(Len(Dir))'
      BY <1>1, <2>3 DEF Registered, HostOnly
    <3>. QED
      BY <1>0, <1>1, <2>1, <3>1 DEF RegistryInv, Sorted, At
  <2>5. LifeInv'
    BY <1>0, <1>1, <2>1 DEF LifeInv, ShutdownInReverse, At
  <2>6. BusInv'
    BY <1>0, <1>1, <1>2, <1>3, <2>1 DEF BusInv, Known, At, Loaded
  <2>. QED
    BY <1>1, <2>2, <2>4, <2>5, <2>6 DEF HostInv
<1>4. CASE /\ Subscribe(Hooks, "ProfileChanged") \/ Subscribe(Hooks, "GameLaunching")
           /\ UNCHANGED host
  <2>1. "ProfileChanged" \in Filters /\ "GameLaunching" \in Filters
    BY HostAssumption DEF HookKinds, Filters
  <2>2. /\ nextId' \in Nat /\ subs' \subseteq Subscriptions
        /\ \A s \in subs' : s \in subs \/ s.owner = Hooks
    BY <1>0, <1>4, <2>1, SubscribeGives
  <2>3. host' = [at |-> host.at, files |-> host.files, asks |-> host'.asks]
    BY <1>0, <1>4 DEF Types
  <2>. QED
    BY <1>1, <1>2, <2>2, <2>3, SubscriptionsChange
<1>. QED
  BY <1>3, <1>4 DEF SubscribeHooks


\* The host moves on in an unload or a drop of the registry, and what is not in
\* it any more is not on the bus.
LEMMA HostMovesOn ==
  ASSUME HostInv, HostOnly, UNCHANGED <<nextId, subs, plugins, seen>>,
         NEW p \in {"unhook", "unload", "drop", "end"}, Step(p),
         contexts' \in Seq(Files), p = "end" => plugins = <<>>,
         life' \in [Files -> {"file", "refused", "loaded", "shut down"}],
         LifeInv', \A s \in subs : s.owner \in Known'
  PROVE  HostInv'
<1>0. Types /\ RegistryInv /\ p \in HostPlaces
  BY DEF HostInv, HostPlaces
<1>1. /\ host' = [at |-> host'.at, files |-> host'.files, asks |-> host'.asks]
      /\ host'.at = p /\ host'.files = host.files
  BY <1>0, StepGives
<1>2. Types'
  BY <1>0, <1>1, HostTypes DEF Types, TypeOK
<1>3. RegistryInv'
  BY <1>0, <1>1 DEF RegistryInv, Sorted, At
<1>. QED
  BY <1>2, <1>3 DEF HostInv, BusInv

LEMMA UnloadAllKeeps ==
  ASSUME HostInv, UnloadAll \/ DropRegistry
  PROVE  HostInv' /\ HostOnly
<1>0. /\ LifeInv /\ BusInv /\ At("loaded") /\ HostOnly
      /\ UNCHANGED <<nextId, subs, plugins, contexts, seen, life>>
  BY DEF HostInv, UnloadAll, DropRegistry, HostOnly, busVars, registryVars
<1>1. PICK p \in {"unhook", "drop"} : Step(p)
  BY DEF UnloadAll, DropRegistry
<1>2. host'.at = p
  BY <1>1, StepGives DEF HostInv, HostPlaces
<1>3. LifeInv'
  BY <1>0, <1>2 DEF LifeInv, ShutdownInReverse, At
<1>4. \A s \in subs : s.owner \in Known'
  BY <1>0, <1>2 DEF BusInv, Known, At, Loaded
<1>. QED
  BY <1>0, <1>1, <1>3, <1>4, HostMovesOn DEF HostInv, Types, TypeOK

LEMMA UnhookKeeps ==
  ASSUME HostInv, Unhook
  PROVE  HostInv' /\ HostOnly
<1>0. /\ Types /\ LifeInv /\ BusInv /\ At("unhook") /\ HostOnly
      /\ UNCHANGED <<plugins, contexts, seen, life>>
  BY DEF HostInv, Unhook, HostOnly, registryVars
<1>1. CASE OwnedBy(Hooks) = {} /\ Step("unload") /\ UNCHANGED <<nextId, subs>>
  <2>1. host'.at = "unload"
    BY <1>0, <1>1, StepGives DEF HostPlaces
  <2>2. LifeInv'
    BY <1>0, <2>1 DEF LifeInv, ShutdownInReverse, At
  <2>3. \A s \in subs : s.owner \in Known'
    BY <1>0, <1>1, <2>1 DEF BusInv, Known, At, Loaded, OwnedBy
  <2>. QED
    BY <1>0, <1>1, <2>2, <2>3, HostMovesOn DEF Types, TypeOK
<1>2. CASE OwnedBy(Hooks) # {} /\ (\E s : Unsubscribe(s)) /\ UNCHANGED host
  BY <1>0, <1>2, UnsubscribeGives, SubscriptionsChange DEF Types
<1>. QED
  BY <1>1, <1>2 DEF Unhook

\* The last plugin is the one whose file comes last.
LEMMA LastPlugin ==
  ASSUME Types, Sorted, plugins # <<>>
  PROVE  /\ Last(plugins) \in Files
         /\ \A g \in Range(plugins) : g = Last(plugins) \/ Place(g) < Place(Last(plugins))
<1>1. /\ Last(plugins) \in Files /\ Last(plugins) = plugins[Len(plugins)]
      /\ Len(plugins) \in Nat \ {0} /\ DOMAIN plugins = 1 .. Len(plugins)
  BY RangeOfFront DEF Types
<1>2. ASSUME NEW g \in Range(plugins), g # Last(plugins) PROVE Place(g) < Place(Last(plugins))
  <2>1. PICK i \in 1 .. Len(plugins) : plugins[i] = g
    BY <1>1 DEF Range
  <2>2. i < Len(plugins) /\ Len(plugins) \in 1 .. Len(plugins)
    BY <1>1, <1>2, <2>1
  <2>. QED
    BY <1>1, <2>1, <2>2 DEF Sorted
<1>. QED
  BY <1>1, <1>2

\* ... and shutting it down keeps the order.
LEMMA ShutLast ==
  ASSUME Types, Sorted, LifeInv, At("unload"), plugins # <<>>,
         life' = [life EXCEPT ![Last(plugins)] = "shut down"]
  PROVE  /\ life' \in [Files -> {"file", "refused", "loaded", "shut down"}]
         /\ ShutdownInReverse'
         /\ \A f \in Files : life'[f] = "loaded" => f \in Range(plugins) /\ f # Last(plugins)
<1>1. /\ Last(plugins) \in Files
      /\ \A g \in Range(plugins) : g = Last(plugins) \/ Place(g) < Place(Last(plugins))
  BY LastPlugin
<1>2. life \in [Files -> {"file", "refused", "loaded", "shut down"}]
  BY DEF Types, TypeOK
<1>3. /\ life'[Last(plugins)] = "shut down"
      /\ \A f \in Files : f = Last(plugins) \/ life'[f] = life[f]
  BY <1>1, <1>2
<1>4. \A f \in Files : life'[f] = "loaded" => f \in Range(plugins) /\ f # Last(plugins)
  <2>1. \A f \in Files : life[f] = "loaded" => f \in Range(plugins)
    BY DEF LifeInv, At
  <2>2. \A f \in Files : life'[f] = "loaded" => f # Last(plugins) /\ life[f] = "loaded"
    BY <1>3
  <2>. QED
    BY <2>1, <2>2
<1>5. ShutdownInReverse'
  BY <1>1, <1>3, <1>4 DEF LifeInv, ShutdownInReverse
<1>. QED
  BY <1>1, <1>2, <1>4, <1>5

LEMMA ShutdownKeeps ==
  ASSUME HostInv, Shutdown
  PROVE  HostInv' /\ HostOnly
<1>0. /\ Types /\ RegistryInv /\ Sorted /\ LifeInv /\ BusInv /\ At("unload") /\ plugins # <<>>
      /\ HostOnly /\ UNCHANGED <<contexts, seen>>
  BY DEF HostInv, RegistryInv, Shutdown, HostOnly
<1>1. CASE (\E s : Unsubscribe(s)) /\ UNCHANGED <<plugins, host, life>>
  BY <1>0, <1>1, UnsubscribeGives, SubscriptionsChange DEF Types
<1>2. CASE /\ OwnedBy(Last(plugins)) = {} /\ plugins' = Front(plugins)
           /\ life' = [life EXCEPT ![Last(plugins)] = "shut down"]
           /\ UNCHANGED <<nextId, subs, host>>
  <2>1. /\ plugins' \in Seq(Files) /\ Range(plugins) = Range(plugins') \cup {Last(plugins)}
        /\ DOMAIN plugins = 1 .. Len(plugins) /\ Len(plugins) \in Nat
        /\ DOMAIN plugins' = 1 .. Len(plugins) - 1
        /\ \A i \in 1 .. Len(plugins) - 1 : plugins'[i] = plugins[i]
    BY <1>0, <1>2, RangeOfFront DEF Types
  <2>2. /\ life' \in [Files -> {"file", "refused", "loaded", "shut down"}]
        /\ ShutdownInReverse'
        /\ \A f \in Files : life'[f] = "loaded" => f \in Range(plugins) /\ f # Last(plugins)
    BY <1>0, <1>2, ShutLast
  <2>3. Types'
    BY <1>0, <1>2, <2>1, <2>2, HostTypes DEF Types, TypeOK, HostPlaces
  <2>4. Sorted'
    <3>1. \A i \in 1 .. Len(plugins) - 1 : i \in DOMAIN plugins
      BY <2>1
    <3>. QED
      BY <1>0, <2>1, <3>1 DEF Sorted
  <2>5. RegistryInv'
    BY <1>0, <1>2, <2>4 DEF RegistryInv, At
  <2>6. LifeInv'
    BY <1>0, <1>2, <2>1, <2>2 DEF LifeInv, At
  <2>7. BusInv'
    BY <1>0, <1>2, <2>1 DEF BusInv, Known, At, Loaded, OwnedBy
  <2>. QED
    BY <1>0, <2>3, <2>5, <2>6, <2>7 DEF HostInv
<1>. QED
  BY <1>1, <1>2 DEF Shutdown

LEMMA ShutdownPanicsKeeps ==
  ASSUME HostInv, ShutdownPanics
  PROVE  HostInv' /\ HostOnly
<1>0. /\ Types /\ Sorted /\ LifeInv /\ BusInv /\ At("unload") /\ plugins # <<>>
      /\ HostOnly /\ UNCHANGED <<nextId, subs, plugins, contexts, seen>> /\ Step("drop")
      /\ life' = [life EXCEPT ![Last(plugins)] = "shut down"]
  BY DEF HostInv, RegistryInv, ShutdownPanics, HostOnly, busVars, registryVars
<1>1. host'.at = "drop"
  BY <1>0, StepGives DEF HostPlaces
<1>2. LifeInv'
  BY <1>0, <1>1, ShutLast DEF LifeInv
<1>3. \A s \in subs : s.owner \in Known'
  BY <1>0, <1>1 DEF BusInv, Known, At, Loaded
<1>. QED
  BY <1>0, <1>2, <1>3, ShutLast, HostMovesOn DEF Types

LEMMA ClearContextsKeeps ==
  ASSUME HostInv, ClearContexts
  PROVE  HostInv' /\ HostOnly
<1>0. /\ Types /\ LifeInv /\ BusInv /\ At("unload") /\ plugins = <<>> /\ contexts' = <<>>
      /\ HostOnly /\ UNCHANGED <<nextId, subs, plugins, seen, life>> /\ Step("end")
  BY DEF HostInv, ClearContexts, HostOnly, busVars
<1>1. host'.at = "end"
  BY <1>0, StepGives DEF HostPlaces
<1>2. LifeInv'
  BY <1>0, <1>1 DEF LifeInv, ShutdownInReverse, At
<1>3. \A s \in subs : s.owner \in Known'
  BY <1>0, <1>1 DEF BusInv, Known, At, Loaded
<1>. QED
  BY <1>0, <1>2, <1>3, EmptyRange, HostMovesOn DEF Types, TypeOK

LEMMA DropFieldKeeps ==
  ASSUME HostInv, DropField
  PROVE  HostInv' /\ HostOnly
<1>0. /\ Types /\ RegistryInv /\ Sorted /\ LifeInv /\ BusInv /\ At("drop")
      /\ HostOnly /\ UNCHANGED <<contexts, seen, life>>
  BY DEF HostInv, RegistryInv, DropField, HostOnly
<1>1. CASE (\E s : Unsubscribe(s)) /\ UNCHANGED <<plugins, host>>
  BY <1>0, <1>1, UnsubscribeGives, SubscriptionsChange DEF Types
<1>2. CASE /\ plugins # <<>> /\ OwnedBy(Head(plugins)) = {} /\ plugins' = Tail(plugins)
           /\ UNCHANGED <<nextId, subs, host>>
  <2>1. /\ plugins' \in Seq(Files) /\ Range(plugins) = Range(plugins') \cup {Head(plugins)}
        /\ Len(plugins) \in Nat /\ DOMAIN plugins' = 1 .. Len(plugins) - 1
        /\ \A i \in 1 .. Len(plugins) - 1 : plugins'[i] = plugins[i + 1]
    BY <1>0, <1>2, RangeOfTail DEF Types
  <2>2. DOMAIN plugins = 1 .. Len(plugins)
    BY <1>0, LenProperties DEF Types
  <2>3. Types'
    BY <1>0, <1>2, <2>1, HostTypes DEF Types, TypeOK, HostPlaces
  <2>4. Sorted'
    <3>1. \A i \in 1 .. Len(plugins) - 1 : i + 1 \in DOMAIN plugins
      BY <2>1, <2>2
    <3>2. \A i, j \in 1 .. Len(plugins) - 1 : i < j => i + 1 < j + 1
      BY <2>1
    <3>. QED
      BY <1>0, <2>1, <3>1, <3>2 DEF Sorted
  <2>5. RegistryInv'
    BY <1>0, <1>2, <2>4 DEF RegistryInv, At
  <2>6. LifeInv'
    BY <1>0, <1>2 DEF LifeInv, ShutdownInReverse, At
  <2>7. BusInv'
    BY <1>0, <1>2, <2>1 DEF BusInv, Known, At, Loaded, OwnedBy
  <2>. QED
    BY <1>0, <2>3, <2>5, <2>6, <2>7 DEF HostInv
<1>3. CASE /\ plugins = <<>> /\ OwnedBy(Hooks) = {} /\ Step("end")
           /\ UNCHANGED <<nextId, subs, plugins>>
  <2>1. host'.at = "end"
    BY <1>0, <1>3, StepGives DEF HostPlaces
  <2>2. LifeInv'
    BY <1>0, <2>1 DEF LifeInv, ShutdownInReverse, At
  <2>3. \A s \in subs : s.owner \in Known'
    BY <1>0, <1>3, <2>1 DEF BusInv, Known, At, Loaded, OwnedBy
  <2>. QED
    BY <1>0, <1>3, <2>2, <2>3, HostMovesOn DEF Types, TypeOK
<1>. QED
  BY <1>1, <1>2, <1>3 DEF DropField

-----------------------------------------------------------------------------
\* What the host does to the hooks: they are not undone once every file is loaded,
\* and the list of contexts changes before that, or it is cleared while no hook
\* has it.
ListKept ==
  /\ Loaded => Loaded'
  /\ \/ contexts' = contexts
     \/ ~ Loaded
     \/ listLock.by = None /\ contexts' = <<>>

HostAction == HostStep \/ UnloadAll \/ DropRegistry

LEMMA HostKeepsList ==
  ASSUME HostInv, HostAction
  PROVE  ListKept
<1>0. Types /\ RegistryInv
  BY DEF HostInv
<1>1. CASE LoadDir
  BY <1>1 DEF LoadDir, ListKept, Loaded, At, registryVars
<1>2. CASE LoadRefused \/ LoadOne
  BY <1>2 DEF LoadRefused, LoadOne, ListKept, Loaded, At, registryVars
<1>3. CASE InitSubscribes \/ InitDone \/ InitFailed
  BY <1>3 DEF InitSubscribes, InitDone, InitFailed, ListKept, Loaded, At, registryVars
<1>4. CASE SubscribeHooks
  <2>1. host' = host \/ host'.at = "loaded"
    BY <1>0, <1>4, StepGives DEF SubscribeHooks, HostPlaces
  <2>. QED
    BY <1>4, <2>1 DEF SubscribeHooks, ListKept, Loaded, At, registryVars
<1>5. CASE Unhook \/ UnloadAll \/ DropRegistry
  <2>1. host' = host \/ host'.at \in {"unhook", "unload", "drop"}
    BY <1>0, <1>5, StepGives DEF Unhook, UnloadAll, DropRegistry, HostPlaces
  <2>2. contexts' = contexts
    BY <1>5 DEF Unhook, UnloadAll, DropRegistry, registryVars
  <2>. QED
    BY <2>1, <2>2 DEF ListKept, Loaded, At
<1>6. CASE Shutdown \/ ShutdownPanics \/ DropField
  <2>1. host' = host \/ host'.at \in {"drop", "end"}
    BY <1>0, <1>6, StepGives DEF Shutdown, ShutdownPanics, DropField, HostPlaces
  <2>2. contexts' = contexts
    BY <1>6 DEF Shutdown, ShutdownPanics, DropField, registryVars
  <2>. QED
    BY <2>1, <2>2 DEF ListKept, Loaded, At
<1>7. CASE ClearContexts
  <2>1. host'.at = "end"
    BY <1>0, <1>7, StepGives DEF ClearContexts, HostPlaces
  <2>. QED
    BY <1>7, <2>1 DEF ClearContexts, ListFree, ListKept, Loaded, At
<1>. QED
  BY <1>1, <1>2, <1>3, <1>4, <1>5, <1>6, <1>7 DEF HostAction, HostStep

LEMMA HostKeeps ==
  ASSUME HostInv, HostAction
  PROVE  HostInv' /\ HostOnly
BY LoadDirKeeps, LoadRefusedKeeps, LoadOneKeeps, InitSubscribesKeeps, InitDoneKeeps,
   InitFailedKeeps, SubscribeHooksKeeps, UnloadAllKeeps, UnhookKeeps, ShutdownKeeps,
   ShutdownPanicsKeeps, ClearContextsKeeps, DropFieldKeeps DEF HostAction, HostStep

LEMMA HostKeepsHooks ==
  ASSUME HookInv, HostOnly, ListKept, Types'
  PROVE  HookInv'
<1>0. CallInv /\ QuietInv /\ AgreeInv
  BY DEF HookInv
<1>1. /\ \A t \in Publishers : Pending(t)' = Pending(t) /\ Kind(t)' = Kind(t) /\ Value(t)' = Value(t)
      /\ UNCHANGED <<busLock, listLock, ctx, call, announced>>
  BY DEF HostOnly, Pending, Kind, Value
<1>2. contexts' = contexts \/ \A t \in Publishers : listLock.by # t
  BY <1>0, HostAssumption DEF ListKept, QuietInv
<1>3. CallInv'
  <2>1. CASE contexts' = contexts
    BY <1>0, <1>1, <2>1 DEF CallInv
  <2>2. CASE \A t \in Publishers : listLock.by # t
    BY <1>0, <1>1, <2>2 DEF CallInv
  <2>. QED
    BY <1>2, <2>1, <2>2
<1>4. QuietInv'
  BY <1>0, <1>1 DEF QuietInv, ListKept
<1>5. AgreeInv'
  <2>1. CASE contexts' = contexts
    BY <1>0, <1>1, <2>1 DEF AgreeInv, Agrees
  <2>2. CASE ~ Loaded
    <3>1. Range(contexts') \subseteq Files
      BY DEF Types, TypeOK
    <3>2. /\ \A f \in Files, k \in Kinds : ctx'[f][k] = None
          /\ \A t \in Publishers, k \in Kinds : announced'[t][k] = None
      BY <1>0, <1>1, <2>2 DEF QuietInv
    <3>3. \A k \in Kinds : Agrees(k, None)'
      BY <3>1, <3>2 DEF Agrees
    <3>. QED
      BY <3>3 DEF AgreeInv
  <2>3. CASE listLock.by = None /\ contexts' = <<>>
    BY <1>0, <1>1, <2>3, EmptyRange DEF AgreeInv, Agrees
  <2>. QED
    BY <2>1, <2>2, <2>3 DEF ListKept
<1>. QED
  BY <1>3, <1>4, <1>5 DEF HookInv

-----------------------------------------------------------------------------
\* A publisher's step leaves the registry alone.
PublisherOnly == UNCHANGED <<fate, plugins, contexts, seen, host, life>>

LEMMA PublisherKeepsHost ==
  ASSUME HostInv, PublisherOnly,
         nextId' \in Nat, subs' \subseteq subs, busLock' \in Publishers \cup {None},
         listLock' \in [by : Publishers \cup {None}, left : Seq(Files)],
         ctx' \in [Files -> [Kinds -> AnyValue]],
         \A f \in Files, k \in Kinds : ctx'[f][k] \in Values[k] \cup {None},
         announced' \in [Publishers -> [Kinds -> AnyValue]],
         call' \in [Publishers -> Calls], published' \in 0 .. MaxPublish
  PROVE  HostInv'
<1>1. RegistryInv' /\ LifeInv' /\ BusInv'
  BY RegistryUnchanged DEF HostInv, PublisherOnly
<1>2. /\ fate' \in [Files -> Fates] /\ plugins' \in Seq(Files) /\ contexts' \in Seq(Files)
      /\ seen' \subseteq Files /\ subs' \subseteq Subscriptions
      /\ host' = [at |-> host'.at, files |-> host'.files, asks |-> host'.asks]
      /\ host'.at \in HostPlaces /\ host'.files \in Seq(Files)
      /\ life' \in [Files -> {"file", "refused", "loaded", "shut down"}]
  BY DEF HostInv, Types, TypeOK, PublisherOnly, HostPlaces
<1>. QED
  BY <1>1, <1>2, TypesNext DEF HostInv

\* A call goes on, and neither a hook nor a context is part of it.
LEMMA CallGoesOn ==
  ASSUME HookInv, UNCHANGED <<host, listLock, ctx, contexts, announced>>,
         NEW t \in Publishers, \A u \in Publishers \ {t} : call'[u] = call[u],
         Pending(t)' <=> Pending(t), Pending(t) \/ listLock.by = t => call'[t].event = call[t].event,
         busLock' # busLock => busLock' \in {t, None},
         t \in {busLock', listLock.by} \/ call'[t].left # {} => call'[t].event \in Events,
         busLock' = t => call'[t].left = {}
  PROVE  HookInv'
<1>0. CallInv /\ QuietInv /\ AgreeInv
  BY DEF HookInv
<1>1. \A u \in Publishers : /\ Pending(u)' <=> Pending(u)
                            /\ Pending(u) \/ listLock.by = u => Kind(u)' = Kind(u) /\ Value(u)' = Value(u)
  BY DEF Pending, Kind, Value
<1>2. CallInv'
  <2>1. ASSUME NEW u \in Publishers
        PROVE  /\ u \in {busLock', listLock'.by} \/ call'[u].left # {} => call'[u].event \in Events
               /\ busLock' = u => call'[u].left = {}
    BY <1>0, HostAssumption DEF CallInv
  <2>. QED
    BY <1>0, <1>1, <2>1 DEF CallInv
<1>3. QuietInv'
  BY <1>0, <1>1 DEF QuietInv, Loaded, At
<1>4. AgreeInv'
  BY <1>0, <1>1 DEF AgreeInv, Agrees
<1>. QED
  BY <1>2, <1>3, <1>4 DEF HookInv

LEMMA CallTypes ==
  ASSUME Types, NEW t \in Publishers
  PROVE  /\ call[t] \in Calls /\ Idle \in Calls /\ call[t].left \subseteq Subscriptions
         /\ nextId \in Nat /\ busLock \in Publishers \cup {None} /\ published \in 0 .. MaxPublish
         /\ listLock \in [by : Publishers \cup {None}, left : Seq(Files)]
         /\ ctx \in [Files -> [Kinds -> AnyValue]]
         /\ \A f \in Files, k \in Kinds : ctx[f][k] \in Values[k] \cup {None}
         /\ announced \in [Publishers -> [Kinds -> AnyValue]]
BY DEF Types, TypeOK, Calls, Idle

LEMMA PublishKeeps ==
  ASSUME HostInv, HookInv, NEW t \in Publishers, Publish(t)
  PROVE  HostInv' /\ HookInv'
<1>0. Types
  BY DEF HostInv
<1>1. PICK e \in Events : call' = [call EXCEPT ![t] = [event |-> e, left |-> {}, gone |-> Gone]]
  BY DEF Publish
<1>2. [event |-> e, left |-> {}, gone |-> Gone] \in Calls
  BY DEF Calls, Owners, Gone
<1>3. /\ call' \in [Publishers -> Calls] /\ \A u \in Publishers \ {t} : call'[u] = call[u]
      /\ call'[t].event = e /\ call'[t].left = {}
  BY <1>0, <1>1, <1>2 DEF Types
<1>4. PublisherOnly /\ UNCHANGED <<nextId, subs, listLock, ctx, announced>> /\ busLock' = t
  BY DEF Publish, PublisherOnly, registryVars
<1>5. published' \in 0 .. MaxPublish
  <2>1. published' = published + 1 /\ published < MaxPublish
    BY DEF Publish
  <2>. QED
    BY <1>0, <2>1, CallTypes, HostAssumption
<1>6. HostInv'
  BY <1>0, <1>3, <1>4, <1>5, CallTypes, PublisherKeepsHost
<1>7. ~ Pending(t) /\ ~ Pending(t)' /\ listLock.by # t
  <2>1. call[t].left = {} /\ call[t].event = None
    BY DEF Publish, Idle
  <2>. QED
    BY <1>3, <2>1, HostAssumption DEF Pending, HookInv, CallInv
<1>8. HookInv'
  BY <1>3, <1>4, <1>7, CallGoesOn DEF PublisherOnly
<1>. QED
  BY <1>6, <1>8

LEMMA ReturnKeeps ==
  ASSUME HostInv, HookInv, NEW t \in Publishers, Return(t)
  PROVE  HostInv' /\ HookInv'
<1>0. Types
  BY DEF HostInv
<1>1. /\ call' \in [Publishers -> Calls] /\ \A u \in Publishers \ {t} : call'[u] = call[u]
      /\ call'[t].left = {}
  BY <1>0, CallTypes DEF Types, Return, Idle
<1>2. /\ PublisherOnly
      /\ UNCHANGED <<nextId, subs, busLock, listLock, ctx, announced, published>>
  BY DEF Return, PublisherOnly, registryVars, busVars
<1>3. HostInv'
  BY <1>0, <1>1, <1>2, CallTypes, PublisherKeepsHost
<1>4. ~ Pending(t) /\ ~ Pending(t)' /\ t \notin {busLock, listLock.by}
  BY <1>1 DEF Pending, Return
<1>5. HookInv'
  BY <1>1, <1>2, <1>4, CallGoesOn DEF PublisherOnly
<1>. QED
  BY <1>3, <1>5

LEMMA RunHandlerKeeps ==
  ASSUME HostInv, HookInv, NEW t \in Publishers, RunHandler(t)
  PROVE  HostInv' /\ HookInv'
<1>0. Types
  BY DEF HostInv
<1>1. PICK s \in call[t].left : s.owner # Hooks /\ call' = [call EXCEPT ![t].left = call[t].left \ {s}]
  BY DEF RunHandler, AfterPanic
<1>2. /\ PublisherOnly /\ t \notin {busLock, listLock.by}
      /\ UNCHANGED <<busLock, listLock, ctx, announced, published>>
  BY DEF RunHandler, PublisherOnly, registryVars, busVars
<1>3. nextId' \in Nat /\ subs' \subseteq subs
  BY <1>0, UnsubscribeGives, CallTypes DEF RunHandler, busVars
<1>4. [call[t] EXCEPT !.left = call[t].left \ {s}] \in Calls
  BY <1>0, CallTypes DEF Calls
<1>5. /\ call' \in [Publishers -> Calls] /\ \A u \in Publishers \ {t} : call'[u] = call[u]
      /\ call'[t].event = call[t].event /\ call'[t].left = call[t].left \ {s}
  BY <1>0, <1>1, <1>4 DEF Types, Calls
<1>6. HostInv'
  BY <1>0, <1>2, <1>3, <1>5, CallTypes, PublisherKeepsHost
<1>7. Pending(t)' <=> Pending(t)
  BY <1>1, <1>5 DEF Pending
<1>8. call[t].event \in Events
  BY <1>1 DEF HookInv, CallInv
<1>9. HookInv'
  BY <1>2, <1>5, <1>7, <1>8, CallGoesOn DEF PublisherOnly
<1>. QED
  BY <1>6, <1>9

LEMMA CollectKeeps ==
  ASSUME HostInv, HookInv, NEW t \in Publishers, Collect(t)
  PROVE  HostInv' /\ HookInv'
<1>. DEFINE e == call[t].event
            matching == {s \in subs : Matches(s.filter, e)}
            silent == call[t].gone \cap {s.owner : s \in matching}
            hooked == \E s \in matching : s.owner = Hooks
<1>0. Types /\ CallInv /\ QuietInv /\ AgreeInv
  BY DEF HostInv, HookInv
<1>1. e \in Events /\ call[t].left = {} /\ ~ Pending(t) /\ busLock = t
  BY <1>0 DEF Collect, CallInv, Pending
<1>2. /\ e.kind \in Kinds /\ e.value \in Values[e.kind] /\ e.value \in AnyValue
      /\ e.value # None
  BY <1>1, EventValue
<1>3. /\ call' = [call EXCEPT ![t].left = matching, ![t].gone = silent]
      /\ announced' = IF hooked THEN [announced EXCEPT ![t][e.kind] = e.value] ELSE announced
      /\ busLock' = None /\ PublisherOnly
      /\ UNCHANGED <<nextId, subs, listLock, ctx, published>>
  BY DEF Collect, Collected, PublisherOnly, registryVars
<1>4. matching \subseteq Subscriptions
  BY <1>0 DEF Types, TypeOK
<1>. HIDE DEF matching
<1>10. silent \subseteq call[t].gone
  OBVIOUS
<1>. HIDE DEF silent
<1>5. /\ call' \in [Publishers -> Calls] /\ \A u \in Publishers \ {t} : call'[u] = call[u]
      /\ call'[t].event = e /\ call'[t].left = matching
  <2>1. [call[t] EXCEPT !.left = matching, !.gone = silent] \in Calls
    BY <1>0, <1>4, <1>10, CallTypes DEF Calls
  <2>2. call[t] \in Calls
    BY <1>0, CallTypes
  <2>. QED
    BY <1>0, <1>3, <2>1, <2>2 DEF Types, Calls
<1>6. Pending(t)' <=> hooked
  BY <1>5 DEF Pending
<1>7. announced \in [Publishers -> [Kinds -> AnyValue]]
  BY <1>0, CallTypes
<1>8. CASE ~ hooked
  <2>1. HostInv'
    BY <1>0, <1>3, <1>5, <1>7, <1>8, CallTypes, PublisherKeepsHost
  <2>2. HookInv'
    BY <1>1, <1>3, <1>5, <1>6, <1>8, HostAssumption, CallGoesOn DEF PublisherOnly
  <2>. QED
    BY <2>1, <2>2
<1>9. CASE hooked
  <2>1. /\ announced' \in [Publishers -> [Kinds -> AnyValue]]
        /\ announced'[t][e.kind] = e.value
        /\ \A k \in Kinds : k # e.kind => announced'[t][k] = announced[t][k]
        /\ \A u \in Publishers \ {t} : announced'[u] = announced[u]
    BY <1>2, <1>3, <1>7, <1>9
  <2>2. HostInv'
    BY <1>0, <1>3, <1>5, <2>1, CallTypes, PublisherKeepsHost
  <2>3. Loaded /\ Loaded'
    <3>1. PICK s \in subs : s.owner = Hooks
      BY <1>9 DEF matching
    <3>2. Hooks \in Known
      BY <3>1 DEF HostInv, BusInv
    <3>3. Hooks \notin Range(plugins)
      BY <1>0, HostAssumption DEF Types, TypeOK
    <3>4. At("init") => Current \in Files
      BY <1>0, RangeOfTail DEF HostInv, RegistryInv, Types, Current
    <3>. QED
      BY <1>3, <3>2, <3>3, <3>4, HostAssumption DEF Known, PublisherOnly, Loaded, At
  <2>4. CallInv'
    <3>1. ASSUME NEW u \in Publishers \ {t}
          PROVE  /\ (Pending(u))' <=> Pending(u)
                 /\ Kind(u)' = Kind(u) /\ Value(u)' = Value(u) /\ announced'[u] = announced[u]
      BY <1>5, <2>1 DEF Pending, Kind, Value
    <3>2. Kind(t)' = Kind(t) /\ Value(t)' = Value(t) /\ Kind(t) = e.kind /\ Value(t) = e.value
      BY <1>5 DEF Kind, Value
    <3>3. \A u \in Publishers : /\ u \in {busLock', listLock'.by} \/ call'[u].left # {} => call'[u].event \in Events
                                /\ busLock' = u => call'[u].left = {}
      BY <1>0, <1>1, <1>3, <1>5, HostAssumption DEF CallInv
    <3>4. \A u \in Publishers :
            Pending(u)' \/ listLock'.by = u => announced'[u][Kind(u)'] = Value(u)'
      BY <1>0, <1>3, <2>1, <3>1, <3>2 DEF CallInv
    <3>5. \A u \in Publishers : listLock'.by = u =>
            \A f \in Range(contexts') : f \in Range(listLock'.left) \/ ctx'[f][Kind(u)'] = Value(u)'
      BY <1>0, <1>3, <3>1, <3>2 DEF CallInv, PublisherOnly
    <3>. QED
      BY <3>3, <3>4, <3>5 DEF CallInv
  <2>5. QuietInv'
    BY <2>3 DEF QuietInv
  <2>6. AgreeInv'
    <3>1. ASSUME NEW k \in Kinds, \A u \in Publishers : listLock'.by = u => Kind(u)' # k
          PROVE  \E v \in Values[k] \cup {None} : Agrees(k, v)'
      <4>1. \A u \in Publishers : Kind(u)' = Kind(u)
        BY <1>5 DEF Kind
      <4>2. PICK v \in Values[k] \cup {None} : Agrees(k, v)
        BY <1>0, <1>3, <3>1, <4>1 DEF AgreeInv
      <4>3. \A f \in Range(contexts') : ctx'[f][k] = v
        BY <1>3, <4>2 DEF Agrees, PublisherOnly
      <4>4. CASE k = e.kind
        <5>1. Pending(t)' /\ Kind(t)' = k
          BY <1>5, <1>6, <1>9, <4>4 DEF Kind
        <5>. QED
          BY <4>3, <5>1 DEF Agrees
      <4>5. CASE k # e.kind
        <5>1. \A u \in Publishers : announced'[u][k] = announced[u][k]
          BY <2>1, <4>5, <3>1
        <5>2. \A u \in Publishers : Pending(u) => u # t /\ Pending(u)'
          BY <1>1, <1>5 DEF Pending
        <5>. QED
          BY <4>1, <4>2, <4>3, <5>1, <5>2 DEF Agrees
      <4>. QED
        BY <4>4, <4>5
    <3>. QED
      BY <3>1 DEF AgreeInv
  <2>. QED
    BY <2>2, <2>4, <2>5, <2>6 DEF HookInv
<1>. QED
  BY <1>8, <1>9

LEMMA StartHookKeeps ==
  ASSUME HostInv, HookInv, NEW t \in Publishers, StartHook(t)
  PROVE  HostInv' /\ HookInv'
<1>0. Types /\ CallInv /\ QuietInv /\ AgreeInv
  BY DEF HostInv, HookInv
<1>1. PICK s \in call[t].left : s.owner = Hooks /\ call' = [call EXCEPT ![t].left = call[t].left \ {s}]
  BY DEF StartHook
<1>2. /\ PublisherOnly /\ listLock' = [by |-> t, left |-> contexts] /\ listLock.by = None
      /\ UNCHANGED <<nextId, subs, busLock, ctx, announced, published>> /\ busLock # t
  BY DEF StartHook, PublisherOnly, busVars, ListFree
<1>3. /\ call' \in [Publishers -> Calls] /\ \A u \in Publishers \ {t} : call'[u] = call[u]
      /\ call'[t].event = call[t].event /\ call'[t].left \subseteq call[t].left
  <2>1. [call[t] EXCEPT !.left = call[t].left \ {s}] \in Calls
    BY <1>0, CallTypes DEF Calls
  <2>. QED
    BY <1>0, <1>1, <2>1, CallTypes DEF Types, Calls
<1>4. HostInv'
  <2>1. listLock' \in [by : Publishers \cup {None}, left : Seq(Files)]
    BY <1>0, <1>2 DEF Types
  <2>. QED
    BY <1>0, <1>2, <1>3, <2>1, CallTypes, PublisherKeepsHost
<1>5. Pending(t) /\ announced[t][Kind(t)] = Value(t) /\ call[t].event \in Events
  BY <1>0, <1>1 DEF Pending, CallInv
<1>6. \A u \in Publishers : /\ Kind(u)' = Kind(u) /\ Value(u)' = Value(u)
                            /\ Pending(u)' => Pending(u)
                            /\ u # t /\ Pending(u) => Pending(u)'
  BY <1>3 DEF Kind, Value, Pending
<1>7. CallInv'
  <2>1. \A u \in Publishers : /\ u \in {busLock', listLock'.by} \/ call'[u].left # {} => call'[u].event \in Events
                              /\ busLock' = u => call'[u].left = {}
    BY <1>0, <1>2, <1>3, <1>5 DEF CallInv
  <2>2. \A u \in Publishers :
          Pending(u)' \/ listLock'.by = u => announced'[u][Kind(u)'] = Value(u)'
    BY <1>0, <1>2, <1>5, <1>6 DEF CallInv
  <2>3. listLock'.left = contexts'
    BY <1>2 DEF PublisherOnly
  <2>. QED
    BY <2>1, <2>2, <2>3 DEF CallInv
<1>8. QuietInv'
  <2>1. Loaded'
    BY <1>0, <1>2, <1>5 DEF QuietInv, PublisherOnly, Loaded, At
  <2>. QED
    BY <2>1 DEF QuietInv
<1>9. AgreeInv'
  <2>1. ASSUME NEW k \in Kinds, Kind(t)' # k
        PROVE  \E v \in Values[k] \cup {None} : Agrees(k, v)'
    <3>1. PICK v \in Values[k] \cup {None} : Agrees(k, v)
      BY <1>0, <1>2, HostAssumption DEF AgreeInv
    <3>2. \A u \in Publishers : Pending(u) /\ Kind(u) = k => Pending(u)' /\ Kind(u)' = k
      BY <1>6, <2>1
    <3>. QED
      BY <1>2, <3>1, <3>2 DEF Agrees, PublisherOnly
  <2>. QED
    BY <1>2, <2>1 DEF AgreeInv
<1>. QED
  BY <1>4, <1>7, <1>8, <1>9 DEF HookInv

LEMMA RunHookKeeps ==
  ASSUME HostInv, HookInv, NEW t \in Publishers, RunHook(t)
  PROVE  HostInv' /\ HookInv'
<1>0. Types /\ CallInv /\ QuietInv /\ AgreeInv
  BY DEF HostInv, HookInv
<1>1. /\ PublisherOnly /\ listLock.by = t
      /\ UNCHANGED <<nextId, subs, busLock, call, announced, published>>
  BY DEF RunHook, PublisherOnly, busVars
<1>2. call[t].event \in Events /\ announced[t][Kind(t)] = Value(t)
  BY <1>0, <1>1 DEF CallInv
<1>3. Kind(t) \in Kinds /\ Value(t) \in Values[Kind(t)] /\ Value(t) \in AnyValue /\ Value(t) # None
  BY <1>2, EventValue DEF Kind, Value
<1>4. \A u \in Publishers : Kind(u)' = Kind(u) /\ Value(u)' = Value(u) /\ (Pending(u)' <=> Pending(u))
  BY <1>1 DEF Kind, Value, Pending
<1>5. QuietInv'
  <2>1. Loaded'
    BY <1>0, <1>1, HostAssumption DEF QuietInv, PublisherOnly, Loaded, At
  <2>. QED
    BY <2>1 DEF QuietInv
<1>6. CASE listLock.left = <<>>
  <2>1. /\ listLock' \in [by : Publishers \cup {None}, left : Seq(Files)]
        /\ listLock'.by = None /\ ctx' = ctx
    BY <1>0, <1>6 DEF RunHook, Types
  <2>2. HostInv'
    BY <1>0, <1>1, <2>1, CallTypes, PublisherKeepsHost DEF Types
  <2>3. CallInv'
    BY <1>0, <1>1, <1>4, <2>1, HostAssumption DEF CallInv
  <2>4. AgreeInv'
    <3>1. ASSUME NEW k \in Kinds, k # Kind(t)
          PROVE  \E v \in Values[k] \cup {None} : Agrees(k, v)'
      <4>1. PICK v \in Values[k] \cup {None} : Agrees(k, v)
        BY <1>0, <1>1, <3>1 DEF AgreeInv
      <4>. QED
        BY <1>1, <1>4, <2>1, <4>1 DEF Agrees, PublisherOnly
    <3>2. Agrees(Kind(t), Value(t))'
      <4>1. \A f \in Range(contexts) : ctx[f][Kind(t)] = Value(t)
        BY <1>0, <1>1, <1>6, EmptyRange DEF CallInv
      <4>. QED
        BY <1>1, <1>2, <1>3, <1>4, <2>1, <4>1 DEF Agrees, PublisherOnly
    <3>. QED
      BY <1>3, <1>4, <3>1, <3>2 DEF AgreeInv
  <2>. QED
    BY <1>5, <2>2, <2>3, <2>4 DEF HookInv
<1>7. CASE listLock.left # <<>>
  <2>. DEFINE h == Head(listLock.left)
  <2>1. /\ ctx' = [ctx EXCEPT ![h][Kind(t)] = Value(t)]
        /\ listLock' = [listLock EXCEPT !.left = Tail(listLock.left)]
    BY <1>7 DEF RunHook, Kind, Value
  <2>2. /\ h \in Files /\ Tail(listLock.left) \in Seq(Files)
        /\ Range(listLock.left) = Range(Tail(listLock.left)) \cup {h}
    BY <1>0, <1>7, RangeOfTail DEF Types
  <2>. HIDE DEF h
  <2>3. /\ listLock' \in [by : Publishers \cup {None}, left : Seq(Files)]
        /\ listLock'.by = t /\ listLock'.left = Tail(listLock.left)
    BY <1>0, <1>1, <2>1, <2>2 DEF Types
  <2>4. /\ ctx \in [Files -> [Kinds -> AnyValue]]
        /\ \A f \in Files, k \in Kinds : ctx[f][k] \in Values[k] \cup {None}
    BY <1>0, CallTypes
  <2>5. /\ ctx' \in [Files -> [Kinds -> AnyValue]] /\ ctx'[h][Kind(t)] = Value(t)
        /\ \A f \in Files, k \in Kinds : (f = h /\ k = Kind(t)) \/ ctx'[f][k] = ctx[f][k]
    BY <1>3, <2>1, <2>2, <2>4
  <2>6. \A f \in Files, k \in Kinds : ctx'[f][k] \in Values[k] \cup {None}
    BY <1>3, <2>2, <2>4, <2>5
  <2>7. HostInv'
    BY <1>0, <1>1, <2>3, <2>5, <2>6, CallTypes, PublisherKeepsHost DEF Types
  <2>8. Range(contexts) \subseteq Files
    BY <1>0 DEF Types, TypeOK
  <2>9. CallInv'
    <3>1. \A f \in Range(contexts) : f \in Range(Tail(listLock.left)) \/ ctx'[f][Kind(t)] = Value(t)
      BY <1>0, <1>1, <1>3, <2>2, <2>5, <2>8 DEF CallInv
    <3>2. \A u \in Publishers : listLock'.by = u <=> listLock.by = u
      BY <1>1, <2>3
    <3>3. \A u \in Publishers :
            /\ u \in {busLock', listLock'.by} \/ call'[u].left # {} => call'[u].event \in Events
            /\ busLock' = u => call'[u].left = {}
            /\ Pending(u)' \/ listLock'.by = u => announced'[u][Kind(u)'] = Value(u)'
      BY <1>0, <1>1, <1>4, <3>2 DEF CallInv
    <3>4. \A u \in Publishers : listLock'.by = u =>
            \A f \in Range(contexts') : f \in Range(listLock'.left) \/ ctx'[f][Kind(u)'] = Value(u)'
      BY <1>1, <1>4, <2>3, <3>1 DEF PublisherOnly
    <3>. QED
      BY <3>3, <3>4 DEF CallInv
  <2>10. AgreeInv'
    <3>1. ASSUME NEW k \in Kinds, k # Kind(t)
          PROVE  \E v \in Values[k] \cup {None} : Agrees(k, v)'
      <4>1. PICK v \in Values[k] \cup {None} : Agrees(k, v)
        BY <1>0, <1>1, <3>1 DEF AgreeInv
      <4>2. \A f \in Range(contexts') : ctx'[f][k] = v
        BY <1>1, <2>5, <2>8, <3>1, <4>1 DEF Agrees, PublisherOnly
      <4>. QED
        BY <1>1, <1>4, <4>1, <4>2 DEF Agrees
    <3>. QED
      BY <1>4, <2>3, <3>1 DEF AgreeInv
  <2>. QED
    BY <1>5, <2>7, <2>9, <2>10 DEF HookInv
<1>. QED
  BY <1>6, <1>7

-----------------------------------------------------------------------------
LEMMA HostStarts ==
  ASSUME Init
  PROVE  HostInv /\ HookInv
<1>1. /\ host = [at |-> "start", files |-> <<>>, asks |-> <<>>] /\ plugins = <<>> /\ contexts = <<>>
      /\ subs = {} /\ seen = {} /\ \A f \in Files : life[f] = "file"
      /\ listLock = [by |-> None, left |-> <<>>] /\ busLock = None
      /\ \A t \in Publishers : call[t] = Idle /\ ~ Pending(t)
      /\ \A f \in Files, k \in Kinds : ctx[f][k] = None
      /\ \A t \in Publishers, k \in Kinds : announced[t][k] = None
  BY DEF Init, Pending, Idle
<1>2. Types
  <2>1. /\ ctx \in [Files -> [Kinds -> AnyValue]]
        /\ announced \in [Publishers -> [Kinds -> AnyValue]]
        /\ call \in [Publishers -> Calls]
    <3>1. None \in AnyValue
      BY DEF AnyValue
    <3>2. Idle \in Calls
      BY DEF Calls, Idle
    <3>. QED
      BY <3>1, <3>2 DEF Init
  <2>2. TypeOK
    BY <1>1, EmptyRange, HostAssumption DEF Init, TypeOK, Idle
  <2>. QED
    BY <1>1, <2>1, <2>2, EmptyRange DEF Types
<1>3. RegistryInv /\ LifeInv /\ BusInv
  BY <1>1, EmptyRange DEF RegistryInv, Sorted, At, LifeInv, ShutdownInReverse, BusInv
<1>4. CallInv /\ QuietInv
  BY <1>1, HostAssumption DEF CallInv, QuietInv, Idle
<1>5. AgreeInv
  <2>1. \A k \in Kinds : Agrees(k, None)
    BY <1>1, EmptyRange DEF Agrees
  <2>. QED
    BY <2>1 DEF AgreeInv
<1>. QED
  BY <1>2, <1>3, <1>4, <1>5 DEF HostInv, HookInv

-----------------------------------------------------------------------------
\* A file that is not yet through load_one is not gone; at the end of a load, and
\* before its beginning, there is none.
LEMMA CurrentIsFile ==
  ASSUME Types, FilesInv, At("load") \/ At("init"), host.files # <<>>
  PROVE  Current \in Files /\ life[Current] = "file"
<1>1. PICK n \in 0 .. Len(Dir) : /\ host.files = SubSeq(Dir, n + 1, Len(Dir))
                               /\ \A f \in Files : life[f] # "file" => Place(f) <= n
  BY DEF FilesInv, At
<1>2. Current \in Files /\ Place(Current) = n + 1
  BY <1>1, RestOfDir DEF Current
<1>3. ~ n + 1 <= n
  BY DirPlaces
<1>. QED
  BY <1>1, <1>2, <1>3

LEMMA OneFileFewer ==
  ASSUME Types, FilesInv, At("load") \/ At("init"), host.files # <<>>, NextFile,
         NEW l, life' = [life EXCEPT ![Current] = l]
  PROVE  FilesInv'
<1>1. PICK n \in 0 .. Len(Dir) : /\ host.files = SubSeq(Dir, n + 1, Len(Dir))
                               /\ \A f \in Files : life[f] # "file" => Place(f) <= n
  BY DEF FilesInv, At
<1>2. /\ n + 1 \in 0 .. Len(Dir) /\ Current \in Files /\ Place(Current) = n + 1
      /\ Tail(host.files) = SubSeq(Dir, (n + 1) + 1, Len(Dir))
  BY <1>1, RestOfDir DEF Current
<1>3. host'.at = "load" /\ host'.files = Tail(host.files)
  BY NextFileGives
<1>4. ASSUME NEW f \in Files, life'[f] # "file" PROVE Place(f) <= n + 1
  <2>1. life[f] # "file" \/ f = Current
    BY <1>4 DEF Types, TypeOK
  <2>2. Place(f) \in Nat /\ n \in Nat
    BY DirPlaces
  <2>. QED
    BY <1>1, <1>2, <2>1, <2>2
<1>. QED
  BY <1>2, <1>3, <1>4 DEF FilesInv, At

LEMMA FilesKept ==
  ASSUME HostInv, FilesInv, [Next]_vars
  PROVE  FilesInv'
<1>0. Types /\ RegistryInv
  BY DEF HostInv
<1>1. CASE LoadDir
  <2>1. host'.at = "load" /\ host'.files = Dir /\ \A f \in Files : life'[f] = "file"
    BY <1>0, <1>1 DEF LoadDir, FilesInv, At, Types
  <2>. QED
    BY <2>1, WholeDir, DirPlaces DEF FilesInv, At
<1>2. CASE LoadRefused \/ InitDone
  <2>1. host.files # <<>> /\ (At("load") \/ At("init")) /\ NextFile
    BY <1>0, <1>2 DEF LoadRefused, InitDone, RegistryInv
  <2>. QED
    BY <1>0, <1>2, <2>1, OneFileFewer DEF LoadRefused, InitDone
<1>3. CASE InitFailed /\ OwnedBy(Current) = {}
  <2>1. host.files # <<>> /\ At("init") /\ NextFile
    BY <1>0, <1>3 DEF InitFailed, RegistryInv
  <2>. QED
    BY <1>0, <1>3, <2>1, OneFileFewer DEF InitFailed
<1>4. CASE LoadOne \/ InitSubscribes \/ (InitFailed /\ OwnedBy(Current) # {})
  <2>1. /\ life' = life /\ host'.files = host.files /\ host.at \in {"load", "init"}
        /\ host'.at \in {"load", "init"}
    BY <1>0, <1>4 DEF LoadOne, InitSubscribes, InitFailed, At, Types
  <2>. QED
    BY <2>1 DEF FilesInv, At
<1>5. CASE SubscribeHooks
  <2>1. life' = life /\ (host' = host \/ host'.at = "loaded")
    BY <1>0, <1>5, StepGives DEF SubscribeHooks, HostPlaces
  <2>. QED
    BY <2>1 DEF FilesInv, At
<1>6. CASE \/ UnloadAll \/ DropRegistry \/ Unhook \/ Shutdown \/ ShutdownPanics
           \/ ClearContexts \/ DropField
  <2>1. /\ host' = host \/ host'.at \in {"unhook", "unload", "drop", "end"}
        /\ host.at \in {"loaded", "unhook", "unload", "drop"}
    BY <1>0, <1>6, StepGives DEF UnloadAll, DropRegistry, Unhook, Shutdown, ShutdownPanics,
       ClearContexts, DropField, HostPlaces, At
  <2>. QED
    BY <2>1 DEF FilesInv, At
<1>7. ASSUME NEW t \in Publishers, Publish(t) \/ PublisherStep(t)
      PROVE  FilesInv'
  <2>1. life' = life /\ host' = host
    BY <1>7 DEF Publish, PublisherStep, Collect, RunHandler, StartHook, RunHook, Return
  <2>. QED
    BY <2>1 DEF FilesInv, At
<1>8. CASE UNCHANGED vars
  BY <1>8 DEF vars, FilesInv, At
<1>. QED
  BY <1>1, <1>2, <1>3, <1>4, <1>5, <1>6, <1>7, <1>8 DEF Next, HostStep

\* Nobody who is on the bus is gone.
LEMMA OnTheBus ==
  ASSUME HostInv, FilesInv, NEW s \in subs
  PROVE  s.owner \notin Gone
<1>0. Types /\ RegistryInv /\ s.owner \in Known
  BY DEF HostInv, BusInv
<1>1. CASE s.owner \in Range(plugins)
  <2>1. s.owner \in Files
    BY <1>0, <1>1 DEF Types, TypeOK
  <2>. QED
    BY <1>1, <2>1, HostAssumption DEF Gone
<1>2. CASE At("init") /\ s.owner = Current
  <2>1. host.files # <<>>
    BY <1>0, <1>2 DEF RegistryInv
  <2>. QED
    BY <1>0, <1>2, <2>1, CurrentIsFile, HostAssumption DEF Gone
<1>3. CASE s.owner = Hooks
  BY <1>3, HostAssumption DEF Gone, OwnedBy
<1>. QED
  BY <1>0, <1>1, <1>2, <1>3 DEF Known

\* Who is gone stays gone: no file is loaded twice, and nothing subscribes for the
\* hooks once they are undone.
StaysGone ==
  /\ \A f \in Files : life[f] # "file" => life'[f] # "file"
  /\ \A f \in Range(plugins') : f \in Range(plugins) \/ life[f] = "file"
  /\ host.at \in {"unload", "drop", "end"} => host'.at \in {"unload", "drop", "end"} /\ subs' \subseteq subs

LEMMA GoneGrows ==
  ASSUME StaysGone
  PROVE  Gone \subseteq Gone'
<1>1. ASSUME NEW f \in Files, life[f] # "file", f \notin Range(plugins)
      PROVE  life'[f] # "file" /\ f \notin Range(plugins')
  BY <1>1 DEF StaysGone
<1>2. ASSUME host.at \in {"unload", "drop", "end"}, OwnedBy(Hooks) = {}
      PROVE  host'.at \in {"unload", "drop", "end"} /\ OwnedBy(Hooks)' = {}
  BY <1>2 DEF StaysGone, OwnedBy
<1>. QED
  BY <1>1, <1>2 DEF Gone

LEMMA HostStaysGone ==
  ASSUME HostInv, FilesInv, HostAction
  PROVE  StaysGone
<1>0. Types /\ RegistryInv
  BY DEF HostInv
<1>1. CASE LoadDir \/ LoadOne \/ InitSubscribes \/ SubscribeHooks
  <2>1. /\ plugins' = plugins /\ life' = life
        /\ host.at \notin {"unload", "drop", "end"}
    BY <1>1 DEF LoadDir, LoadOne, InitSubscribes, SubscribeHooks, registryVars, At
  <2>. QED
    BY <2>1 DEF StaysGone
<1>2. CASE LoadRefused \/ InitDone \/ InitFailed
  <2>1. host.files # <<>> /\ (At("load") \/ At("init"))
    BY <1>0, <1>2 DEF LoadRefused, InitDone, InitFailed, RegistryInv
  <2>2. Current \in Files /\ life[Current] = "file"
    BY <1>0, <2>1, CurrentIsFile
  <2>3. \A f \in Files : life[f] # "file" => life'[f] # "file"
    BY <1>0, <1>2, <2>2 DEF LoadRefused, InitDone, InitFailed, Types, TypeOK
  <2>4. plugins' = plugins \/ plugins' = Append(plugins, Current)
    BY <1>2 DEF LoadRefused, InitDone, InitFailed, registryVars
  <2>5. \A f \in Range(plugins') : f \in Range(plugins) \/ f = Current
    <3>1. plugins \in Seq(Files)
      BY <1>0 DEF Types
    <3>2. Range(Append(plugins, Current)) = Range(plugins) \cup {Current}
      BY <2>2, <3>1, RangeOfAppend
    <3>. QED
      BY <2>4, <3>2
  <2>6. host.at \notin {"unload", "drop", "end"}
    BY <2>1 DEF At
  <2>7. \A f \in Range(plugins') : f \in Range(plugins) \/ life[f] = "file"
    BY <2>2, <2>5
  <2>. QED
    BY <2>3, <2>6, <2>7 DEF StaysGone
<1>3. CASE Unhook \/ UnloadAll \/ DropRegistry
  <2>1. /\ plugins' = plugins /\ life' = life
        /\ host.at \notin {"unload", "drop", "end"}
    BY <1>3 DEF Unhook, UnloadAll, DropRegistry, registryVars, At
  <2>. QED
    BY <2>1 DEF StaysGone
<1>4. CASE Shutdown \/ ShutdownPanics \/ ClearContexts \/ DropField
  <2>1. host' = host \/ host'.at \in {"drop", "end"}
    BY <1>0, <1>4, StepGives DEF Shutdown, ShutdownPanics, ClearContexts, DropField, HostPlaces
  <2>2. subs' \subseteq subs
    BY <1>0, <1>4, UnsubscribeGives DEF Shutdown, ShutdownPanics, ClearContexts, DropField, busVars
  <2>3. \A f \in Files : life[f] # "file" => life'[f] # "file"
    BY <1>0, <1>4 DEF Shutdown, ShutdownPanics, ClearContexts, DropField, Types, TypeOK
  <2>4. \/ plugins' = plugins
        \/ plugins # <<>> /\ (plugins' = Front(plugins) \/ plugins' = Tail(plugins))
    BY <1>4 DEF Shutdown, ShutdownPanics, ClearContexts, DropField, registryVars
  <2>5. Range(plugins') \subseteq Range(plugins)
    BY <1>0, <2>4, RangeOfFront, RangeOfTail DEF Types
  <2>. QED
    BY <2>1, <2>2, <2>3, <2>5 DEF StaysGone
<1>. QED
  BY <1>1, <1>2, <1>3, <1>4 DEF HostAction, HostStep

LEMMA SilentKept ==
  ASSUME HostInv, HookInv, FilesInv, SilentInv, [Next]_vars
  PROVE  SilentInv'
<1>0. Types
  BY DEF HostInv
<1>1. CASE HostAction \/ UNCHANGED vars
  <2>1. call' = call
    BY <1>1, HostKeeps DEF HostOnly, vars
  <2>2. StaysGone
    BY <1>1, HostStaysGone DEF StaysGone, vars
  <2>. QED
    BY <2>1, <2>2, GoneGrows DEF SilentInv, GoneStaySilent
<1>2. ASSUME NEW t \in Publishers, Publish(t) \/ PublisherStep(t)
      PROVE  SilentInv'
  <2>1. plugins' = plugins /\ life' = life /\ host' = host
    BY <1>2 DEF Publish, PublisherStep, Collect, RunHandler, StartHook, RunHook, Return, registryVars
  <2>2. subs' \subseteq subs
    BY <1>0, <1>2, UnsubscribeGives
       DEF Publish, PublisherStep, Collect, RunHandler, StartHook, RunHook, Return, busVars
  <2>3. Gone \subseteq Gone'
    BY <2>1, <2>2, GoneGrows DEF StaysGone
  <2>4. /\ call[t] \in Calls /\ call \in [Publishers -> Calls]
        /\ call[t].gone \subseteq Gone /\ \A s \in call[t].left : s.owner \notin call[t].gone
    BY <1>0, CallTypes DEF SilentInv, GoneStaySilent, Types
  <2>5. \A u \in Publishers \ {t} : call'[u] = call[u]
    BY <1>2, <2>4 DEF Publish, PublisherStep, Collect, RunHandler, StartHook, RunHook, Return
  <2>6. call'[t].gone \subseteq Gone /\ \A s \in call'[t].left : s.owner \notin call'[t].gone
    <3>1. CASE Publish(t) \/ Return(t)
      <4>1. call'[t].left = {} /\ call'[t].gone \in {Gone, {}}
        BY <2>4, <3>1 DEF Publish, Return, Idle
      <4>. QED
        BY <4>1
    <3>2. CASE Collect(t)
      <4>. DEFINE matching == {s \in subs : Matches(s.filter, call[t].event)}
      <4>. DEFINE silent == call[t].gone \cap {s.owner : s \in matching}
      <4>1. call' = [call EXCEPT ![t].left = matching, ![t].gone = silent]
        BY <3>2 DEF Collect
      <4>0. silent \subseteq call[t].gone
        OBVIOUS
      <4>. HIDE DEF matching, silent
      <4>2. call'[t].left = matching /\ call'[t].gone \subseteq call[t].gone
        BY <2>4, <4>0, <4>1 DEF Calls
      <4>3. \A s \in matching : s.owner \notin Gone
        BY OnTheBus DEF matching
      <4>. QED
        BY <2>4, <4>2, <4>3
    <3>3. CASE RunHandler(t) \/ StartHook(t)
      <4>1. PICK s : call' = [call EXCEPT ![t].left = call[t].left \ {s}]
        BY <3>3 DEF RunHandler, AfterPanic, StartHook
      <4>2. call'[t].left \subseteq call[t].left /\ call'[t].gone = call[t].gone
        BY <2>4, <4>1 DEF Calls
      <4>. QED
        BY <2>4, <4>2
    <3>4. CASE RunHook(t)
      BY <2>4, <3>4 DEF RunHook
    <3>. QED
      BY <1>2, <3>1, <3>2, <3>3, <3>4 DEF PublisherStep
  <2>. QED
    BY <2>3, <2>5, <2>6 DEF SilentInv, GoneStaySilent
<1>. QED
  BY <1>1, <1>2 DEF Next, HostAction

LEMMA PluginInvariant == Spec => [](HostInv /\ HookInv)
<1>1. Init => HostInv /\ HookInv
  BY HostStarts
<1>2. HostInv /\ HookInv /\ [Next]_vars => HostInv' /\ HookInv'
  <2>. SUFFICES ASSUME HostInv, HookInv, [Next]_vars
                PROVE  HostInv' /\ HookInv'
    OBVIOUS
  <2>1. CASE HostAction
    BY <2>1, HostKeeps, HostKeepsList, HostKeepsHooks DEF HostInv
  <2>2. ASSUME NEW t \in Publishers, Publish(t) \/ PublisherStep(t)
        PROVE  HostInv' /\ HookInv'
    BY <2>2, PublishKeeps, CollectKeeps, RunHandlerKeeps, StartHookKeeps, RunHookKeeps,
       ReturnKeeps DEF PublisherStep
  <2>3. CASE UNCHANGED vars
    <3>1. /\ UNCHANGED <<nextId, subs, plugins, contexts, seen, life, host>> /\ HostOnly
      BY <2>3 DEF vars, HostOnly
    <3>2. HostInv'
      BY <3>1, SubscriptionsChange DEF HostInv, Types, TypeOK
    <3>3. ListKept
      BY <3>1 DEF ListKept, Loaded, At
    <3>. QED
      BY <3>1, <3>2, <3>3, HostKeepsHooks DEF HostInv
  <2>. QED
    BY <2>1, <2>2, <2>3 DEF Next, HostAction
<1>. QED
  BY <1>1, <1>2, PTL DEF Spec

LEMMA SilentInvariant == Spec => [](FilesInv /\ SilentInv)
<1>1. Init => FilesInv /\ SilentInv
  BY DEF Init, FilesInv, SilentInv, GoneStaySilent, Idle, At
<1>2. FilesInv /\ SilentInv /\ HostInv /\ HookInv /\ [Next]_vars => FilesInv' /\ SilentInv'
  BY FilesKept, SilentKept
<1>. QED
  BY <1>1, <1>2, PluginInvariant, PTL DEF Spec

\* Whatever the plugins turn out to be, and whatever the publishers do meanwhile,
\* load_dir of plugin/registry.rs loads of the usable files the first one of every
\* id and nothing else; between loads and unloads nobody has a subscription who is
\* not loaded; unload_all goes through the plugins from the last to the first; and
\* a publish calls no handler of who was gone when it began.  A publish that began
\* before may still do so.
THEOREM RegistryIsSound == Spec => []RegistryHolds
<1>1. HostInv /\ SilentInv => RegistryHolds
  <2>. SUFFICES ASSUME HostInv, SilentInv
                PROVE  RegistryHolds
    OBVIOUS
  <2>0. Types /\ RegistryInv /\ LifeInv /\ BusInv
    BY DEF HostInv
  <2>1. TypeOK /\ ShutdownInReverse
    BY <2>0 DEF Types, LifeInv
  <2>2. ASSUME At("loaded")
        PROVE  plugins = contexts /\ Range(plugins) = {f \in Files : IsFirst(f)} /\ Sorted
    <3>1. Registered(Len(Dir)) /\ Sorted
      BY <2>0, <2>2 DEF RegistryInv
    <3>2. \A g \in Files : Place(g) <= Len(Dir)
      BY DirPlaces
    <3>3. seen \subseteq Files
      BY <2>1 DEF TypeOK
    <3>4. ASSUME NEW f \in seen PROVE IsFirst(f)
      <4>1. fate[f] = "fine"
        BY <3>1 DEF Registered
      <4>2. ASSUME NEW g \in Files, fate[g] = "fine", IdOf[g] = IdOf[f]
            PROVE  Place(f) <= Place(g)
        <5>1. PICK h \in seen : IdOf[h] = IdOf[g] /\ Place(h) <= Place(g)
          BY <3>1, <3>2, <4>2 DEF Registered
        <5>2. h = f
          BY <3>1, <4>2, <5>1 DEF Registered
        <5>. QED
          BY <5>1, <5>2
      <4>. QED
        BY <4>1, <4>2 DEF IsFirst
    <3>5. ASSUME NEW f \in Files, IsFirst(f) PROVE f \in seen
      <4>1. PICK h \in seen : IdOf[h] = IdOf[f] /\ Place(h) <= Place(f)
        BY <3>1, <3>2, <3>5 DEF Registered, IsFirst
      <4>2. Place(f) <= Place(h)
        BY <3>1, <3>3, <3>5, <4>1 DEF Registered, IsFirst
      <4>3. Place(f) = Place(h)
        BY <3>3, <4>1, <4>2, DirPlaces
      <4>4. f = h
        BY <3>3, <4>3, DirPlaces
      <4>. QED
        BY <4>4
    <3>. QED
      BY <3>1, <3>3, <3>4, <3>5 DEF Registered
  <2>3. FirstOfEachId
    BY <2>2 DEF FirstOfEachId, Sorted
  <2>4. SubscribersAreLoaded
    <3>1. At("end") => Known = {}
      BY <2>0, EmptyRange DEF RegistryInv, Known, At
    <3>2. At("load") \/ At("loaded") => Known \subseteq Range(plugins) \cup {Hooks}
      BY DEF Known, At
    <3>3. ~ (At("end") /\ (At("load") \/ At("loaded")))
      BY DEF At
    <3>. QED
      BY <2>0, <3>1, <3>2, <3>3 DEF SubscribersAreLoaded, BusInv
  <2>. QED
    BY <2>1, <2>3, <2>4 DEF RegistryHolds, SilentInv
<1>. QED
  BY <1>1, PluginInvariant, SilentInvariant, PTL

\* For any number of publishers, plugins and events: when every publish has
\* returned, the contexts agree on every field the hooks of plugin/registry.rs
\* update, and on the last value some publisher has told them.
THEOREM ContextsAreCurrent == Spec => []ContextsCurrent
<1>1. HookInv => ContextsCurrent
  <2>. SUFFICES ASSUME HookInv, At("loaded"), \A t \in Publishers : call[t] = Idle,
                       NEW k \in Kinds
                PROVE  LET heard == {announced[t][k] : t \in Publishers} \ {None}
                       IN \E v \in (IF heard = {} THEN {None} ELSE heard) :
                            \A f \in Range(contexts) : ctx[f][k] = v
    BY DEF ContextsCurrent
  <2>1. \A t \in Publishers : ~ Pending(t) /\ listLock.by # t
    BY HostAssumption DEF HookInv, CallInv, Pending, Idle
  <2>2. PICK v \in Values[k] \cup {None} : Agrees(k, v)
    BY <2>1 DEF HookInv, AgreeInv
  <2>3. \/ v # None /\ \E t \in Publishers : announced[t][k] = v
        \/ v = None /\ \A t \in Publishers : announced[t][k] = None
    BY <2>1, <2>2 DEF Agrees
  <2>4. \A f \in Range(contexts) : ctx[f][k] = v
    BY <2>2 DEF Agrees
  <2>. DEFINE heard == {announced[t][k] : t \in Publishers} \ {None}
  <2>5. v \in (IF heard = {} THEN {None} ELSE heard)
    BY <2>3
  <2>. QED
    BY <2>4, <2>5
<1>. QED
  BY <1>1, PluginInvariant, PTL
=============================================================================
