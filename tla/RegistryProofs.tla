--------------------------- MODULE RegistryProofs ---------------------------
(***************************************************************************)
(* What holds of the registry for every module directory and every set of  *)
(* modules: the types, who owns an option, and how often init runs.        *)
(***************************************************************************)
EXTENDS Registry, FiniteSetTheorems, SequenceTheorems, TLAPS

Run(f) == started[f] > 0

\* The options in use are those of pdsh and of the modules whose init ran, and those
\* modules share none; a module is active when its init succeeded.
Owners ==
  /\ Builtin[personality] \subseteq pdsh_options
  /\ \A c \in pdsh_options \ Builtin[personality] : \E f \in Files : Run(f) /\ c \in Letters(f)
  /\ \A f \in Files : Run(f) => Letters(f) \subseteq pdsh_options \ Builtin[personality]
  /\ \A f, g \in Files : Run(f) /\ Run(g) /\ f # g => Letters(f) \cap Letters(g) = {}
  /\ \A f \in Files : f \in initialized <=> Run(f) /\ Module[f].starts
  /\ \A f \in Files : Letters(f) # {} => started[f] <= 1

\* What is active is on the list, from the first init to mod_exit.
Listed ==
  /\ phase \in {"load", "failed"} => initialized = {}
  /\ phase \in {"named", "rest", "ready"} => initialized \subseteq Members
  /\ phase = "rest" => ToSet(todo) \subseteq Members
  /\ phase = "done" => exited = initialized

IInv == TypeOK /\ Owners /\ Listed

\* One module of each type and name is listed, wherever it is.
OneOfEach == \A j, k \in DOMAIN module_list : SameModule(module_list[j], module_list[k]) => j = k

\* Of the files read so far, what is listed is at least as strong as what is not; the
\* list is sorted before anything is initialized.
Selected ==
  /\ unread \subseteq dir.files
  /\ Members \subseteq Usable
  /\ Unambiguous /\ phase # "done" => \A f \in Usable \ unread : \E g \in Members :
       SameModule(f, g) /\ Module[g].priority >= Module[f].priority
  /\ phase \in {"named", "rest", "ready"} => unread = {} /\ InOrder(module_list)

\* The loop goes through the whole list, after all the names of -M.
Progress ==
  /\ phase \in {"load", "failed"} => named = 0
  /\ phase = "rest" => /\ Len(todo) <= Len(module_list)
                       /\ \A i \in 1..Len(todo) : todo[i] = module_list[Len(module_list) - Len(todo) + i]
  /\ phase \in {"rest", "ready"} => named = Len(misc_modules)

\* A module has had its turn.
Visited(f) ==
  \/ \E k \in Asked(f) : k <= named
  \/ phase = "rest" /\ \E i \in 1..(Len(module_list) - Len(todo)) : module_list[i] = f
  \/ phase = "ready"

\* Its init ran then if nobody before it had one of its options, and not before.
Turns ==
  /\ phase \in {"load", "failed"} => \A f \in Files : ~Run(f)
  /\ phase \in {"named", "rest", "ready"} => \A f \in Files : Run(f) => f \in Members
  /\ Unambiguous /\ phase \in {"named", "rest", "ready"} => \A f \in Members :
       (Visited(f) => (Run(f) <=> GetsItsOptions(f))) /\ (~Visited(f) => ~Run(f))

OrderInv == OneOfEach /\ Selected /\ Progress /\ Turns

\* _mod_delete leaves a list of modules.
LEMMA OthersType ==
  ASSUME module_list \in Seq(Files), NEW f
  PROVE  /\ Others(f) \in Seq(Files) /\ Len(Others(f)) <= Len(module_list)
<1>1. CASE ~\E g \in Members : SameModule(f, g)
  BY <1>1 DEF Others
<1>2. CASE \E g \in Members : SameModule(f, g)
  <2> DEFINE k == CHOOSE i \in DOMAIN module_list : SameModule(f, module_list[i])
  <2>1. \E i \in DOMAIN module_list : SameModule(f, module_list[i])
    BY <1>2 DEF Members, ToSet
  <2>2. k \in DOMAIN module_list
    BY <2>1
  <2>3. k \in 1..Len(module_list) /\ Len(module_list) \in Nat
    BY <2>2, LenProperties
  <2> HIDE DEF k
  <2> DEFINE a == SubSeq(module_list, 1, k - 1)
             b == SubSeq(module_list, k + 1, Len(module_list))
  <2>4. a \in Seq(Files) /\ Len(a) = k - 1
    BY <2>3, SubSeqProperties
  <2>5. b \in Seq(Files) /\ Len(b) = Len(module_list) - k
    BY <2>3, SubSeqProperties
  <2>6. a \o b \in Seq(Files) /\ Len(a \o b) = Len(a) + Len(b)
    BY <2>4, <2>5, ConcatProperties
  <2>7. Others(f) = a \o b
    BY <1>2 DEF Others, RemoveAt, k
  <2> HIDE DEF a, b
  <2>8. Len(a \o b) <= Len(module_list)
    BY <2>3, <2>4, <2>5, <2>6
  <2> QED BY <2>6, <2>7, <2>8
<1>3. Len(module_list) \in Nat
  BY LenProperties
<1> QED BY <1>1, <1>2

\* A module in the place of the one it replaces.
LEMMA RegisteredType ==
  ASSUME module_list \in Seq(Files), NEW f \in Files
  PROVE  /\ Registered(f) \in Seq(Files)
         /\ Len(Registered(f)) <= Len(module_list) + (IF Stronger(f) /\ Accepted(f) THEN 1 ELSE 0)
<1>1. Others(f) \in Seq(Files) /\ Len(Others(f)) <= Len(module_list)
  BY OthersType
<1>2. <<f>> \in Seq(Files) /\ Len(<<f>>) = 1
  OBVIOUS
<1>3. <<f>> \o Others(f) \in Seq(Files) /\ Len(<<f>> \o Others(f)) = 1 + Len(Others(f))
  BY <1>1, <1>2, ConcatProperties
<1>4. Len(module_list) \in Nat /\ Len(Others(f)) \in Nat
  BY <1>1, LenProperties
<1> QED BY <1>1, <1>3, <1>4 DEF Registered

\* One module's turn: its options are registered and its init runs, or nothing happens.
LEMMA Turn ==
  ASSUME IInv, NEW f \in Files, Initialize(f), UNCHANGED Given
  PROVE  /\ Owners' /\ started' \in [Files -> Nat]
         /\ initialized' \subseteq initialized \cup {f}
<1> USE DEF IInv, TypeOK, Given
<1>0. \A g \in Files : Letters(g)' = Letters(g)
  BY DEF Letters
<1>1. CASE ~OptionsFree(f)
  BY <1>0, <1>1 DEF Initialize, Initing, Owners, Run
<1>2. CASE OptionsFree(f)
  <2>1. /\ pdsh_options' = pdsh_options \cup Letters(f)
        /\ started' = [started EXCEPT ![f] = @ + 1]
        /\ initialized' = IF Module[f].starts THEN initialized \cup {f} ELSE initialized
        /\ Letters(f) \cap pdsh_options = {}
    BY <1>2 DEF Initialize, OptionsFree
  <2>2. /\ started' \in [Files -> Nat] /\ started'[f] = started[f] + 1
        /\ \A g \in Files : g # f => started'[g] = started[g]
    BY <2>1
  <2>3. /\ Run(f)' /\ \A g \in Files : g # f => (Run(g)' <=> Run(g))
        /\ \A g \in Files : Run(g) => Run(g)'
    <3>1. \A g \in Files : started[g] \in Nat
      BY DEF TypeOK
    <3>2. Run(f)' /\ \A g \in Files : g # f => (Run(g)' <=> Run(g))
      BY <2>2, <3>1 DEF Run
    <3> QED BY <3>2
  <2>4. Letters(f) # {} => started[f] = 0
    <3>1. started[f] \in Nat /\ (Run(f) => Letters(f) \subseteq pdsh_options)
      BY DEF Owners, TypeOK
    <3> QED BY <2>1, <3>1 DEF Run
  <2>5. Builtin[personality]' \subseteq pdsh_options'
    BY <2>1 DEF Owners
  <2>6. \A c \in pdsh_options' \ Builtin[personality]' : \E g \in Files : Run(g)' /\ c \in Letters(g)'
    BY <1>0, <2>1, <2>3 DEF Owners
  <2>7. \A g \in Files : Run(g)' => Letters(g)' \subseteq pdsh_options' \ Builtin[personality]'
    BY <1>0, <2>1, <2>3 DEF Owners
  <2>8. ASSUME NEW g \in Files, NEW h \in Files, Run(g)', Run(h)', g # h
        PROVE  Letters(g)' \cap Letters(h)' = {}
    <3>1. CASE g # f /\ h # f
      BY <1>0, <2>3, <2>8, <3>1 DEF Owners
    <3>2. CASE g = f \/ h = f
      <4>1. PICK x \in {g, h} : x # f /\ {g, h} = {f, x}
        BY <2>8, <3>2
      <4>2. x \in Files /\ Run(x)
        BY <2>3, <2>8, <4>1
      <4>3. Letters(x) \subseteq pdsh_options
        BY <4>2 DEF Owners
      <4>4. Letters(x) \cap Letters(f) = {}
        BY <2>1, <4>3
      <4> QED BY <1>0, <4>1, <4>4
    <3> QED BY <3>1, <3>2
  <2>9. \A g \in Files : g \in initialized' <=> Run(g)' /\ Module[g].starts
    BY <2>1, <2>3 DEF Owners
  <2>10. \A g \in Files : Letters(g)' # {} => started'[g] <= 1
    <3>1. \A g \in Files : Letters(g) # {} => started[g] <= 1
      BY DEF Owners
    <3>3. ASSUME NEW g \in Files, Letters(g)' # {} PROVE started'[g] <= 1
      <4>1. CASE g = f
        <5>1. Letters(f) # {}
          BY <1>0, <3>3, <4>1
        <5> QED BY <2>2, <2>4, <4>1, <5>1
      <4>2. CASE g # f
        <5>1. Letters(g) # {} /\ started'[g] = started[g]
          BY <1>0, <2>2, <3>3, <4>2
        <5> QED BY <3>1, <5>1
      <4> QED BY <4>1, <4>2
    <3> QED BY <3>3
  <2> QED BY <2>1, <2>2, <2>5, <2>6, <2>7, <2>8, <2>9, <2>10 DEF Owners
<1> QED BY <1>1, <1>2

\* Nothing of what Owners speaks of changes.
LEMMA Quiet == Owners /\ UNCHANGED <<Given, Initing>> => Owners'
  BY DEF Owners, Run, Letters, Given, Initing

LEMMA InitInv == Init => IInv
<1> SUFFICES ASSUME Init PROVE IInv
  OBVIOUS
<1>1. misc_modules \in Seq(Int)
  BY RegistryAssumption DEF Init
<1>2. TypeOK
  <2>1. Len(misc_modules) \in Nat
    BY <1>1, LenProperties
  <2>2. <<>> \in Seq(Files) /\ Len(<<>>) = 0
    BY EmptySeq
  <2> QED BY <2>1, <2>2, RegistryAssumption DEF Init, TypeOK
<1>3. Owners
  BY DEF Init, Owners, Run
<1>4. Listed
  BY DEF Init, Listed
<1> QED BY <1>2, <1>3, <1>4 DEF IInv

LEMMA StepInv == IInv /\ [Next]_vars => IInv'
<1> SUFFICES ASSUME IInv, [Next]_vars PROVE IInv'
  OBVIOUS
<1> USE DEF IInv
<1>0. /\ module_list \in Seq(Files) /\ Len(module_list) \in Nat /\ count \in Nat
      /\ misc_modules \in Seq(Int) /\ Len(misc_modules) \in Nat
  BY RegistryAssumption, LenProperties DEF TypeOK
<1>1. ASSUME NEW f \in Files, Load(f) PROVE IInv'
  <2>1. /\ Registered(f) \in Seq(Files)
        /\ Len(Registered(f)) <= Len(module_list) + (IF Stronger(f) /\ Accepted(f) THEN 1 ELSE 0)
        /\ Len(Registered(f)) \in Nat
    BY <1>0, RegisteredType, LenProperties
  <2>2. CASE Loadable(f)
    <3>1. module_list' \in Seq(Files) /\ Len(module_list') <= count' /\ count' \in Nat
      <4>1. CASE Stronger(f) /\ Accepted(f)
        <5>1. module_list' = Registered(f) /\ count' = count + 1
          BY <1>1, <2>2, <4>1 DEF Load
        <5> QED BY <1>0, <2>1, <4>1, <5>1 DEF TypeOK
      <4>2. CASE ~(Stronger(f) /\ Accepted(f))
        <5>1. module_list' = Registered(f) /\ count' = count
          BY <1>1, <2>2, <4>2 DEF Load
        <5> QED BY <1>0, <2>1, <4>2, <5>1 DEF TypeOK
      <4> QED BY <4>1, <4>2
    <3>2. TypeOK'
      BY <1>1, <3>1 DEF Load, TypeOK, Given, Initing
    <3> QED BY <1>1, <3>2, Quiet DEF Load, Listed, Initing
  <2>3. CASE ~Loadable(f)
    <3>1. TypeOK'
      BY <1>1, <2>3 DEF Load, TypeOK, Given, Initing
    <3> QED BY <1>1, <3>1, Quiet DEF Load, Listed, Initing
  <2> QED BY <2>2, <2>3
<1>2. CASE NoModules
  <2>1. TypeOK'
    BY <1>2 DEF NoModules, TypeOK, Given, Initing, Loading
  <2> QED BY <1>2, <2>1, Quiet DEF NoModules, Listed, Initing
<1>3. CASE SortModules
  <2>1. PICK t \in [DOMAIN module_list -> Members] : SortsTo(module_list, t) /\ module_list' = t
    BY <1>3 DEF SortModules
  <2>2. DOMAIN module_list = 1..Len(module_list) /\ Members \subseteq Files
    BY <1>0, LenProperties DEF Members, ToSet
  <2>3. t \in [1..Len(module_list) -> Files]
    BY <2>1, <2>2
  <2>4. t \in Seq(Files) /\ Len(t) = Len(module_list)
    BY <1>0, <2>3
  <2>5. TypeOK'
    BY <1>3, <2>1, <2>4 DEF SortModules, TypeOK, Given, Initing
  <2> QED BY <1>3, <2>5, Quiet DEF SortModules, Listed, Initing
<1>4. CASE InitializeByName
  <2> DEFINE name == misc_modules[named + 1]
  <2>1. CASE \E k \in DOMAIN module_list : FirstMisc(k, name) /\ Initialize(module_list[k])
    <3>1. PICK k \in DOMAIN module_list : Initialize(module_list[k])
      BY <2>1
    <3>2. module_list[k] \in Files /\ module_list[k] \in Members
      BY <1>0, LenProperties DEF Members, ToSet
    <3>3. UNCHANGED <<Given, phase, Loading, todo, exited>> /\ phase = "named"
      BY <1>4 DEF InitializeByName
    <3>4. /\ Owners' /\ started' \in [Files -> Nat]
          /\ initialized' \subseteq initialized \cup {module_list[k]}
      BY <3>1, <3>2, <3>3, Turn
    <3>5. TypeOK'
      <4>1. named' \in 0..Len(misc_modules)
        BY <1>0, <1>4 DEF InitializeByName, TypeOK
      <4>2. initialized' \subseteq Files /\ exited' \subseteq Files
        BY <1>0, <3>2, <3>3, <3>4 DEF TypeOK
      <4>3. UNCHANGED <<personality, dir, misc_modules, phase, unread, count, module_list, todo>>
        BY <3>3 DEF Given, Loading
      <4> QED
        BY <1>0, <3>4, <4>1, <4>2, <4>3 DEF TypeOK
    <3>6. Listed'
      BY <3>2, <3>3, <3>4 DEF Listed, Loading, Members
    <3> QED BY <3>4, <3>5, <3>6
  <2>2. CASE UNCHANGED Initing
    <3>1. TypeOK'
      BY <1>0, <1>4, <2>2 DEF InitializeByName, TypeOK, Given, Loading, Initing
    <3> QED BY <1>4, <2>2, <3>1, Quiet DEF InitializeByName, Listed, Initing, Loading, Members
  <2> QED BY <1>4, <2>1, <2>2 DEF InitializeByName
<1>5. CASE NamedDone
  <2>1. TypeOK'
    BY <1>5 DEF NamedDone, TypeOK, Given, Loading, Initing
  <2> QED BY <1>5, <2>1, Quiet DEF NamedDone, Listed, Initing, Loading, Members
<1>6. CASE InitializeRest
  <2> DEFINE f == Head(todo)
  <2>1. /\ todo \in Seq(Files) /\ todo # <<>> /\ Initialize(f) /\ todo' = Tail(todo)
        /\ UNCHANGED <<Given, phase, Loading, named, exited>> /\ phase = "rest"
    BY <1>6 DEF InitializeRest, TypeOK
  <2>2. f = todo[1] /\ 1 \in DOMAIN todo /\ f \in Files
    BY <2>1, HeadTailProperties, LenProperties, EmptySeq
  <2>3. f \in Members
    BY <2>1, <2>2 DEF Listed, ToSet
  <2>4. todo' \in Seq(Files) /\ ToSet(todo') \subseteq ToSet(todo)
    BY <2>1, HeadTailProperties, LenProperties DEF ToSet
  <2> HIDE DEF f
  <2>5. Owners' /\ started' \in [Files -> Nat] /\ initialized' \subseteq initialized \cup {f}
    BY <2>1, <2>2, Turn
  <2>6. TypeOK'
    BY <1>0, <2>1, <2>2, <2>4, <2>5 DEF TypeOK, Given, Loading
  <2>7. Listed'
    BY <2>1, <2>3, <2>4, <2>5 DEF Listed, Loading, Members
  <2> QED BY <2>5, <2>6, <2>7
<1>7. CASE RestDone
  <2>1. TypeOK'
    BY <1>7 DEF RestDone, TypeOK, Given, Loading, Initing
  <2> QED BY <1>7, <2>1, Quiet DEF RestDone, Listed, Initing, Loading, Members
<1>8. CASE ExitModules
  <2>1. Len(<<>>) <= count /\ <<>> \in Seq(Files)
    BY <1>0, EmptySeq
  <2>2. TypeOK'
    BY <1>8, <2>1 DEF ExitModules, TypeOK, Given, Initing
  <2>3. exited' = initialized
    BY <1>8 DEF ExitModules, Listed
  <2> QED BY <1>8, <2>2, <2>3, Quiet DEF ExitModules, Listed, Initing
<1>9. CASE UNCHANGED vars
  <2>1. TypeOK'
    BY <1>9 DEF vars, TypeOK
  <2>2. UNCHANGED <<Given, Initing>>
    BY <1>9 DEF vars, Given, Initing
  <2> QED BY <1>9, <2>1, <2>2, Quiet DEF vars, Listed, Members
<1> QED BY <1>1, <1>2, <1>3, <1>4, <1>5, <1>6, <1>7, <1>8, <1>9 DEF Next

\* All of it together, for every directory, every set of modules and every -M.
THEOREM Inductive == Spec => []IInv
BY InitInv, StepInv, PTL DEF Spec

\* Every variable of the registry keeps its type.
THEOREM TypeCorrect == Spec => []TypeOK
<1>1. IInv => TypeOK
  BY DEF IInv
<1> QED BY <1>1, Inductive, PTL

\* opt_register gives an option to one module only, and never one of pdsh's own.
THEOREM OptionsOwned == Spec => []OptionsServed
<1>1. IInv => OptionsServed
  BY DEF IInv, TypeOK, Owners, Run, OptionsServed
<1> QED BY <1>1, Inductive, PTL

\* A module with an option runs init once at most, and mod_exit undoes what succeeded.
THEOREM InitRunsOnce == Spec => []InitOnce
<1>1. IInv => InitOnce
  BY DEF IInv, TypeOK, Owners, Run, Listed, InitOnce
<1> QED BY <1>1, Inductive, PTL

-----------------------------------------------------------------------------
\* A sequence without its k-th element.
LEMMA Removal ==
  ASSUME NEW S, NEW s \in Seq(S), NEW k \in 1..Len(s)
  PROVE  /\ RemoveAt(s, k) \in Seq(S) /\ Len(RemoveAt(s, k)) = Len(s) - 1
         /\ \A i \in 1..(Len(s) - 1) : RemoveAt(s, k)[i] = IF i < k THEN s[i] ELSE s[i + 1]
<1> DEFINE a == SubSeq(s, 1, k - 1)
           b == SubSeq(s, k + 1, Len(s))
<1>1. Len(s) \in Nat /\ \A i \in 1..Len(s) : s[i] \in S
  BY LenProperties
<1>2. /\ a \in Seq(S) /\ Len(a) = k - 1
      /\ \A i \in 1..(k - 1) : a[i] = s[i]
  BY <1>1, SubSeqProperties
<1>3. /\ b \in Seq(S) /\ Len(b) = Len(s) - k
      /\ \A i \in 1..(Len(s) - k) : b[i] = s[k + i]
  BY <1>1, SubSeqProperties
<1>4. RemoveAt(s, k) = a \o b
  BY DEF RemoveAt
<1> HIDE DEF a, b
<1>5. /\ a \o b \in Seq(S) /\ Len(a \o b) = Len(a) + Len(b)
      /\ \A i \in 1..(Len(a) + Len(b)) : (a \o b)[i] = IF i <= Len(a) THEN a[i] ELSE b[i - Len(a)]
  BY <1>2, <1>3, ConcatProperties
<1>6. ASSUME NEW i \in 1..(Len(s) - 1) PROVE (a \o b)[i] = IF i < k THEN s[i] ELSE s[i + 1]
  <2>1. CASE i < k
    BY <1>1, <1>2, <1>3, <1>5, <2>1
  <2>2. CASE ~(i < k)
    <3>1. i - Len(a) \in 1..(Len(s) - k) /\ k + (i - Len(a)) = i + 1
      BY <1>1, <1>2, <2>2
    <3>2. (a \o b)[i] = b[i - Len(a)]
      BY <1>1, <1>2, <1>3, <1>5, <2>2
    <3>3. b[i - Len(a)] = s[k + (i - Len(a))]
      BY <1>3, <3>1
    <3> QED BY <2>2, <3>1, <3>2, <3>3
  <2> QED BY <2>1, <2>2
<1>7. Len(a \o b) = Len(s) - 1
  BY <1>1, <1>2, <1>3, <1>5
<1>8. \A i \in 1..(Len(s) - 1) : (a \o b)[i] = IF i < k THEN s[i] ELSE s[i + 1]
  BY <1>6
<1> QED BY <1>4, <1>5, <1>7, <1>8, Zenon

\* _mod_delete takes one module off the list, the one of the same type and name.
LEMMA OthersLeft ==
  ASSUME module_list \in Seq(Files), OneOfEach, NEW f \in Files
  PROVE  /\ ToSet(Others(f)) = {g \in Members : ~SameModule(f, g)}
         /\ \A j, k \in DOMAIN Others(f) : SameModule(Others(f)[j], Others(f)[k]) => j = k
<1>0. /\ Len(module_list) \in Nat /\ DOMAIN module_list = 1..Len(module_list)
  BY LenProperties
<1>1. CASE ~\E g \in Members : SameModule(f, g)
  <2>1. Others(f) = module_list
    BY <1>1 DEF Others
  <2>2. Members = {g \in Members : ~SameModule(f, g)}
    BY <1>1
  <2> QED BY <2>1, <2>2 DEF OneOfEach, Members
<1>2. CASE \E g \in Members : SameModule(f, g)
  <2> DEFINE k == CHOOSE i \in DOMAIN module_list : SameModule(f, module_list[i])
             r == RemoveAt(module_list, k)
  <2>1. \E i \in DOMAIN module_list : SameModule(f, module_list[i])
    BY <1>2 DEF Members, ToSet
  <2>2. k \in DOMAIN module_list /\ SameModule(f, module_list[k])
    BY <2>1
  <2>3. k \in 1..Len(module_list)
    BY <1>0, <2>2
  <2>4. Others(f) = r
    BY <1>2 DEF Others
  <2> HIDE DEF k
  <2>5. /\ r \in Seq(Files) /\ Len(r) = Len(module_list) - 1
        /\ \A i \in 1..(Len(module_list) - 1) :
             r[i] = IF i < k THEN module_list[i] ELSE module_list[i + 1]
    BY <2>3, Removal
  <2> HIDE DEF r
  <2>6. DOMAIN r = 1..(Len(module_list) - 1)
    BY <2>5, LenProperties
  <2>7. ASSUME NEW i \in DOMAIN r
        PROVE  \E j \in DOMAIN module_list : j # k /\ r[i] = module_list[j]
                 /\ j = (IF i < k THEN i ELSE i + 1)
    BY <1>0, <2>3, <2>5, <2>6, <2>7
  <2>8. ASSUME NEW j \in DOMAIN module_list, j # k
        PROVE  \E i \in DOMAIN r : r[i] = module_list[j]
    <3>1. CASE j < k
      <4>1. j \in DOMAIN r /\ r[j] = module_list[j]
        BY <1>0, <2>3, <2>5, <2>6, <3>1
      <4> QED BY <4>1
    <3>2. CASE ~(j < k)
      <4>1. j - 1 \in DOMAIN r /\ ~(j - 1 < k) /\ (j - 1) + 1 = j
        BY <1>0, <2>3, <2>6, <2>8, <3>2
      <4>2. r[j - 1] = module_list[(j - 1) + 1]
        BY <2>5, <2>6, <4>1
      <4> QED BY <4>1, <4>2
    <3> QED BY <3>1, <3>2
  <2>9. \A j \in DOMAIN module_list : SameModule(f, module_list[j]) <=> j = k
    BY <2>2 DEF SameModule, OneOfEach
  <2>10. ToSet(r) \subseteq {g \in Members : ~SameModule(f, g)}
    BY <2>7, <2>9 DEF ToSet, Members
  <2>11. {g \in Members : ~SameModule(f, g)} \subseteq ToSet(r)
    BY <2>2, <2>8 DEF ToSet, Members
  <2>12. ASSUME NEW i \in DOMAIN r, NEW j \in DOMAIN r, SameModule(r[i], r[j]) PROVE i = j
    <3>1. PICK i1 \in DOMAIN module_list : r[i] = module_list[i1] /\ i1 = (IF i < k THEN i ELSE i + 1)
      BY <2>7
    <3>2. PICK j1 \in DOMAIN module_list : r[j] = module_list[j1] /\ j1 = (IF j < k THEN j ELSE j + 1)
      BY <2>7
    <3>3. i1 = j1
      BY <2>12, <3>1, <3>2 DEF OneOfEach
    <3> QED BY <1>0, <2>3, <2>6, <3>1, <3>2, <3>3
  <2> QED BY <2>4, <2>10, <2>11, <2>12
<1> QED BY <1>1, <1>2

\* What _mod_register leaves: one of each, and the new module in place of a weaker one.
LEMMA RegisteredOne ==
  ASSUME module_list \in Seq(Files), OneOfEach, NEW f \in Files
  PROVE  /\ \A j, k \in DOMAIN Registered(f) : SameModule(Registered(f)[j], Registered(f)[k]) => j = k
         /\ ~Stronger(f) => Registered(f) = module_list
         /\ Stronger(f) /\ ~Accepted(f) => ToSet(Registered(f)) = {g \in Members : ~SameModule(f, g)}
         /\ Stronger(f) /\ Accepted(f) =>
              ToSet(Registered(f)) = {f} \cup {g \in Members : ~SameModule(f, g)}
<1> DEFINE o == Others(f)
<1>1. /\ ToSet(o) = {g \in Members : ~SameModule(f, g)}
      /\ \A j, k \in DOMAIN o : SameModule(o[j], o[k]) => j = k
  BY OthersLeft
<1>2. o \in Seq(Files)
  BY OthersType
<1>3. CASE ~Stronger(f)
  <2>1. Registered(f) = module_list
    BY <1>3 DEF Registered
  <2> QED BY <1>3, <2>1 DEF OneOfEach
<1>4. CASE Stronger(f) /\ ~Accepted(f)
  <2>1. Registered(f) = o
    BY <1>4 DEF Registered
  <2> QED BY <1>1, <1>4, <2>1
<1>5. CASE Stronger(f) /\ Accepted(f)
  <2> DEFINE r == <<f>> \o o
  <2>1. Registered(f) = r
    BY <1>5 DEF Registered
  <2> HIDE DEF o
  <2>2. Len(o) \in Nat /\ DOMAIN o = 1..Len(o)
    BY <1>2, LenProperties
  <2>3. <<f>> \in Seq(Files) /\ Len(<<f>>) = 1 /\ <<f>>[1] = f
    OBVIOUS
  <2>4. /\ r \in Seq(Files) /\ Len(r) = 1 + Len(o)
        /\ \A i \in 1..(1 + Len(o)) : r[i] = IF i <= 1 THEN <<f>>[i] ELSE o[i - 1]
    <3> HIDE DEF r
    <3>1. /\ <<f>> \o o \in Seq(Files) /\ Len(<<f>> \o o) = Len(<<f>>) + Len(o)
          /\ \A i \in 1..(Len(<<f>>) + Len(o)) :
               (<<f>> \o o)[i] = IF i <= Len(<<f>>) THEN <<f>>[i] ELSE o[i - Len(<<f>>)]
      BY <1>2, <2>3, ConcatProperties
    <3> QED BY <2>3, <3>1 DEF r
  <2> HIDE DEF r
  <2>5. DOMAIN r = 1..(1 + Len(o)) /\ r[1] = f
    BY <2>2, <2>3, <2>4, LenProperties
  <2>6. \A i \in DOMAIN r : i # 1 => i - 1 \in DOMAIN o /\ r[i] = o[i - 1]
    BY <2>2, <2>4, <2>5
  <2>7. \A i \in DOMAIN o : i + 1 \in DOMAIN r /\ r[i + 1] = o[i]
    <3> SUFFICES ASSUME NEW i \in DOMAIN o PROVE i + 1 \in DOMAIN r /\ r[i + 1] = o[i]
      OBVIOUS
    <3>1. i + 1 \in DOMAIN r /\ i + 1 # 1 /\ (i + 1) - 1 = i
      BY <2>2, <2>5
    <3> QED BY <2>6, <3>1
  <2>8. ToSet(r) = {f} \cup ToSet(o)
    <3>1. ToSet(r) \subseteq {f} \cup ToSet(o)
      BY <2>5, <2>6 DEF ToSet
    <3>2. ToSet(o) \subseteq ToSet(r)
      BY <2>7 DEF ToSet
    <3>3. f \in ToSet(r)
      BY <2>2, <2>5 DEF ToSet
    <3> QED BY <3>1, <3>2, <3>3
  <2>9. \A i \in DOMAIN o : ~SameModule(f, o[i]) /\ ~SameModule(o[i], f)
    BY <1>1 DEF ToSet, SameModule
  <2>10. ASSUME NEW j \in DOMAIN r, NEW k \in DOMAIN r, SameModule(r[j], r[k]) PROVE j = k
    <3>1. CASE j = 1 \/ k = 1
      BY <2>5, <2>6, <2>9, <2>10, <3>1
    <3>2. CASE j # 1 /\ k # 1
      <4>1. /\ j - 1 \in DOMAIN o /\ k - 1 \in DOMAIN o
            /\ SameModule(o[j - 1], o[k - 1])
        BY <2>6, <2>10, <3>2
      <4>2. j - 1 = k - 1
        BY <1>1, <4>1
      <4> QED BY <2>2, <2>5, <4>2
    <3> QED BY <3>1, <3>2
  <2> QED BY <1>1, <1>5, <2>1, <2>8, <2>10
<1> QED BY <1>3, <1>4, <1>5

-----------------------------------------------------------------------------
\* A list with one of each holds no file twice, and reordering keeps it so.
LEMMA SortedOne ==
  ASSUME module_list \in Seq(Files), OneOfEach,
         NEW t \in [DOMAIN module_list -> Members], SortsTo(module_list, t)
  PROVE  \A j, k \in DOMAIN t : SameModule(t[j], t[k]) => j = k
<1> DEFINE D == DOMAIN module_list
<1>1. Len(module_list) \in Nat /\ D = 1..Len(module_list)
  BY LenProperties
<1>2. IsFiniteSet(D)
  BY <1>1, FS_Interval
<1>3. module_list \in [D -> Members] /\ \A x \in Members : \E i \in D : module_list[i] = x
  BY LenProperties DEF Members, ToSet
<1>4. \A i, j \in D : module_list[i] = module_list[j] => i = j
  BY DEF OneOfEach, SameModule
<1>5. module_list \in Surjection(D, Members) /\ module_list \in Injection(D, Members)
  BY <1>3, <1>4 DEF Surjection, Injection, IsInjective
<1>6. Cardinality(D) = Cardinality(Members)
  BY <1>2, <1>5, FS_Surjection
<1>7. t \in Surjection(D, Members)
  <2>1. ToSet(t) = Members
    BY DEF SortsTo, Members
  <2>2. \A x \in Members : \E i \in D : t[i] = x
    BY <2>1 DEF ToSet
  <2> QED BY <2>2 DEF Surjection
<1>8. t \in Injection(D, Members)
  BY <1>2, <1>6, <1>7, FS_SurjSameCardinalityImpliesInj
<1>9. \A i, j \in D : t[i] = t[j] => i = j
  BY <1>8 DEF Injection, IsInjective
<1>10. ASSUME NEW j \in D, NEW k \in D, SameModule(t[j], t[k]) PROVE j = k
  <2>1. PICK j1 \in D : module_list[j1] = t[j]
    BY <1>3
  <2>2. PICK k1 \in D : module_list[k1] = t[k]
    BY <1>3
  <2>3. j1 = k1
    BY <1>10, <2>1, <2>2 DEF OneOfEach
  <2> QED BY <1>9, <2>1, <2>2, <2>3
<1>11. DOMAIN t = D
  OBVIOUS
<1> QED BY <1>10, <1>11

\* Among modules that can be told apart, one always comes first.
LEMMA SomeoneAhead ==
  ASSUME dir \in Dirs, Unambiguous, NEW f \in Usable, NEW g \in Usable, f # g
  PROVE  Ahead(f, g) \/ Ahead(g, f)
<1>1. f \in Files /\ g \in Files
  BY RegistryAssumption DEF Usable
<1>2. /\ Module[f].name \in Int /\ Module[f].priority \in Int
      /\ Module[g].name \in Int /\ Module[g].priority \in Int
  BY <1>1, RegistryAssumption
<1>3. Module[f].name = Module[g].name => Module[f].priority # Module[g].priority
  BY DEF Unambiguous, Usable
<1> QED BY <1>2, <1>3 DEF Ahead

\* Reading one more file.
LEMMA LoadKeeps ==
  ASSUME IInv, OrderInv, NEW f \in Files, Load(f)
  PROVE  OrderInv'
<1> USE DEF OrderInv
<1>0. /\ module_list \in Seq(Files) /\ phase = "load" /\ phase' = "load" /\ dir \in Dirs
      /\ dir.files \subseteq Files /\ f \in dir.files
  BY RegistryAssumption DEF IInv, TypeOK, Load, Selected
<1>1. /\ unread' = unread \ {f} /\ UNCHANGED <<personality, dir, misc_modules, named, started>>
  BY DEF Load, Given, Initing
<1>2. /\ \A g : Loadable(g)' = Loadable(g) /\ Accepted(g)' = Accepted(g)
      /\ Usable' = Usable /\ Unambiguous' = Unambiguous
  BY <1>1 DEF Loadable, Accepted, Usable, Unambiguous
<1>3. CASE ~Loadable(f)
  <2>1. module_list' = module_list /\ Members' = Members /\ f \notin Usable
    BY <1>3 DEF Load, Members, Usable
  <2>2. OneOfEach' /\ Progress'
    <3>1. OneOfEach'
      BY <2>1 DEF OneOfEach
    <3>2. Progress'
      BY <1>0, <1>1 DEF Progress
    <3> QED BY <3>1, <3>2
  <2>3. Selected'
    BY <1>0, <1>1, <1>2, <2>1 DEF Selected
  <2>4. Turns'
    BY <1>0, <1>1 DEF Turns, Run
  <2> QED BY <2>2, <2>3, <2>4
<1>4. CASE Loadable(f)
  <2>1. module_list' = Registered(f) /\ Members' = ToSet(Registered(f))
    BY <1>4 DEF Load, Members
  <2>2. /\ \A j, k \in DOMAIN Registered(f) : SameModule(Registered(f)[j], Registered(f)[k]) => j = k
        /\ ~Stronger(f) => Registered(f) = module_list
        /\ Stronger(f) /\ ~Accepted(f) => ToSet(Registered(f)) = {g \in Members : ~SameModule(f, g)}
        /\ Stronger(f) /\ Accepted(f) =>
             ToSet(Registered(f)) = {f} \cup {g \in Members : ~SameModule(f, g)}
    BY <1>0, RegisteredOne
  <2>3. OneOfEach'
    BY <2>1, <2>2 DEF OneOfEach
  <2>4. Progress' /\ Turns'
    BY <1>0, <1>1 DEF Progress, Turns, Run
  <2>5. f \in Usable <=> Accepted(f)
    BY <1>0, <1>4 DEF Usable
  <2>6. Members' \subseteq Members \cup {f} /\ (f \in Members' => f \in Members \/ Accepted(f))
    BY <2>1, <2>2 DEF Members
  <2>7. Members' \subseteq Usable'
    BY <1>2, <2>5, <2>6 DEF Selected
  <2>8. \A g \in Files : Module[g].priority \in Int
    BY RegistryAssumption
  <2>9. Usable \subseteq Files /\ Members \subseteq Files
    BY <1>0 DEF Usable, Selected
  <2>10. ASSUME Unambiguous, NEW g \in Usable, g \notin unread' 
         PROVE  \E h \in Members' : SameModule(g, h) /\ Module[h].priority >= Module[g].priority
    <3>1. CASE ~Stronger(f)
      <4>1. Members' = Members
        BY <2>1, <2>2, <3>1 DEF Members
      <4>2. CASE g # f
        BY <1>0, <1>1, <2>10, <4>1, <4>2 DEF Selected
      <4>3. CASE g = f
        <5>1. PICK h \in Members : SameModule(f, h) /\ ~(Module[f].priority > Module[h].priority)
          BY <3>1 DEF Stronger
        <5>2. Module[h].priority >= Module[f].priority
          BY <2>8, <2>9, <5>1
        <5> QED BY <4>1, <4>3, <5>1, <5>2
      <4> QED BY <4>2, <4>3
    <3>2. CASE Stronger(f) /\ Accepted(f)
      <4>1. Members' = {f} \cup {h \in Members : ~SameModule(f, h)}
        BY <2>1, <2>2, <3>2
      <4>2. CASE SameModule(f, g)
        <5>1. SameModule(g, f)
          BY <4>2 DEF SameModule
        <5>2. CASE g = f
          BY <2>8, <2>9, <4>1, <5>1, <5>2
        <5>3. CASE g # f
          <6>1. PICK h \in Members : SameModule(g, h) /\ Module[h].priority >= Module[g].priority
            BY <1>0, <1>1, <2>10, <5>3 DEF Selected
          <6>2. SameModule(f, h)
            BY <4>2, <6>1 DEF SameModule
          <6>3. Module[f].priority > Module[h].priority
            BY <3>2, <6>1, <6>2 DEF Stronger
          <6>4. Module[f].priority >= Module[g].priority
            BY <2>8, <2>9, <6>1, <6>3
          <6> QED BY <4>1, <5>1, <6>4
        <5> QED BY <5>2, <5>3
      <4>3. CASE ~SameModule(f, g)
        <5>1. g # f
          BY <4>3 DEF SameModule
        <5>2. PICK h \in Members : SameModule(g, h) /\ Module[h].priority >= Module[g].priority
          BY <1>0, <1>1, <2>10, <5>1 DEF Selected
        <5>3. ~SameModule(f, h)
          BY <4>3, <5>2 DEF SameModule
        <5> QED BY <4>1, <5>2, <5>3
      <4> QED BY <4>2, <4>3
    <3>3. CASE Stronger(f) /\ ~Accepted(f)
      <4>1. \A h \in Members : ~SameModule(f, h)
        <5> SUFFICES ASSUME NEW h \in Members, SameModule(f, h) PROVE FALSE
          OBVIOUS
        <5>1. Module[f].priority > Module[h].priority
          BY <3>3 DEF Stronger
        <5>2. h \in dir.files /\ Loadable(h) /\ Accepted(h) /\ h # f
          BY <3>3 DEF Selected, Usable
        <5> QED BY <1>0, <1>4, <2>10, <3>3, <5>1, <5>2 DEF Unambiguous
      <4>2. Members' = Members
        BY <2>1, <2>2, <3>3, <4>1
      <4>3. g # f
        BY <2>5, <3>3
      <4> QED BY <1>0, <1>1, <2>10, <4>2, <4>3 DEF Selected
    <3> QED BY <3>1, <3>2, <3>3
  <2>11. Selected'
    BY <1>0, <1>1, <1>2, <2>7, <2>10 DEF Selected
  <2> QED BY <2>3, <2>4, <2>11
<1> QED BY <1>3, <1>4

\* Nothing an option depends on changes but who has run.
LEMMA SameServed ==
  ASSUME UNCHANGED Given, UNCHANGED started, NEW f
  PROVE  (GetsItsOptions(f)' <=> GetsItsOptions(f)) /\ (Run(f)' <=> Run(f)) /\ Usable' = Usable
         /\ (Unambiguous' <=> Unambiguous) /\ Asked(f)' = Asked(f)
  BY DEF GetsItsOptions, Given, Run, Letters, Strongest, Usable, Loadable, Accepted, Before, Asked, Unambiguous

\* When every file is read, the strongest modules are the ones listed.
LEMMA StrongestListed ==
  ASSUME IInv, OrderInv, Unambiguous, unread = {}, phase # "done"
  PROVE  Members = Strongest
<1>1. Usable \subseteq Files /\ \A g \in Files : Module[g].priority \in Int
  BY RegistryAssumption DEF Usable, IInv, TypeOK
<1>2. \A f \in Usable : \E g \in Members : SameModule(f, g) /\ Module[g].priority >= Module[f].priority
  BY DEF OrderInv, Selected
<1>3. Members \subseteq Usable
  BY DEF OrderInv, Selected
<1>4. ASSUME NEW f \in Members, NEW g \in Members, SameModule(f, g) PROVE f = g
  BY <1>4 DEF OrderInv, OneOfEach, Members, ToSet
<1>5. ASSUME NEW f \in Members PROVE f \in Strongest
  <2>1. ASSUME NEW g \in Usable, SameModule(f, g) PROVE Module[f].priority >= Module[g].priority
    <3>1. PICK h \in Members : SameModule(g, h) /\ Module[h].priority >= Module[g].priority
      BY <1>2
    <3>2. SameModule(f, h)
      BY <2>1, <3>1 DEF SameModule
    <3> QED BY <1>4, <3>1, <3>2
  <2> QED BY <1>3, <2>1 DEF Strongest
<1>6. ASSUME NEW f \in Strongest PROVE f \in Members
  <2>1. f \in Usable
    BY DEF Strongest
  <2>2. PICK g \in Members : SameModule(f, g) /\ Module[g].priority >= Module[f].priority
    BY <1>2, <2>1
  <2>3. Module[f].priority >= Module[g].priority
    BY <1>3, <2>2 DEF Strongest
  <2>4. Module[f].priority = Module[g].priority
    BY <1>1, <1>3, <2>1, <2>2, <2>3
  <2>5. f = g
    BY <1>3, <2>1, <2>2, <2>4 DEF Unambiguous, Usable, SameModule
  <2> QED BY <2>2, <2>5
<1> QED BY <1>5, <1>6

\* A turn comes out as the modules before it say.
LEMMA TurnInOrder ==
  ASSUME IInv, OrderInv, Unambiguous, phase \in {"named", "rest"}, NEW f \in Members,
         Initialize(f), UNCHANGED Given,
         \A g \in Members : Visited(g)' <=> Visited(g) \/ g = f,
         \A g \in Members : Visited(g) /\ ~Visited(f) => Before(g, f) /\ ~Before(f, g)
  PROVE  \A g \in Members : /\ Visited(g)' => (Run(g)' <=> GetsItsOptions(g)')
                            /\ ~Visited(g)' => ~Run(g)'
<1>1. Members = Strongest /\ Members \subseteq Usable /\ Usable \subseteq Files
  <2>1. unread = {} /\ phase # "done" /\ dir.files \subseteq Files
    BY RegistryAssumption DEF OrderInv, Selected, IInv, TypeOK
  <2> QED BY <2>1, StrongestListed DEF OrderInv, Selected, Usable
<1>2. /\ \A g \in Members : GetsItsOptions(g) <=> \A c \in Letters(g) : /\ c \notin Builtin[personality]
           /\ ~\E h \in Members : Before(h, g) /\ Run(h) /\ c \in Letters(h)
      /\ \A g \in Members : GetsItsOptions(g)' <=> \A c \in Letters(g) : /\ c \notin Builtin[personality]
           /\ ~\E h \in Members : Before(h, g) /\ Run(h)' /\ c \in Letters(h)
  <2>1. Strongest' = Strongest /\ personality' = personality
        /\ \A g : Letters(g)' = Letters(g) /\ \A h : Before(h, g)' = Before(h, g)
    BY DEF Given, Strongest, Usable, Loadable, Accepted, Letters, Before, Asked
  <2> QED BY <1>1, <2>1 DEF GetsItsOptions, Run
<1>3. /\ \A g \in Members : (Visited(g) => (Run(g) <=> GetsItsOptions(g))) /\ (~Visited(g) => ~Run(g))
      /\ \A g \in Files : Run(g) => g \in Members
  BY DEF OrderInv, Turns
<1>4. started \in [Files -> Nat] /\ f \in Files
  BY <1>1 DEF IInv, TypeOK
<1>5. ~Before(f, f)
  <2>1. Module[f].priority \in Int /\ Module[f].name \in Int /\ Asked(f) \subseteq Int
    <3>1. misc_modules \in Seq(Int)
      BY RegistryAssumption DEF IInv, TypeOK
    <3>2. DOMAIN misc_modules \subseteq Int
      BY <3>1, LenProperties
    <3> QED BY <1>4, <3>2, RegistryAssumption DEF Asked
  <2> QED BY <2>1 DEF Before, Ahead
\* What stands in the way of f, if anything, is pdsh or a module before it.
<1>6. OptionsFree(f) /\ ~Visited(f) => GetsItsOptions(f)
  <2> SUFFICES ASSUME OptionsFree(f), NEW c \in Letters(f),
                      c \in Builtin[personality] \/ \E h \in Members : Run(h) /\ c \in Letters(h)
               PROVE  FALSE
    BY <1>2
  <2>1. c \in pdsh_options
    BY <1>1 DEF IInv, Owners
  <2> QED BY <2>1 DEF OptionsFree
<1>7. ~OptionsFree(f) /\ ~Visited(f) => ~GetsItsOptions(f)
  <2> SUFFICES ASSUME ~OptionsFree(f), ~Visited(f) PROVE ~GetsItsOptions(f)
    OBVIOUS
  <2>1. PICK c \in Letters(f) : c \in pdsh_options
    BY DEF OptionsFree
  <2>2. c \in Builtin[personality] \/ \E h \in Members : Run(h) /\ c \in Letters(h)
    BY <1>3, <2>1 DEF IInv, Owners
  <2>3. c \in Builtin[personality] \/ \E h \in Members : Before(h, f) /\ Run(h) /\ c \in Letters(h)
    BY <1>3, <2>2
  <2> QED BY <1>2, <2>1, <2>3
<1>8. ~OptionsFree(f) => \A g : Run(g)' <=> Run(g)
  BY DEF Initialize, Initing, Run
<1>9. OptionsFree(f) => Run(f)' /\ \A g \in Members : g # f => (Run(g)' <=> Run(g))
  <2>1. OptionsFree(f) => started' = [started EXCEPT ![f] = @ + 1]
    BY DEF Initialize
  <2>2. OptionsFree(f) => started'[f] = started[f] + 1 /\ \A g \in Files : g # f => started'[g] = started[g]
    BY <1>4, <2>1
  <2>3. started[f] \in Nat
    BY <1>4
  <2>4. OptionsFree(f) => started'[f] > 0
    BY <2>2, <2>3
  <2> QED BY <1>1, <2>2, <2>4 DEF Run
<1>10. CASE Visited(f)
  \* Its second turn changes nothing: it has run, or cannot.
  <2>1. \A g \in Members : Visited(g)' <=> Visited(g)
    BY <1>10
  <2>2. CASE ~OptionsFree(f) \/ Run(f)
    <3>1. \A g \in Members : Run(g)' <=> Run(g)
      BY <1>8, <1>9, <2>2
    <3> QED BY <1>2, <1>3, <2>1, <3>1
  <2>3. CASE OptionsFree(f) /\ ~Run(f)
    <3>1. \E c \in Letters(f) : c \in pdsh_options
      <4>1. PICK c \in Letters(f) : c \in Builtin[personality] \/ \E h \in Members : Run(h) /\ c \in Letters(h)
        BY <1>2, <1>3, <1>10, <2>3
      <4> QED BY <1>1, <4>1 DEF IInv, Owners
    <3> QED BY <2>3, <3>1 DEF OptionsFree
  <2> QED BY <2>2, <2>3
<1>11. CASE ~Visited(f)
  <2>1. ~Run(f)
    BY <1>3, <1>11
  <2>2. \A g \in Members : g # f => (Run(g)' <=> Run(g))
    BY <1>8, <1>9
  <2>3. Run(f)' <=> GetsItsOptions(f)
    BY <1>6, <1>7, <1>8, <1>9, <1>11, <2>1
  <2>4. GetsItsOptions(f)' <=> GetsItsOptions(f)
    BY <1>2, <1>5, <2>2
  <2>5. ASSUME NEW g \in Members, Visited(g) PROVE GetsItsOptions(g)' <=> GetsItsOptions(g)
    <3>1. ~Before(f, g)
      BY <1>11, <2>5
    <3> QED BY <1>2, <2>2, <3>1
  <2>6. ASSUME NEW g \in Members
        PROVE  (Visited(g)' => (Run(g)' <=> GetsItsOptions(g)')) /\ (~Visited(g)' => ~Run(g)')
    <3>1. CASE g = f
      BY <2>3, <2>4, <3>1
    <3>2. CASE g # f
      BY <1>3, <2>2, <2>5, <3>2
    <3> QED BY <3>1, <3>2
  <2> QED BY <2>6
<1> QED BY <1>10, <1>11

LEMMA OrderInit == Init => OrderInv
<1> SUFFICES ASSUME Init PROVE OrderInv
  OBVIOUS
<1>1. module_list = <<>> /\ Members = {} /\ DOMAIN module_list = {} /\ phase = "load"
  BY DEF Init, Members, ToSet
<1>2. OneOfEach
  BY <1>1 DEF OneOfEach
<1>3. Selected
  BY <1>1 DEF Init, Selected, Usable
<1>4. Progress /\ Turns
  BY <1>1 DEF Init, Progress, Turns, Run
<1> QED BY <1>2, <1>3, <1>4 DEF OrderInv

\* The files are what they were, and so is who gets what, while nobody runs.
LEMMA Frame ==
  ASSUME UNCHANGED Given, UNCHANGED unread, UNCHANGED module_list
  PROVE  /\ OneOfEach' <=> OneOfEach
         /\ Usable' = Usable /\ (Unambiguous' <=> Unambiguous) /\ Members' = Members
         /\ \A f : Asked(f)' = Asked(f)
         /\ Selected /\ ((phase' # "done" => phase # "done") /\ (phase' \in {"named", "rest", "ready"}
                           => phase \in {"named", "rest", "ready"})) => Selected'
  BY DEF Given, OneOfEach, Usable, Loadable, Accepted, Unambiguous, Members, Asked, Selected

\* The list of the loop is the whole list, with one more of -M or one more module done.
LEMMA NamedKeeps ==
  ASSUME IInv, OrderInv, InitializeByName
  PROVE  OrderInv'
<1> DEFINE name == misc_modules[named + 1]
<1>0. /\ UNCHANGED Given /\ UNCHANGED <<unread, module_list, todo, phase>> /\ phase = "named"
      /\ named' = named + 1 /\ named < Len(misc_modules)
  BY DEF InitializeByName, Loading
<1>1. /\ misc_modules \in Seq(Int) /\ Len(misc_modules) \in Nat /\ named \in Nat
      /\ DOMAIN misc_modules = 1..Len(misc_modules) /\ module_list \in Seq(Files)
  BY RegistryAssumption, LenProperties DEF IInv, TypeOK
<1>2. OneOfEach' /\ Selected' /\ Members' = Members /\ (Unambiguous' <=> Unambiguous)
  BY <1>0, Frame DEF OrderInv
<1>3. Progress'
  BY <1>0 DEF Progress
<1>4. \A g : Visited(g) <=> \E k \in Asked(g) : k <= named
  BY <1>0 DEF Visited
<1>5. ASSUME NEW g PROVE Visited(g)' <=> Visited(g) \/ named + 1 \in Asked(g)
  <2>0. \A h : Asked(h)' = Asked(h)
    BY <1>0, Frame
  <2>1. Asked(g)' = Asked(g) /\ Asked(g) \subseteq Int
    <3>1. Asked(g) \subseteq Int
      BY <1>1 DEF Asked
    <3> QED BY <2>0, <3>1
  <2>2. Visited(g)' <=> \E k \in Asked(g) : k <= named + 1
    BY <1>0, <2>1 DEF Visited
  <2>3. \A k \in Int : k <= named + 1 <=> k <= named \/ k = named + 1
    BY <1>1
  <2> QED BY <1>4, <2>1, <2>2, <2>3
<1>6. \A g : named + 1 \in Asked(g) <=> IsMisc(g, name)
  <2>1. named + 1 \in DOMAIN misc_modules
    BY <1>0, <1>1
  <2> QED BY <2>1 DEF Asked
<1>7. CASE \E k \in DOMAIN module_list : FirstMisc(k, name) /\ Initialize(module_list[k])
  <2>1. PICK k \in DOMAIN module_list : FirstMisc(k, name) /\ Initialize(module_list[k])
    BY <1>7
  <2> DEFINE f == module_list[k]
  <2>2. f \in Members /\ IsMisc(f, name) /\ f \in Files
    BY <1>1, <2>1, LenProperties DEF FirstMisc, Members, ToSet
  <2>3. \A g \in Members : IsMisc(g, name) <=> g = f
    BY <2>1, <2>2 DEF OrderInv, OneOfEach, IsMisc, SameModule, Members, ToSet
  <2>4. \A g \in Members : Visited(g)' <=> Visited(g) \/ g = f
    BY <1>5, <1>6, <2>3
  <2>5. ASSUME NEW g \in Members, Visited(g), ~Visited(f) PROVE Before(g, f) /\ ~Before(f, g)
    <3>1. PICK j \in Asked(g) : j <= named
      BY <1>4, <2>5
    <3>2. Asked(f) \subseteq Int /\ Asked(g) \subseteq Int /\ \A i \in Asked(f) : ~(i <= named)
      BY <1>1, <1>4, <2>5 DEF Asked
    <3>3. \A i \in Asked(f) : j < i /\ ~(i < j)
      BY <1>1, <3>1, <3>2
    <3>4. Before(g, f)
      BY <3>1, <3>3 DEF Before
    <3>5. ~Before(f, g)
      BY <3>1, <3>3 DEF Before
    <3> QED BY <3>4, <3>5
  <2> HIDE DEF f
  <2>6. Initialize(f)
    BY <2>1 DEF f
  <2>7. Unambiguous => \A g \in Members : /\ Visited(g)' => (Run(g)' <=> GetsItsOptions(g)')
                                          /\ ~Visited(g)' => ~Run(g)'
    BY <1>0, <2>2, <2>4, <2>5, <2>6, TurnInOrder
  <2>8. \A g \in Files : Run(g)' => Run(g) \/ g = f
    <3>1. started \in [Files -> Nat]
      BY DEF IInv, TypeOK
    <3> QED BY <2>2, <2>6, <3>1 DEF Initialize, Initing, Run
  <2>9. Turns'
    BY <1>0, <1>2, <2>2, <2>7, <2>8 DEF OrderInv, Turns
  <2> QED BY <1>2, <1>3, <2>9 DEF OrderInv
<1>8. CASE (\A f \in Members : ~IsMisc(f, name)) /\ UNCHANGED Initing
  <2>1. \A g \in Members : Visited(g)' <=> Visited(g)
    BY <1>5, <1>6, <1>8
  <2>2. \A g : (GetsItsOptions(g)' <=> GetsItsOptions(g)) /\ (Run(g)' <=> Run(g))
    BY <1>0, <1>8, SameServed DEF Initing
  <2>3. Turns'
    BY <1>0, <1>2, <2>1, <2>2 DEF OrderInv, Turns
  <2> QED BY <1>2, <1>3, <2>3 DEF OrderInv
<1> QED BY <1>7, <1>8 DEF InitializeByName

LEMMA RestKeeps ==
  ASSUME IInv, OrderInv, InitializeRest
  PROVE  OrderInv'
<1> DEFINE L == Len(module_list)
           T == Len(todo)
<1>0. /\ UNCHANGED Given /\ UNCHANGED <<unread, module_list, named, phase>> /\ phase = "rest"
      /\ todo # <<>> /\ todo' = Tail(todo) /\ Initialize(Head(todo))
  BY DEF InitializeRest, Loading
<1>1. /\ misc_modules \in Seq(Int) /\ DOMAIN misc_modules = 1..Len(misc_modules)
      /\ Len(misc_modules) \in Nat
  BY RegistryAssumption, LenProperties DEF IInv, TypeOK
<1>2. /\ module_list \in Seq(Files) /\ L \in Nat /\ DOMAIN module_list = 1..L
      /\ todo \in Seq(Files) /\ T \in Nat
  BY LenProperties DEF IInv, TypeOK
<1>3. /\ T >= 1 /\ Head(todo) = todo[1] /\ Len(Tail(todo)) = T - 1
      /\ \A i \in 1..(T - 1) : Tail(todo)[i] = todo[i + 1]
  <2>1. T # 0
    BY <1>0, <1>2, EmptySeq
  <2>2. Head(todo) = todo[1]
    BY <1>0, <1>2
  <2>3. Len(Tail(todo)) = T - 1 /\ \A i \in 1..Len(Tail(todo)) : Tail(todo)[i] = todo[i + 1]
    BY <1>0, <1>2, HeadTailProperties
  <2> QED BY <1>2, <2>1, <2>2, <2>3
<1>4. T <= L /\ (\A i \in 1..T : todo[i] = module_list[L - T + i]) /\ named = Len(misc_modules)
  BY <1>0 DEF OrderInv, Progress
<1>5. OneOfEach' /\ Selected' /\ Members' = Members /\ (Unambiguous' <=> Unambiguous)
  BY <1>0, Frame DEF OrderInv
<1> DEFINE m == L - T + 1
           f == module_list[m]
<1>6. m \in 1..L /\ f = Head(todo)
  BY <1>2, <1>3, <1>4
<1>7. f \in Members /\ f \in Files
  BY <1>2, <1>6, LenProperties DEF Members, ToSet
<1>8. Len(todo') = T - 1 /\ L - Len(todo') = m
  BY <1>0, <1>2, <1>3
<1>9. Progress'
  <2>1. ASSUME NEW i \in 1..(T - 1) PROVE Tail(todo)[i] = module_list[L - (T - 1) + i]
    <3>1. i + 1 \in 1..T /\ L - T + (i + 1) = L - (T - 1) + i
      BY <1>2, <1>3
    <3>2. todo[i + 1] = module_list[L - T + (i + 1)]
      BY <1>4, <3>1
    <3> QED BY <1>3, <3>1, <3>2
  <2>2. Len(todo') <= L
    BY <1>2, <1>4, <1>8
  <2> QED BY <1>0, <1>4, <1>8, <2>1, <2>2 DEF Progress, Given
<1>10. \A g : Visited(g) <=> Asked(g) # {} \/ \E i \in 1..(L - T) : module_list[i] = g
  <2>1. \A g : (\E k \in Asked(g) : k <= named) <=> Asked(g) # {}
    BY <1>1, <1>4 DEF Asked
  <2> QED BY <1>0, <2>1 DEF Visited
<1>11. \A g : Visited(g)' <=> Asked(g) # {} \/ \E i \in 1..m : module_list[i] = g
  <2>1. \A g : Asked(g)' = Asked(g)
    BY <1>0, Frame
  <2>2. \A g : (\E k \in Asked(g)' : k <= named') <=> Asked(g) # {}
    <3>1. \A g : (\E k \in Asked(g) : k <= named) <=> Asked(g) # {}
      BY <1>1, <1>4 DEF Asked
    <3> QED BY <1>0, <2>1, <3>1
  <2>3. Len(module_list') - Len(todo') = m /\ module_list' = module_list /\ phase' = "rest"
    BY <1>0, <1>8
  <2> HIDE DEF m
  <2> QED BY <2>2, <2>3 DEF Visited
<1>12. \A g \in Members : Visited(g)' <=> Visited(g) \/ g = f
  <2>1. \A i \in Int : i \in 1..m <=> i \in 1..(L - T) \/ i = m
    <3>1. \A d \in Nat, i \in Int : i \in 1..(d + 1) <=> i \in 1..d \/ i = d + 1
      OBVIOUS
    <3>2. L - T \in Nat /\ m = (L - T) + 1
      BY <1>2, <1>4
    <3> HIDE DEF L, T, m
    <3> QED BY <3>1, <3>2
  <2>2. ASSUME NEW g PROVE (\E i \in 1..m : module_list[i] = g) <=>
                           (\E i \in 1..(L - T) : module_list[i] = g) \/ g = f
    <3>1. m \in 1..m /\ \A i \in 1..m : i \in Int
      BY <1>6
    <3> HIDE DEF m
    <3> QED BY <2>1, <3>1
  <2> QED BY <1>10, <1>11, <2>2
<1>13. ASSUME Unambiguous, NEW g \in Members, Visited(g), ~Visited(f) PROVE Before(g, f) /\ ~Before(f, g)
  <2>1. Asked(f) = {}
    BY <1>10, <1>13
  <2>2. CASE Asked(g) # {}
    BY <2>1, <2>2 DEF Before
  <2>3. CASE Asked(g) = {}
    <3>1. PICK i \in 1..(L - T) : module_list[i] = g
      BY <1>10, <1>13, <2>3
    <3>2. i < m /\ i \in DOMAIN module_list /\ m \in DOMAIN module_list
      BY <1>2, <1>4, <1>6, <3>1
    <3>3. ~Ahead(f, g)
      <4>1. InOrder(module_list)
        BY <1>0 DEF OrderInv, Selected
      <4> HIDE DEF m
      <4> QED BY <3>1, <3>2, <4>1 DEF InOrder
    <3>4. f # g
      BY <1>13
    <3>5. Ahead(g, f)
      BY <1>7, <1>13, <3>3, <3>4, SomeoneAhead DEF OrderInv, Selected, IInv, TypeOK
    <3> QED BY <2>1, <2>3, <3>3, <3>5 DEF Before
  <2> QED BY <2>2, <2>3
<1>14. Initialize(f)
  BY <1>0, <1>6
<1> HIDE DEF f, m, L, T
<1>15. Unambiguous => \A g \in Members : /\ Visited(g)' => (Run(g)' <=> GetsItsOptions(g)')
                                         /\ ~Visited(g)' => ~Run(g)'
  BY <1>0, <1>7, <1>12, <1>13, <1>14, TurnInOrder
<1>16. \A g \in Files : Run(g)' => Run(g) \/ g = f
  <2>1. started \in [Files -> Nat]
    BY DEF IInv, TypeOK
  <2> QED BY <1>7, <1>14, <2>1 DEF Initialize, Initing, Run
<1>17. Turns'
  BY <1>0, <1>5, <1>7, <1>15, <1>16 DEF OrderInv, Turns
<1> QED BY <1>5, <1>9, <1>17 DEF OrderInv

LEMMA OrderStep == IInv /\ OrderInv /\ [Next]_vars => OrderInv'
<1> SUFFICES ASSUME IInv, OrderInv, [Next]_vars PROVE OrderInv'
  OBVIOUS
<1>0. /\ misc_modules \in Seq(Int) /\ DOMAIN misc_modules = 1..Len(misc_modules)
      /\ module_list \in Seq(Files) /\ DOMAIN module_list = 1..Len(module_list)
      /\ Len(module_list) \in Nat
  BY RegistryAssumption, LenProperties DEF IInv, TypeOK
<1>1. ASSUME NEW f \in Files, Load(f) PROVE OrderInv'
  BY <1>1, LoadKeeps
<1>2. CASE NoModules
  <2>1. /\ UNCHANGED <<Given, unread, module_list, started, named>> /\ phase = "load" /\ phase' = "failed"
    BY <1>2 DEF NoModules, Loading, Initing
  <2>2. OneOfEach' /\ Selected'
    BY <2>1, Frame DEF OrderInv
  <2>3. Progress' /\ Turns'
    BY <2>1 DEF OrderInv, Progress, Turns, Run
  <2> QED BY <2>2, <2>3 DEF OrderInv
<1>3. CASE SortModules
  <2>1. PICK t \in [DOMAIN module_list -> Members] : SortsTo(module_list, t) /\ module_list' = t
    BY <1>3 DEF SortModules
  <2>2. /\ UNCHANGED <<Given, unread, started, named>> /\ phase = "load" /\ phase' = "named" /\ unread = {}
    BY <1>3 DEF SortModules, Initing
  <2>3. OneOfEach'
    <3>1. \A j, k \in DOMAIN t : SameModule(t[j], t[k]) => j = k
      BY <1>0, <2>1, SortedOne DEF OrderInv
    <3> QED BY <2>1, <3>1 DEF OneOfEach
  <2>4. Members' = Members /\ InOrder(t)
    BY <2>1 DEF SortsTo, Members
  <2>5. Usable' = Usable /\ Unambiguous' = Unambiguous /\ \A f : Asked(f)' = Asked(f)
    BY <2>2 DEF Given, Usable, Loadable, Accepted, Unambiguous, Asked
  <2>6. Selected'
    BY <2>1, <2>2, <2>4, <2>5 DEF OrderInv, Selected, Given
  <2>7. named = 0 /\ Progress'
    BY <2>2 DEF OrderInv, Progress
  <2>8. \A f : ~Visited(f)'
    <3>1. \A f, k : k \in Asked(f) => k \in 1..Len(misc_modules)
      BY <1>0 DEF Asked
    <3>2. \A k \in 1..Len(misc_modules) : ~(k <= 0)
      BY <1>0, LenProperties
    <3> QED BY <2>2, <2>5, <2>7, <3>1, <3>2 DEF Visited
  <2>9. \A f \in Files : ~Run(f)'
    BY <2>2 DEF OrderInv, Turns, Run
  <2>10. Members \subseteq Files
    BY <1>0, LenProperties DEF Members, ToSet
  <2>11. Turns'
    BY <2>2, <2>4, <2>8, <2>9, <2>10 DEF Turns
  <2> QED BY <2>3, <2>6, <2>7, <2>11 DEF OrderInv
<1>4. CASE InitializeByName
  BY <1>4, NamedKeeps
<1>5. CASE NamedDone
  <2>1. /\ UNCHANGED <<Given, unread, module_list, started, named>> /\ phase = "named" /\ phase' = "rest"
        /\ todo' = module_list /\ named = Len(misc_modules)
    BY <1>5 DEF NamedDone, Loading, Initing
  <2>2. /\ OneOfEach' /\ Selected' /\ Members' = Members /\ (Unambiguous' <=> Unambiguous)
        /\ \A f : Asked(f)' = Asked(f)
    BY <2>1, Frame DEF OrderInv
  <2>3. Len(module_list') - Len(todo') = 0
    BY <1>0, <2>1
  <2>4. Progress'
    <3>1. \A i \in 1..Len(module_list) : Len(module_list) - Len(module_list) + i = i
      BY <1>0
    <3>2. Len(module_list) <= Len(module_list)
      BY <1>0
    <3> QED BY <2>1, <3>1, <3>2 DEF Progress, Given
  <2>5. \A f : Visited(f)' <=> Visited(f)
    <3>1. 1..0 = {}
      OBVIOUS
    <3> QED BY <2>1, <2>2, <2>3, <3>1 DEF Visited
  <2>6. \A f : (GetsItsOptions(f)' <=> GetsItsOptions(f)) /\ (Run(f)' <=> Run(f))
    BY <2>1, SameServed
  <2>7. Turns'
    BY <2>1, <2>2, <2>5, <2>6 DEF OrderInv, Turns
  <2> QED BY <2>2, <2>4, <2>7 DEF OrderInv
<1>6. CASE InitializeRest
  BY <1>6, RestKeeps
<1>7. CASE RestDone
  <2>1. /\ UNCHANGED <<Given, unread, module_list, started, named>> /\ phase = "rest" /\ phase' = "ready"
        /\ todo = <<>>
    BY <1>7 DEF RestDone, Loading, Initing
  <2>2. /\ OneOfEach' /\ Selected' /\ Members' = Members /\ (Unambiguous' <=> Unambiguous)
    BY <2>1, Frame DEF OrderInv
  <2>3. Progress'
    BY <2>1 DEF OrderInv, Progress, Given
  <2>4. \A f \in Members : Visited(f)
    <3>1. Len(module_list) - Len(todo) = Len(module_list)
      BY <1>0, <2>1
    <3>2. \A f \in Members : \E i \in 1..Len(module_list) : module_list[i] = f
      BY <1>0 DEF Members, ToSet
    <3> QED BY <2>1, <3>1, <3>2 DEF Visited
  <2>5. \A f : (GetsItsOptions(f)' <=> GetsItsOptions(f)) /\ (Run(f)' <=> Run(f))
    BY <2>1, SameServed
  <2>6. \A f : Visited(f)'
    BY <2>1 DEF Visited
  <2>7. Turns'
    BY <2>1, <2>2, <2>4, <2>5, <2>6 DEF OrderInv, Turns
  <2> QED BY <2>2, <2>3, <2>7 DEF OrderInv
<1>8. CASE ExitModules
  <2>1. /\ UNCHANGED <<personality, dir, unread>> /\ phase' = "done" /\ module_list' = <<>>
    BY <1>8 DEF ExitModules, Given
  <2>2. Members' = {} /\ OneOfEach'
    BY <2>1 DEF Members, ToSet, OneOfEach
  <2>3. Selected'
    BY <2>1, <2>2 DEF OrderInv, Selected
  <2>4. Progress' /\ Turns'
    BY <2>1 DEF Progress, Turns
  <2> QED BY <2>2, <2>3, <2>4 DEF OrderInv
<1>9. CASE UNCHANGED vars
  <2>1. UNCHANGED <<Given, unread, module_list, todo, phase, named, started>>
    BY <1>9 DEF vars, Given
  <2>2. /\ OneOfEach' /\ Selected' /\ Members' = Members /\ (Unambiguous' <=> Unambiguous)
        /\ \A f : Asked(f)' = Asked(f)
    BY <2>1, Frame DEF OrderInv
  <2>3. Progress'
    BY <2>1 DEF OrderInv, Progress, Given
  <2>4. \A f : (GetsItsOptions(f)' <=> GetsItsOptions(f)) /\ (Run(f)' <=> Run(f))
    BY <2>1, SameServed
  <2>5. \A f : Visited(f)' <=> Visited(f)
    BY <2>1, <2>2 DEF Visited
  <2>6. Turns'
    BY <2>1, <2>2, <2>4, <2>5 DEF OrderInv, Turns
  <2> QED BY <2>2, <2>3, <2>6 DEF OrderInv
<1> QED BY <1>1, <1>2, <1>3, <1>4, <1>5, <1>6, <1>7, <1>8, <1>9 DEF Next

\* What the order of the directory and of -M leaves, at every moment.
THEOREM InductiveOrder == Spec => []OrderInv
BY OrderInit, OrderStep, Inductive, PTL DEF Spec

\* When pdsh parses its command line, mod_process_opt finds one module at most that takes
\* an option, unless a module has it for the other personality.
THEOREM OneHandlerAtMost == Spec => []OneHandler
<1>1. IInv /\ OrderInv => OneHandler
  <2> SUFFICES ASSUME IInv, OrderInv, phase = "ready", NEW c \in pdsh_options,
                      \A f \in initialized : Offers(f, c) => c \in Letters(f)
               PROVE  Cardinality(Handlers(c)) <= 1 /\ (c \in Builtin[personality] => Handlers(c) = {})
    BY DEF OneHandler
  <2>1. OptionsServed
    BY DEF IInv, TypeOK, Owners, Run, OptionsServed
  <2>2. ASSUME NEW j \in Handlers(c), NEW k \in Handlers(c) PROVE j = k
    <3>1. /\ j \in DOMAIN module_list /\ module_list[j] \in initialized /\ c \in Letters(module_list[j])
          /\ k \in DOMAIN module_list /\ module_list[k] \in initialized /\ c \in Letters(module_list[k])
      BY <2>2 DEF Handlers, Active
    <3>2. module_list[j] = module_list[k]
      BY <2>1, <3>1 DEF OptionsServed
    <3> QED BY <3>1, <3>2 DEF OrderInv, OneOfEach, SameModule
  <2>3. Cardinality(Handlers(c)) <= 1
    <3>1. CASE Handlers(c) = {}
      BY <3>1, FS_EmptySet
    <3>2. CASE Handlers(c) # {}
      <4>1. PICK k \in Handlers(c) : Handlers(c) = {k}
        BY <2>2, <3>2
      <4>2. Cardinality({k}) = 1
        BY FS_Singleton
      <4> QED BY <4>1, <4>2
    <3> QED BY <3>1, <3>2
  <2>4. c \in Builtin[personality] => Handlers(c) = {}
    BY <2>1 DEF OptionsServed, Handlers, Active
  <2> QED BY <2>3, <2>4
<1> QED BY <1>1, Inductive, InductiveOrder, PTL

\* However readdir orders the files: the strongest modules are listed, by priority, and
\* init runs for those whose options nobody before them has.
THEOREM OrderOfFiles == Spec => []LoadOrderIrrelevant
<1>1. IInv /\ OrderInv => LoadOrderIrrelevant
  <2> SUFFICES ASSUME IInv, OrderInv, phase = "ready", Unambiguous
               PROVE  /\ Members = Strongest /\ IsInjective(module_list) /\ InOrder(module_list)
                      /\ \A f \in Strongest : started[f] > 0 <=> GetsItsOptions(f)
    BY DEF LoadOrderIrrelevant
  <2>1. unread = {} /\ InOrder(module_list)
    BY DEF OrderInv, Selected
  <2>2. Members = Strongest
    BY <2>1, StrongestListed
  <2>3. IsInjective(module_list)
    BY DEF OrderInv, OneOfEach, SameModule, IsInjective
  <2>4. \A f : Visited(f)
    BY DEF Visited
  <2>5. \A f \in Members : Run(f) <=> GetsItsOptions(f)
    BY <2>4 DEF OrderInv, Turns
  <2> QED BY <2>1, <2>2, <2>3, <2>5 DEF Run
<1> QED BY <1>1, Inductive, InductiveOrder, PTL

=============================================================================
