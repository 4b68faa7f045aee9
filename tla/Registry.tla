------------------------------ MODULE Registry ------------------------------
(***************************************************************************)
(* The modules of pdsh (src/src/pdsh/mod.c) and the options they register  *)
(* (opt_register in src/src/pdsh/opt.c): the files of the module directory *)
(* are read in whatever order the file system gives them, modules of one   *)
(* type and name replace each other by priority, and then the modules are  *)
(* initialized one by one, those named with -M first.                      *)
(*                                                                         *)
(* A module's option letters are the set opts; what an option's function,  *)
(* a module's init, exit, read_wcoll or postop does is the module's own.   *)
(***************************************************************************)
EXTENDS Integers, SequencesExt

CONSTANTS
  Files,      \* the files in the module directory
  Module,     \* what each of them holds; a name is its place in the order of strcmp
  Dirs,       \* module directories: their files, and the chain of directories up to the root
  Trusted,    \* root, the user, and the owner of the pdsh binary
  Lists,      \* the lists of names that -M may give
  Builtin     \* the options of pdsh itself, for each personality

Personalities == {"DSH", "PCP"}

ASSUME RegistryAssumption ==
  /\ Lists \subseteq Seq(Int) /\ \A d \in Dirs : d.files \subseteq Files
  /\ \A f \in Files :
       /\ Module[f].type \in {"misc", "rcmd"} /\ {Module[f].name, Module[f].priority} \subseteq Int
       /\ Module[f].personality \subseteq Personalities
       /\ {Module[f].starts, Module[f].opens, Module[f].writable} \subseteq BOOLEAN

VARIABLES
  personality,   \* what pdsh was started as
  dir,           \* the module directory
  phase,         \* how far main() has come
  unread,        \* the directory entries still to read
  count,         \* how many files were registered as modules
  module_list,   \* the modules, as a sequence of files
  todo,          \* the modules that the initialization loop has still to visit
  misc_modules,  \* the names given with -M
  named,         \* how many of them have been looked for
  pdsh_options,  \* the option letters in use
  initialized,   \* the modules whose initialized flag is set
  started,       \* how often each module's init function was called
  exited         \* the modules whose exit function was called
vars == <<personality, dir, phase, unread, count, module_list, todo, misc_modules, named,
          pdsh_options, initialized, started, exited>>

Given   == <<personality, dir, misc_modules>>
Loading == <<unread, count, module_list>>
Initing == <<pdsh_options, initialized, started>>

Init ==
  /\ personality \in Personalities /\ dir \in Dirs /\ phase = "load" /\ unread = dir.files
  /\ count = 0 /\ module_list = <<>> /\ todo = <<>> /\ misc_modules \in Lists /\ named = 0
  /\ pdsh_options = Builtin[personality] /\ initialized = {} 
  /\ started = [f \in Files |-> 0] /\ exited = {}

----------------------------------------------------------------------------
\* Loading.
Members == ToSet(module_list)
SameModule(f, g) == Module[f].type = Module[g].type /\ Module[f].name = Module[g].name

\* _dir_permission_error, for the directory and every one above it.
DirOK(d) == d.isdir /\ d.owner \in Trusted /\ (d.writable => d.sticky)
PathOK == \A k \in DOMAIN dir.chain : DirOK(dir.chain[k])

\* The file can be trusted, opened, and has a pdsh_module_info with type and name.
Loadable(f) == Module[f].owner \in Trusted /\ ~Module[f].writable /\ Module[f].opens

Accepted(f) == personality \in Module[f].personality
EvenIfWeaker(f) == TRUE     \* mutant: the priority is not compared
Stronger(f) == \A g \in Members : SameModule(f, g) => Module[f].priority > Module[g].priority

Others(f) ==
  IF \E g \in Members : SameModule(f, g)
  THEN RemoveAt(module_list, CHOOSE k \in DOMAIN module_list : SameModule(f, module_list[k]))
  ELSE module_list

\* The module that was there goes before the new one's personality is looked at.
Registered(f) ==
  IF ~Stronger(f) THEN module_list
  ELSE IF Accepted(f) THEN <<f>> \o Others(f) ELSE Others(f)

Load(f) ==
  /\ phase = "load" /\ PathOK /\ f \in unread /\ unread' = unread \ {f}
  /\ module_list' = IF Loadable(f) THEN Registered(f) ELSE module_list
  /\ count' = IF Loadable(f) /\ Stronger(f) /\ Accepted(f) THEN count + 1 ELSE count
  /\ UNCHANGED <<Given, phase, todo, named, Initing, exited>>

\* Nothing that can be loaded, or a directory that cannot be trusted: pdsh ends.
NoModules ==
  /\ phase = "load" /\ (~PathOK \/ (unread = {} /\ count = 0)) /\ phase' = "failed"
  /\ UNCHANGED <<Given, Loading, todo, named, Initing, exited>>

\* By priority, then by name; list_sort is stable.
Ahead(f, g) == \/ Module[f].priority > Module[g].priority
               \/ Module[f].priority = Module[g].priority /\ Module[f].name < Module[g].name
InOrder(s) == \A j, k \in DOMAIN s : j < k => ~Ahead(s[k], s[j])
IndexIn(s, f) == SelectInSeq(s, LAMBDA g : g = f)
SortsTo(s, t) ==
  /\ ToSet(t) = ToSet(s) /\ InOrder(t)
  /\ \A f, g \in ToSet(s) : ~Ahead(f, g) /\ ~Ahead(g, f) /\ IndexIn(s, f) < IndexIn(s, g)
                            => IndexIn(t, f) < IndexIn(t, g)

SortModules ==
  /\ phase = "load" /\ PathOK /\ unread = {} /\ count > 0 /\ phase' = "named"
  /\ \E t \in [DOMAIN module_list -> Members] : SortsTo(module_list, t) /\ module_list' = t
  /\ UNCHANGED <<Given, unread, count, todo, named, Initing, exited>>

----------------------------------------------------------------------------
\* Initialization.
Letters(f) == {o.opt : o \in {p \in Module[f].opts : personality \in p.personality}}
SomeFree(f) == Letters(f) = {} \/ Letters(f) \ pdsh_options # {}     \* mutant: one free option will do
OnlyModules(f) == Letters(f) \cap (pdsh_options \ Builtin[personality]) = {}     \* mutant: pdsh's own do not count
\* opt_register: all the options of a module, or none.
OptionsFree(f) == Letters(f) \cap pdsh_options = {}

ActiveAnyway(f) ==     \* mutant: a module whose options are taken is active all the same
  IF OptionsFree(f)
  THEN /\ pdsh_options' = pdsh_options \cup Letters(f)
       /\ started' = [started EXCEPT ![f] = @ + 1]
       /\ initialized' = IF Module[f].starts THEN initialized \cup {f} ELSE initialized
  ELSE initialized' = initialized \cup {f} /\ UNCHANGED <<pdsh_options, started>>

\* The options stay registered when the init function fails.
Initialize(f) ==
  IF OptionsFree(f)
  THEN /\ pdsh_options' = pdsh_options \cup Letters(f)
       /\ started' = [started EXCEPT ![f] = @ + 1]
       /\ initialized' = IF Module[f].starts THEN initialized \cup {f} ELSE initialized
  ELSE UNCHANGED Initing

IsMisc(f, name) == Module[f].type = "misc" /\ Module[f].name = name
FirstMisc(k, name) == /\ IsMisc(module_list[k], name)
                      /\ \A j \in DOMAIN module_list : IsMisc(module_list[j], name) => k <= j

InitializeByName ==
  /\ phase = "named" /\ named < Len(misc_modules) /\ named' = named + 1
  /\ LET name == misc_modules[named + 1] IN
       \/ \E k \in DOMAIN module_list : FirstMisc(k, name) /\ Initialize(module_list[k])
       \/ (\A f \in Members : ~IsMisc(f, name)) /\ UNCHANGED Initing
  /\ UNCHANGED <<Given, phase, Loading, todo, exited>>

NamedDone ==
  /\ phase = "named" /\ named = Len(misc_modules) /\ phase' = "rest" /\ todo' = module_list
  /\ UNCHANGED <<Given, Loading, named, Initing, exited>>

InitializeRest ==
  /\ phase = "rest" /\ todo # <<>> /\ Initialize(Head(todo)) /\ todo' = Tail(todo)
  /\ UNCHANGED <<Given, phase, Loading, named, exited>>

RestDone ==
  /\ phase = "rest" /\ todo = <<>> /\ phase' = "ready"
  /\ UNCHANGED <<Given, Loading, todo, named, Initing, exited>>

\* mod_process_opt asks the first active module whose table has the letter, for
\* whatever personality.
Offers(f, c) == \E o \in Module[f].opts : o.opt = c
Active == {k \in DOMAIN module_list : module_list[k] \in initialized}
Handlers(c) == {k \in Active : Offers(module_list[k], c)}

\* mod_exit destroys every module; only initialized ones have their exit called.
ExitModules ==
  /\ phase = "ready" /\ phase' = "done" /\ module_list' = <<>>
  /\ exited' = Members \cap initialized
  /\ UNCHANGED <<Given, unread, count, todo, named, Initing>>

Next ==
  \/ (\E f \in Files : Load(f)) \/ NoModules \/ SortModules
  \/ InitializeByName \/ NamedDone \/ InitializeRest \/ RestDone \/ ExitModules

Spec == Init /\ [][Next]_vars

----------------------------------------------------------------------------
TypeOK ==
  /\ personality \in Personalities /\ dir \in Dirs
  /\ phase \in {"load", "failed", "named", "rest", "ready", "done"}
  /\ unread \subseteq Files /\ count \in Nat /\ Len(module_list) <= count
  /\ module_list \in Seq(Files) /\ todo \in Seq(Files)
  /\ misc_modules \in Lists /\ named \in 0..Len(misc_modules)
  /\ initialized \subseteq Files /\ exited \subseteq Files
  /\ started \in [Files -> Nat]

\* No two modules that work, and no module and pdsh itself, share an option; an option
\* in use belongs to a module that works, or to one whose init failed after its
\* options were registered (_mod_initialize never takes them back).
OptionsServed ==
  /\ \A f \in initialized : Letters(f) \cap Builtin[personality] = {}
  /\ \A f, g \in initialized : f # g => Letters(f) \cap Letters(g) = {}
  /\ \A c \in pdsh_options \ Builtin[personality] : \E f \in Files :
       c \in Letters(f) /\ (f \in initialized \/ (started[f] > 0 /\ ~Module[f].starts))

\* mod_process_opt has none either: one active module at most has an option that is in
\* use, unless some module keeps the letter for the other personality.
OneHandler ==
  phase = "ready" => \A c \in pdsh_options :
    \/ \E f \in initialized : Offers(f, c) /\ c \notin Letters(f)
    \/ Cardinality(Handlers(c)) <= 1 /\ (c \in Builtin[personality] => Handlers(c) = {})

\* "Conflicting modules dont run init()" (src/tests/t0004-module-loading.sh), and a
\* module with an option of its own runs it once, named with -M or not; mod_exit calls
\* the exit function of exactly the modules whose init succeeded.
InitOnce ==
  /\ \A f \in Files : (Letters(f) # {} => started[f] <= 1) /\ (f \in initialized => started[f] >= 1)
  /\ phase = "done" => exited = initialized

\* Of each type and name, the module with the highest priority among those that can be
\* loaded; and the order in which the modules that are left are to be initialized.
Usable == {f \in dir.files : Loadable(f) /\ Accepted(f)}
Strongest == {f \in Usable : \A g \in Usable :
                SameModule(f, g) => Module[f].priority >= Module[g].priority}
Asked(f)  == {k \in DOMAIN misc_modules : IsMisc(f, misc_modules[k])}
Before(f, g) ==
  \/ \E j \in Asked(f) : \A k \in Asked(g) : j < k
  \/ Asked(f) = {} /\ Asked(g) = {} /\ Ahead(f, g)

\* No two files are alike in name and priority, and none that this personality refuses
\* outranks one of the same type and name that it accepts.
Unambiguous == \A f, g \in {h \in dir.files : Loadable(h)} : f # g =>
  /\ Module[f].name = Module[g].name => Module[f].priority # Module[g].priority
  /\ SameModule(f, g) /\ Module[f].priority > Module[g].priority /\ Accepted(g) => Accepted(f)

GetsItsOptions(f) == \A c \in Letters(f) :
  /\ c \notin Builtin[personality]
  /\ ~\E g \in Strongest : Before(g, f) /\ started[g] > 0 /\ c \in Letters(g)

\* readdir's order does not matter: the strongest modules are there, by priority, and a
\* module's init runs unless pdsh, or a module before it that got its own options, has
\* one of its options.
LoadOrderIrrelevant ==
  phase = "ready" /\ Unambiguous =>
    /\ Members = Strongest /\ IsInjective(module_list) /\ InOrder(module_list)
    /\ \A f \in Strongest : started[f] > 0 <=> GetsItsOptions(f)

=============================================================================
