------------------------------ MODULE Targets ------------------------------
(***************************************************************************)
(* Which hosts pdsh contacts, and how: the target list built from the      *)
(* command line, the modules and the environment (src/src/pdsh/opt.c), and *)
(* the rcmd module and user registered for each host (src/src/pdsh/rcmd.c).*)
(* Files are read by Wcoll; the modules that name targets are machines and *)
(* dshgroup.                                                               *)
(*                                                                         *)
(* A command line is a record: the arguments of -w and -x in order (those  *)
(* of -x with minus = TRUE), the groups of -g and -X, whether -a was given,*)
(* the rcmd module of -R or PDSH_RCMD_TYPE, the file of WCOLL, whether     *)
(* there is a command, and whether the timeouts are acceptable.            *)
(***************************************************************************)
EXTENDS Wcoll

CONSTANTS
  CommandLines,   \* the command lines
  Rcmds,          \* the rcmd modules on the module list
  Rank,           \* rcmd_rank: the order in which a default is looked for
  Expand,         \* Expand[h]: the hosts of a name that still has brackets
  Fits(_),        \* whether a list, in brackets, is shorter than 4096 characters
  GroupPath,      \* the search path of dshgroup
  MachinesFile    \* _PATH_MACHINES

None == "none"

ASSUME TargetsAssumption ==
  /\ Expand \in [Host -> Seq(Host)] /\ GroupPath \in Path /\ MachinesFile \in Name
  /\ None \notin Rcmds \cup Name
  /\ \A c \in CommandLines :
       /\ c.args \in Seq(ToSet(c.args))
       /\ \A k \in DOMAIN c.args : c.args[k].kind = "file" => c.args[k].name \in Name
       /\ c.groups \in Seq(Name) /\ c.exgroups \in Seq(Name) /\ c.env \in Name \cup {None}

VARIABLES
  opt,            \* the command line
  phase,          \* how far opt_args, opt_verify and dsh() have come
  given,          \* the arguments processed
  purpose,        \* what the file being read is for
  wcoll,          \* the target list, once have_wcoll
  have_wcoll,
  exclude_list,   \* the excluded lists, the last one first
  groups,         \* the groups dshgroup has still to read
  group_hosts,    \* the hosts of those it has read
  rcmd_modules,   \* the rcmd modules registered, in order
  host_info,      \* what is registered for single hosts
  default_rcmd,   \* the rcmd module of the others
  inits,          \* the calls of rcmd_init functions, in order
  conns           \* the connections to be made
tgvars == <<opt, phase, given, purpose, wcoll, have_wcoll, exclude_list, groups, group_hosts,
            rcmd_modules, host_info, default_rcmd, inits, conns>>
vars == <<wcvars, tgvars>>

Lists == <<wcoll, have_wcoll, exclude_list>>
Group == <<groups, group_hosts>>
Rcmd  == <<rcmd_modules, host_info, default_rcmd>>
Use   == <<inits, conns>>

Init ==
  /\ WcollInit /\ opt \in CommandLines /\ phase = "args" /\ given = 0 /\ purpose = None
  /\ wcoll = <<>> /\ have_wcoll = FALSE /\ exclude_list = <<>>
  /\ groups = opt.groups /\ group_hosts = <<>>
  /\ rcmd_modules = <<>> /\ host_info = {} /\ default_rcmd = None /\ inits = <<>> /\ conns = <<>>

At(p) == phase = p /\ reader = "idle"
Go(p) == phase' = p /\ UNCHANGED wcvars

\* Read file n, and carry on with what it is for.
ReadFor(n, what) == purpose' = what /\ ReadWcoll(n) /\ UNCHANGED phase
Done == reader' = "idle" /\ UNCHANGED <<path_list, include_cache, stack, hl, stdin_read, opened>>
HaveRead(what) == reader = "read" /\ purpose = what /\ purpose' = None /\ Done

----------------------------------------------------------------------------
\* rcmd.c: the registration of rcmd modules and hosts.
Registers(r) == rcmd_modules' = IF r \in ToSet(rcmd_modules) THEN rcmd_modules
                                ELSE Append(rcmd_modules, r)

Known(h) == \E i \in host_info : i.host = h
Infos(hosts, r, u) == {[host |-> h, rmod |-> r, user |-> u] : h \in hosts}
LastWins(hosts, r, u) ==     \* mutant: a later argument overrides
  {i \in host_info : i.host \notin ToSet(hosts)} \cup Infos(ToSet(hosts), r, u)
\* hostlist_register_rcmd: none that is known.
RegisterHosts(hosts, r, u) == host_info \cup Infos({h \in ToSet(hosts) : ~Known(h)}, r, u)

Arg == opt.args[given + 1]
ArgsLeft == At("args") /\ given < Len(opt.args) /\ given' = given + 1

\* wcoll_arg_process, for a host list that may have an rcmd type and a user.
HostsArg ==
  /\ ArgsLeft /\ Arg.kind = "hosts" /\ ~Arg.minus /\ (Arg.rcmd = None \/ Arg.rcmd \in Rcmds)
  /\ wcoll' = wcoll \o Arg.hosts /\ have_wcoll' = TRUE
  /\ IF Arg.rcmd = None THEN UNCHANGED rcmd_modules ELSE Registers(Arg.rcmd)
  /\ host_info' = IF Arg.rcmd = None /\ Arg.user = None THEN host_info
                  ELSE RegisterHosts(Arg.hosts, Arg.rcmd, Arg.user)
  /\ Go(phase) /\ UNCHANGED <<opt, purpose, exclude_list, Group, default_rcmd, Use>>

\* An rcmd type that no module has: pdsh ends.
BadRcmdArg ==
  /\ ArgsLeft /\ Arg.kind = "hosts" /\ ~Arg.minus /\ Arg.rcmd # None /\ Arg.rcmd \notin Rcmds
  /\ Go("failed") /\ UNCHANGED <<opt, purpose, Lists, Group, Rcmd, Use>>

ExcludeArg ==
  /\ ArgsLeft /\ Arg.kind = "hosts" /\ Arg.minus /\ exclude_list' = <<Arg.hosts>> \o exclude_list
  /\ Go(phase) /\ UNCHANGED <<opt, purpose, wcoll, have_wcoll, Group, Rcmd, Use>>

\* A regular expression is kept for later: the last one first, which makes no difference.
RegexArg ==
  /\ ArgsLeft /\ Arg.kind = "regex" /\ Go(phase)
  /\ UNCHANGED <<opt, purpose, Lists, Group, Rcmd, Use>>

FileArg ==
  /\ ArgsLeft /\ Arg.kind = "file" /\ ReadFor(Arg.name, IF Arg.minus THEN "exclude" ELSE "targets")
  /\ UNCHANGED <<opt, Lists, Group, Rcmd, Use>>

FileTargets ==
  /\ HaveRead("targets") /\ wcoll' = wcoll \o hl /\ have_wcoll' = TRUE
  /\ UNCHANGED <<opt, phase, given, exclude_list, Group, Rcmd, Use>>

\* list_push_hostlist writes the list in brackets into a buffer.  The buffer is meant to
\* grow (opt.c:1319), but n*=2 < 0x7fffff is n *= (2 < 0x7fffff): it keeps its size, and
\* for a list that does not fit pdsh writes and reallocates for ever.
FileExcluded ==
  /\ HaveRead("exclude")
  /\ \/ Fits(hl) /\ exclude_list' = <<hl>> \o exclude_list /\ UNCHANGED phase
     \/ ~Fits(hl) /\ phase' = "endless" /\ UNCHANGED exclude_list
  /\ UNCHANGED <<opt, given, wcoll, have_wcoll, Group, Rcmd, Use>>

\* rcmd_get_default_module: the first of the ranking that is there.
Ranked == SelectSeq(Rank, LAMBDA r : r \in Rcmds)
DefaultName == IF opt.rcmd # None THEN opt.rcmd ELSE IF Ranked # <<>> THEN Head(Ranked) ELSE None
RegisterDefault ==
  /\ At("args") /\ given = Len(opt.args)
  /\ \/ DefaultName = None /\ Go("groups") /\ UNCHANGED Rcmd
     \/ /\ DefaultName \in Rcmds /\ Registers(DefaultName) /\ default_rcmd' = DefaultName
        /\ Go("groups") /\ UNCHANGED host_info
     \/ DefaultName \notin Rcmds \cup {None} /\ Go("failed") /\ UNCHANGED Rcmd
  /\ UNCHANGED <<opt, given, purpose, Lists, Group, Use>>

----------------------------------------------------------------------------
\* mod_read_wcoll: dshgroup and then machines, in the order of their names; neither
\* goes with -w.
Uniq(s) == SetToSortSeq(ToSet(s), <)
ReadGroup ==
  /\ reader = "idle" /\ groups # <<>>
  /\ phase = "groups" \/ (phase = "exgroups" /\ have_wcoll)
  /\ IF phase = "groups" /\ have_wcoll THEN Go("failed") /\ UNCHANGED purpose
     ELSE ReadWcollPath(GroupPath, Head(groups)) /\ purpose' = "group" /\ UNCHANGED phase
  /\ UNCHANGED <<opt, given, Lists, Group, Rcmd, Use>>

GroupRead ==
  /\ HaveRead("group") /\ group_hosts' = group_hosts \o hl /\ groups' = Tail(groups)
  /\ UNCHANGED <<opt, phase, given, Lists, Rcmd, Use>>

GroupsRead ==
  /\ At("groups") /\ groups = <<>> /\ Go("machines") /\ groups' = opt.exgroups /\ group_hosts' = <<>>
  /\ IF opt.groups = <<>> THEN UNCHANGED <<wcoll, have_wcoll>>
     ELSE wcoll' = Uniq(group_hosts) /\ have_wcoll' = TRUE
  /\ UNCHANGED <<opt, given, purpose, exclude_list, Rcmd, Use>>

ReadMachines ==
  /\ At("machines")
  /\ \/ ~opt.all /\ Go("env") /\ UNCHANGED purpose
     \/ opt.all /\ have_wcoll /\ Go("failed") /\ UNCHANGED purpose
     \/ opt.all /\ ~have_wcoll /\ ReadFor(MachinesFile, "machines")
  /\ UNCHANGED <<opt, given, Lists, Group, Rcmd, Use>>

\* WCOLL counts only if there is no target list at all.
ReadEnv ==
  /\ At("env")
  /\ \/ (have_wcoll \/ opt.env = None) /\ Go("exclude") /\ UNCHANGED purpose
     \/ ~have_wcoll /\ opt.env # None /\ ReadFor(opt.env, "env")
  /\ UNCHANGED <<opt, given, Lists, Group, Rcmd, Use>>

WholeListRead ==
  /\ reader = "read" /\ purpose \in {"machines", "env"} /\ purpose' = None /\ Done
  /\ wcoll' = hl /\ have_wcoll' = TRUE
  /\ phase' = IF purpose = "machines" THEN "env" ELSE "exclude"
  /\ UNCHANGED <<opt, given, exclude_list, Group, Rcmd, Use>>

----------------------------------------------------------------------------
\* hostlist_delete_host takes out the first host that has the name, and no other: what
\* is left of s when taken[h] hosts named h have been deleted.
DeleteFirst(s, taken) ==
  LET Nth(k) == Cardinality({j \in 1..k : s[j] = s[k]})
      kept == SelectSeq([k \in DOMAIN s |-> k], LAMBDA k : Nth(k) > taken[s[k]])
  IN  [i \in DOMAIN kept |-> s[kept[i]]]

LastExcluded(h) == IF exclude_list = <<>> THEN 0 ELSE Times(h, Head(exclude_list))     \* mutant: one list only
Excluded(h) == FoldLeft(LAMBDA n, hosts : n + Times(h, hosts), 0, exclude_list)
ApplyExcluded ==
  /\ At("exclude") /\ Go("regex") /\ wcoll' = DeleteFirst(wcoll, [h \in Host |-> Excluded(h)])
  /\ UNCHANGED <<opt, given, purpose, have_wcoll, exclude_list, Group, Rcmd, Use>>

Passes(h) == \A k \in DOMAIN opt.args :
  opt.args[k].kind = "regex" => (h \in opt.args[k].match <=> ~opt.args[k].minus)
ApplyRegex ==
  /\ At("regex") /\ Go("expand") /\ wcoll' = SelectSeq(wcoll, Passes)
  /\ UNCHANGED <<opt, given, purpose, have_wcoll, exclude_list, Group, Rcmd, Use>>

WcollExpand ==
  /\ At("expand") /\ Go("exgroups") /\ wcoll' = FlattenSeq([k \in DOMAIN wcoll |-> Expand[wcoll[k]]])
  /\ UNCHANGED <<opt, given, purpose, have_wcoll, exclude_list, Group, Rcmd, Use>>

\* mod_postop: dshgroup takes the hosts of -X out, one of each.
PostOp ==
  /\ At("exgroups") /\ (groups = <<>> \/ ~have_wcoll) /\ Go("verify")
  /\ wcoll' = DeleteFirst(wcoll, [h \in Host |-> IF h \in ToSet(group_hosts) THEN 1 ELSE 0])
  /\ UNCHANGED <<opt, given, purpose, have_wcoll, exclude_list, Group, Rcmd, Use>>

Verified == have_wcoll /\ wcoll # <<>> /\ opt.timeouts_ok
Verify ==
  /\ At("verify") /\ Go(IF ~Verified THEN "failed" ELSE IF opt.cmd THEN "init" ELSE "prompt")
  /\ UNCHANGED <<opt, given, purpose, Lists, Group, Rcmd, Use>>

\* The prompt reads a command from standard input and forks, or ends.
Prompt ==
  /\ At("prompt") /\ (Go("init") \/ Go("done"))
  /\ UNCHANGED <<opt, given, purpose, Lists, Group, Rcmd, Use>>

DefaultOnly == <<default_rcmd>>     \* mutant: rcmd_init sees to the default only
Registered == rcmd_modules
\* rcmd_init: with no module registered at all, dsh() ends.
RcmdInit ==
  /\ At("init")
  /\ \/ Registered = <<>> /\ Go("failed") /\ UNCHANGED inits
     \/ Registered # <<>> /\ Go("connect") /\ inits' = Registered
  /\ UNCHANGED <<opt, given, purpose, Lists, Group, Rcmd, conns>>

InfoOf(h) == CHOOSE i \in host_info : i.host = h
RmodOf(h) == IF Known(h) /\ InfoOf(h).rmod # None THEN InfoOf(h).rmod ELSE default_rcmd
UserOf(h) == IF Known(h) THEN InfoOf(h).user ELSE None
\* rcmd_create and rcmd_connect, for one host after the other; a host without an rcmd
\* module is canceled.
Connect ==
  /\ At("connect") /\ Len(conns) < Len(wcoll) /\ Go(phase)
  /\ LET h == wcoll[Len(conns) + 1] IN
       conns' = Append(conns, [host |-> h, rmod |-> RmodOf(h), user |-> UserOf(h)])
  /\ UNCHANGED <<opt, given, purpose, Lists, Group, Rcmd, inits>>

RcmdExit ==
  /\ At("connect") /\ Len(conns) = Len(wcoll) /\ Go("done")
  /\ UNCHANGED <<opt, given, purpose, Lists, Group, Rcmd, Use>>

Read == WcollNext /\ UNCHANGED tgvars

Next ==
  \/ Read \/ HostsArg \/ BadRcmdArg \/ ExcludeArg \/ RegexArg \/ FileArg \/ FileTargets
  \/ FileExcluded \/ RegisterDefault \/ ReadGroup \/ GroupRead \/ GroupsRead \/ ReadMachines
  \/ ReadEnv \/ WholeListRead \/ ApplyExcluded \/ ApplyRegex \/ WcollExpand \/ PostOp \/ Verify
  \/ Prompt \/ RcmdInit \/ Connect \/ RcmdExit

Spec == Init /\ [][Next]_vars /\ WF_vars(Next)

----------------------------------------------------------------------------
TypeOK ==
  /\ WcollTypeOK /\ given \in 0..Len(opt.args)
  /\ wcoll \in Seq(Host) /\ (wcoll # <<>> => have_wcoll)
  /\ \A k \in DOMAIN exclude_list : exclude_list[k] \in Seq(Host)
  /\ \A i \in host_info : i.rmod \in ToSet(rcmd_modules) \cup {None}
  /\ ToSet(rcmd_modules) \cup {default_rcmd} \subseteq Rcmds \cup {None}

\* How often a host stands in the files that are read for a file's name, or in a group.
InFile(h, n) == TimesIn(h, FileOf(n)) + MapThenSumSet(LAMBDA s : TimesIn(h, FileAt[s]),
                                          Reached(PathOf[n], Spelled(PathOf[n], FileOf(n))))
InGroup(h, g) == \E s \in Reached(GroupPath, {Resolve[GroupPath][g]}) : TimesIn(h, FileAt[s]) > 0

\* How often the command line asks for a host with -w, or for it to be left out.
InArg(h, a) == CASE a.kind = "hosts" -> Times(h, a.hosts)
                 [] a.kind = "file"  -> InFile(h, a.name)
                 [] a.kind = "regex" -> 0
IsStdin(k) == opt.args[k].kind = "file" /\ opt.args[k].name = "-"
Drained(k) == IsStdin(k) /\ \E j \in 1..(k - 1) : IsStdin(j)
InArgs(h, minus) == MapThenSumSet(LAMBDA k : InArg(h, opt.args[k]),
                                  {k \in DOMAIN opt.args : opt.args[k].minus = minus /\ ~Drained(k)})
Asked(h) ==
  IF \E k \in DOMAIN opt.args : opt.args[k].kind # "regex" /\ ~opt.args[k].minus THEN InArgs(h, FALSE)
  ELSE IF opt.groups # <<>> THEN (IF \E k \in DOMAIN opt.groups : InGroup(h, opt.groups[k]) THEN 1 ELSE 0)
  ELSE IF opt.all THEN InFile(h, MachinesFile)
  ELSE IF opt.env # None THEN InFile(h, opt.env) ELSE 0

\* What the files give is read once and all of it (Wcoll); and, whatever the order of -w
\* and -x and however the files include each other, a host is a target once for each time
\* it was asked for, less the times it is excluded, if the regular expressions let it pass;
\* before second brackets are expanded.
TargetsAsAsked ==
  /\ TypeOK /\ ReadsWhole
  /\ phase = "expand" =>
       \A h \in Host : Times(h, wcoll) = IF Passes(h) /\ Asked(h) > InArgs(h, TRUE)
                                       THEN Asked(h) - InArgs(h, TRUE) ELSE 0

\* What an argument says of a host: its rcmd type and user are for "these hosts"
\* (doc/pdsh.1.in:128), all it stands for when its brackets, second ones too, are expanded.
Named(k, h) == h \in ToSet(opt.args[k].hosts)
Says(k, h) == /\ opt.args[k].kind = "hosts" /\ ~opt.args[k].minus
              /\ opt.args[k].rcmd # None \/ opt.args[k].user # None
              /\ Named(k, h) \/ \E g \in ToSet(opt.args[k].hosts) : h \in ToSet(Expand[g])
\* The exception: hosts that only second brackets give are not told of it.  They come of
\* wcoll_expand (opt.c:800), when the names with brackets have been registered (rcmd.c:198).
Tells(k, h) == Says(k, h) /\ Named(k, h)
TellsFirst(k, h) == Tells(k, h) /\ \A j \in 1..(k - 1) : ~Tells(j, h)

\* "First registered rcmd type for a host wins" (rcmd.c:201): a host is contacted with the
\* rcmd module and the user of the first argument that tells it of one; a host that no
\* argument tells, with the default module, even if it is one of an argument's second
\* brackets.
FirstRegisteredWins == \A c \in ToSet(conns) :
  \/ /\ \A k \in DOMAIN opt.args : ~Tells(k, c.host)
     /\ c.rmod = DefaultName /\ c.user = None
  \/ \E k \in DOMAIN opt.args :
       /\ TellsFirst(k, c.host) /\ c.user = opt.args[k].user
       /\ c.rmod = IF opt.args[k].rcmd = None THEN DefaultName ELSE opt.args[k].rcmd

\* No host is contacted by an rcmd module whose init has not run, and none runs twice,
\* whichever arguments brought the module in.
InitBeforeConnect ==
  /\ IsInjective(inits)
  /\ \A c \in ToSet(conns) : c.rmod # None => c.rmod \in ToSet(inits)

\* Files that include each other do not keep pdsh reading: every command line leads to a
\* decision - with one exception, a file to be excluded that has more hosts than the buffer
\* of list_push_hostlist has room for: that is where pdsh does not end (opt.c:1319).
Stuck == phase = "endless" /\ ~Fits(hl)
Finishes == <>(phase \in {"done", "failed"} \/ reader = "failed" \/ Stuck)

\* "Exclude the specified hosts" (doc/pdsh.1.in:137): none of them is a target.
ExcludedGone == phase = "verify" => \A k \in DOMAIN exclude_list :
  ToSet(exclude_list[k]) \cap ToSet(wcoll) = {}

----------------------------------------------------------------------------
(* The inductive invariants behind FirstRegisteredWins, InitBeforeConnect and       *)
(* IncludedOnce.                                                                    *)

\* What is registered is what the arguments so far say, the first that says it.
InfosSaid == \A i \in host_info : \E k \in 1..given :
  /\ TellsFirst(k, i.host)
  /\ i = [host |-> i.host, rmod |-> opt.args[k].rcmd, user |-> opt.args[k].user]
SaidKnown == \A k \in 1..given : phase # "failed" /\ opt.args[k].kind = "hosts" =>
  \A h \in ToSet(opt.args[k].hosts) : Tells(k, h) => Known(h)
ArgsInv ==
  /\ opt \in CommandLines /\ given \in 0..Len(opt.args) /\ InfosSaid /\ SaidKnown
  /\ phase = "args" => default_rcmd = None
  /\ phase \notin {"args", "failed", "endless"} => given = Len(opt.args) /\ default_rcmd = DefaultName

\* Every rcmd module in use is on the list once, and rcmd_init goes through the list
\* when it is complete.
Starting == {"args", "groups", "machines", "env", "exclude", "regex", "expand", "exgroups",
             "verify", "prompt", "init"}
ModulesInv ==
  /\ rcmd_modules \in Seq(Rcmds) /\ IsInjective(rcmd_modules)
  /\ \A i \in host_info : i.rmod \in ToSet(rcmd_modules) \cup {None}
  /\ default_rcmd \in ToSet(rcmd_modules) \cup {None}
  /\ conns \in Seq(ToSet(conns)) /\ inits \in {<<>>, rcmd_modules}
  /\ phase \in Starting => inits = <<>> /\ conns = <<>>
  /\ phase = "connect" => inits = rcmd_modules
  /\ \A c \in ToSet(conns) : c.rmod \in ToSet(inits) \cup {None}

\* A file is read for one purpose, which the phase does not outlive.
PurposeInv ==
  /\ reader = "idle" => purpose = None
  /\ purpose \in {"machines", "env"} => phase = purpose
  /\ purpose \in {"targets", "exclude"} => phase = "args"

\* The files that are read are those the command line names.
NamesInv == OpenInv /\ opt \in CommandLines /\ groups \in Seq(Name) /\ given \in 0..Len(opt.args)

RegInv == PurposeInv /\ ArgsInv /\ ModulesInv /\ FirstRegisteredWins

=============================================================================
