--------------------------- MODULE TargetsProofs ---------------------------
(***************************************************************************)
(* Proofs about the target list (Targets, Wcoll): for every command line,  *)
(* of any number of arguments, each host is contacted with the rcmd module *)
(* and the user of the first argument that gives it one, no module is used *)
(* that rcmd_init has not seen; and for all files, whichever include which,*)
(* no path is opened twice but the first.                                  *)
(***************************************************************************)
EXTENDS Targets, FiniteSetTheorems, SequenceTheorems, TLAPS

\* A file is read for one purpose, and the phase waits for it.
LEMMA PurposeStep == PurposeInv /\ [Next]_vars => PurposeInv'
<1> SUFFICES ASSUME PurposeInv, [Next]_vars PROVE PurposeInv'
  OBVIOUS
<1> USE TargetsAssumption DEF PurposeInv, ArgsLeft, At, Go, Done, HaveRead, ReadFor,
    ReadWcoll, ReadWcollPath, Fail, tgvars, wcvars, None
<1>1. CASE Read
  BY <1>1 DEF Read, WcollNext, ReadHosts, ReadComment, ReadInclude, EndOfFile, EndReading,
              Reading
<1>2. CASE HostsArg
  BY <1>2 DEF HostsArg
<1>3. CASE BadRcmdArg
  BY <1>3 DEF BadRcmdArg
<1>4. CASE ExcludeArg
  BY <1>4 DEF ExcludeArg
<1>5. CASE RegexArg
  BY <1>5 DEF RegexArg
<1>6. CASE FileArg
  BY <1>6 DEF FileArg
<1>7. CASE FileTargets
  BY <1>7 DEF FileTargets
<1>8. CASE FileExcluded
  BY <1>8 DEF FileExcluded
<1>9. CASE RegisterDefault
  BY <1>9 DEF RegisterDefault
<1>10. CASE ReadGroup
  BY <1>10 DEF ReadGroup
<1>11. CASE GroupRead
  BY <1>11 DEF GroupRead
<1>12. CASE GroupsRead
  BY <1>12 DEF GroupsRead
<1>13. CASE ReadMachines
  BY <1>13 DEF ReadMachines
<1>14. CASE ReadEnv
  BY <1>14 DEF ReadEnv
<1>15. CASE WholeListRead
  BY <1>15 DEF WholeListRead
<1>16. CASE ApplyExcluded
  BY <1>16 DEF ApplyExcluded
<1>17. CASE ApplyRegex
  BY <1>17 DEF ApplyRegex
<1>18. CASE WcollExpand
  BY <1>18 DEF WcollExpand
<1>19. CASE PostOp
  BY <1>19 DEF PostOp
<1>20. CASE Verify
  BY <1>20 DEF Verify
<1>21. CASE Prompt
  BY <1>21 DEF Prompt
<1>22. CASE RcmdInit
  BY <1>22 DEF RcmdInit
<1>23. CASE Connect
  BY <1>23 DEF Connect
<1>24. CASE RcmdExit
  BY <1>24 DEF RcmdExit
<1>25. CASE UNCHANGED vars
  BY <1>25 DEF vars
<1> QED
  BY <1>1, <1>2, <1>3, <1>4, <1>5, <1>6, <1>7, <1>8, <1>9, <1>10, <1>11, <1>12,
     <1>13, <1>14, <1>15, <1>16, <1>17, <1>18, <1>19, <1>20, <1>21, <1>22, <1>23,
     <1>24, <1>25 DEF Next

\* Steps after the arguments leave what they registered alone.
LEMMA ArgsFrame ==
  ASSUME ArgsInv, UNCHANGED <<opt, given, host_info, default_rcmd>>,
         phase' = "args" => phase = "args",
         phase = "args" => phase' \in {"args", "failed", "endless"},
         phase \in {"failed", "endless"} => phase' = phase
  PROVE  ArgsInv'
<1>1. /\ \A k, h : Tells(k, h)' <=> Tells(k, h)
      /\ \A k, h : TellsFirst(k, h)' <=> TellsFirst(k, h)
      /\ \A h : Known(h)' <=> Known(h)
  BY DEF Tells, Says, Named, TellsFirst, Known
<1>2. InfosSaid'
  BY <1>1 DEF ArgsInv, InfosSaid
<1>3. SaidKnown'
  BY <1>1 DEF ArgsInv, SaidKnown
<1>4. DefaultName' = DefaultName
  BY DEF DefaultName
<1> QED
  BY <1>2, <1>3, <1>4 DEF ArgsInv

\* RegisterDefault ends the arguments, with the default set or in failure.
LEMMA ArgsEnd ==
  ASSUME ArgsInv, UNCHANGED <<opt, given, host_info>>, phase = "args",
         given = Len(opt.args), phase' \in {"groups", "failed"},
         phase' = "groups" => default_rcmd' = DefaultName
  PROVE  ArgsInv'
<1>1. /\ \A k, h : Tells(k, h)' <=> Tells(k, h)
      /\ \A k, h : TellsFirst(k, h)' <=> TellsFirst(k, h)
      /\ \A h : Known(h)' <=> Known(h)
  BY DEF Tells, Says, Named, TellsFirst, Known
<1>2. InfosSaid'
  BY <1>1 DEF ArgsInv, InfosSaid
<1>3. SaidKnown'
  BY <1>1 DEF ArgsInv, SaidKnown
<1>4. DefaultName' = DefaultName
  BY DEF DefaultName
<1> QED
  BY <1>2, <1>3, <1>4 DEF ArgsInv

\* An argument is taken: the next one, which there is.
LEMMA GivenFacts ==
  ASSUME ArgsInv, ArgsLeft
  PROVE  /\ given \in Nat /\ Len(opt.args) \in Nat /\ given' = given + 1
         /\ given' \in 0..Len(opt.args) /\ phase = "args"
         /\ \A k \in 1..given' : k \in 1..given \/ k = given + 1
<1>1. Len(opt.args) \in Nat
  BY TargetsAssumption DEF ArgsInv
<1> QED
  BY <1>1 DEF ArgsInv, ArgsLeft, At

\* An argument that registers nothing for a host.
LEMMA ArgSilent ==
  ASSUME ArgsInv, ArgsLeft, UNCHANGED <<opt, host_info, default_rcmd>>,
         phase' = "failed" \/ (phase' = phase /\ \A h : ~Tells(given + 1, h))
  PROVE  ArgsInv'
<1>1. /\ \A k, h : Tells(k, h)' <=> Tells(k, h)
      /\ \A k, h : TellsFirst(k, h)' <=> TellsFirst(k, h)
      /\ \A h : Known(h)' <=> Known(h)
  BY DEF Tells, Says, Named, TellsFirst, Known
<1>2. \A k \in 1..given : k \in 1..given'
  BY GivenFacts
<1>3. /\ opt' \in CommandLines /\ given' \in 0..Len(opt'.args)
      /\ phase' = "args" => default_rcmd' = None
      /\ phase' \in {"args", "failed", "endless"}
  BY GivenFacts DEF ArgsInv
<1>4. InfosSaid'
  BY <1>1, <1>2 DEF ArgsInv, InfosSaid
<1>5. SaidKnown'
  BY <1>1, GivenFacts DEF ArgsInv, SaidKnown
<1> QED
  BY <1>3, <1>4, <1>5 DEF ArgsInv

\* An argument of hosts: those it is the first to say something of get its words.
LEMMA HostsArgStep == ArgsInv /\ HostsArg => ArgsInv'
<1> SUFFICES ASSUME ArgsInv, HostsArg PROVE ArgsInv'
  OBVIOUS
<1>0. /\ ArgsLeft /\ UNCHANGED <<opt, phase, default_rcmd>>
      /\ Arg.kind = "hosts" /\ ~Arg.minus
  BY DEF HostsArg, Go
<1>1. CASE Arg.rcmd = None /\ Arg.user = None
  <2>1. host_info' = host_info /\ \A h : ~Tells(given + 1, h)
    BY <1>1 DEF HostsArg, Tells, Says, Named, Arg
  <2> QED
    BY <1>0, <2>1, ArgSilent
<1>2. CASE Arg.rcmd # None \/ Arg.user # None
  <2> DEFINE hosts == ToSet(Arg.hosts)
             new == {h \in hosts : ~Known(h)}
  <2>1. host_info' = host_info \cup Infos(new, Arg.rcmd, Arg.user)
    BY <1>2 DEF HostsArg, RegisterHosts
  <2>2. \A h : Tells(given + 1, h) <=> h \in hosts
    BY <1>0, <1>2 DEF Tells, Says, Named, Arg
  <2>3. /\ \A k, h : Tells(k, h)' <=> Tells(k, h)
        /\ \A k, h : TellsFirst(k, h)' <=> TellsFirst(k, h)
    BY <1>0 DEF Tells, Says, Named, TellsFirst
  <2>4. \A h : Known(h) => Known(h)'
    BY <2>1 DEF Known
  <2>5. ASSUME NEW h \in hosts PROVE Known(h)'
    <3>1. CASE Known(h)
      BY <2>4, <3>1
    <3>2. CASE ~Known(h)
      <4> DEFINE i == [host |-> h, rmod |-> Arg.rcmd, user |-> Arg.user]
      <4>1. i \in host_info'
        BY <2>1, <3>2 DEF Infos
      <4> QED
        BY <4>1 DEF Known
    <3> QED
      BY <3>1, <3>2
  <2> HIDE DEF hosts
  <2>6. /\ opt' \in CommandLines /\ given' \in 0..Len(opt'.args)
        /\ phase' = "args" /\ default_rcmd' = None /\ phase = "args"
    BY <1>0, GivenFacts DEF ArgsInv
  <2>7. ASSUME NEW i \in host_info'
        PROVE  \E k \in 1..given' : TellsFirst(k, i.host)'
                 /\ i = [host |-> i.host, rmod |-> opt'.args[k].rcmd,
                         user |-> opt'.args[k].user]
    <3>1. CASE i \in host_info
      BY <1>0, <2>3, <3>1, GivenFacts DEF ArgsInv, InfosSaid
    <3>2. CASE i \notin host_info
      <4>1. PICK h \in new : i = [host |-> h, rmod |-> Arg.rcmd, user |-> Arg.user]
        BY <2>1, <3>2 DEF Infos
      <4>2. \A j \in 1..given : ~Tells(j, h)
        BY <4>1, <2>6 DEF ArgsInv, SaidKnown, Tells, Says, Named
      <4>3. TellsFirst(given + 1, h)
        BY <4>1, <4>2, <2>2, <1>0, GivenFacts DEF TellsFirst
      <4> QED
        BY <1>0, <2>3, <4>1, <4>3, GivenFacts DEF Arg
    <3> QED
      BY <3>1, <3>2
  <2>8. InfosSaid'
    BY <2>7 DEF InfosSaid
  <2>9. SaidKnown'
    BY <1>0, <2>2, <2>3, <2>4, <2>5, <2>6, GivenFacts DEF ArgsInv, SaidKnown, Arg
  <2> QED
    BY <2>6, <2>8, <2>9 DEF ArgsInv
<1> QED
  BY <1>1, <1>2

\* Every step keeps what the arguments have registered.
LEMMA ArgsStep == PurposeInv /\ ArgsInv /\ [Next]_vars => ArgsInv'
<1> SUFFICES ASSUME PurposeInv, ArgsInv, [Next]_vars PROVE ArgsInv'
  OBVIOUS
<1> USE DEF PurposeInv, ArgsLeft, At, Go, Done, HaveRead, ReadFor,
    Lists, Group, Rcmd, Use, tgvars, wcvars
<1>1. CASE Read
  <2>1. /\ UNCHANGED <<opt, given, host_info, default_rcmd>>
        /\ phase' = "args" => phase = "args"
        /\ phase = "args" => phase' \in {"args", "failed", "endless"}
        /\ phase \in {"failed", "endless"} => phase' = phase
    BY <1>1 DEF Read
  <2> QED
    BY <2>1, ArgsFrame
<1>2. CASE HostsArg
  BY <1>2, HostsArgStep
<1>3. CASE BadRcmdArg
  <2>1. /\ ArgsLeft /\ UNCHANGED <<opt, host_info, default_rcmd>>
        /\ phase' = "failed" \/ (phase' = phase /\ \A h : ~Tells(given + 1, h))
    BY <1>3 DEF BadRcmdArg, Tells, Says, Named, Arg
  <2> QED
    BY <2>1, ArgSilent
<1>4. CASE ExcludeArg
  <2>1. /\ ArgsLeft /\ UNCHANGED <<opt, host_info, default_rcmd>>
        /\ phase' = "failed" \/ (phase' = phase /\ \A h : ~Tells(given + 1, h))
    BY <1>4 DEF ExcludeArg, Tells, Says, Named, Arg
  <2> QED
    BY <2>1, ArgSilent
<1>5. CASE RegexArg
  <2>1. /\ ArgsLeft /\ UNCHANGED <<opt, host_info, default_rcmd>>
        /\ phase' = "failed" \/ (phase' = phase /\ \A h : ~Tells(given + 1, h))
    BY <1>5 DEF RegexArg, Tells, Says, Named, Arg
  <2> QED
    BY <2>1, ArgSilent
<1>6. CASE FileArg
  <2>1. /\ ArgsLeft /\ UNCHANGED <<opt, host_info, default_rcmd>>
        /\ phase' = "failed" \/ (phase' = phase /\ \A h : ~Tells(given + 1, h))
    BY <1>6 DEF FileArg, Tells, Says, Named, Arg
  <2> QED
    BY <2>1, ArgSilent
<1>7. CASE FileTargets
  <2>1. /\ UNCHANGED <<opt, given, host_info, default_rcmd>>
        /\ phase' = "args" => phase = "args"
        /\ phase = "args" => phase' \in {"args", "failed", "endless"}
        /\ phase \in {"failed", "endless"} => phase' = phase
    BY <1>7 DEF FileTargets
  <2> QED
    BY <2>1, ArgsFrame
<1>8. CASE FileExcluded
  <2>1. /\ UNCHANGED <<opt, given, host_info, default_rcmd>>
        /\ phase' = "args" => phase = "args"
        /\ phase = "args" => phase' \in {"args", "failed", "endless"}
        /\ phase \in {"failed", "endless"} => phase' = phase
    BY <1>8 DEF FileExcluded
  <2> QED
    BY <2>1, ArgsFrame
<1>9. CASE RegisterDefault
  <2>1. /\ UNCHANGED <<opt, given, host_info>> /\ phase = "args"
        /\ given = Len(opt.args) /\ phase' \in {"groups", "failed"}
    BY <1>9 DEF RegisterDefault
  <2>2. phase' = "groups" => default_rcmd' = DefaultName
    BY <1>9 DEF RegisterDefault, ArgsInv
  <2> QED
    BY <2>1, <2>2, ArgsEnd
<1>10. CASE ReadGroup
  <2>1. /\ UNCHANGED <<opt, given, host_info, default_rcmd>>
        /\ phase' = "args" => phase = "args"
        /\ phase = "args" => phase' \in {"args", "failed", "endless"}
        /\ phase \in {"failed", "endless"} => phase' = phase
    BY <1>10 DEF ReadGroup
  <2> QED
    BY <2>1, ArgsFrame
<1>11. CASE GroupRead
  <2>1. /\ UNCHANGED <<opt, given, host_info, default_rcmd>>
        /\ phase' = "args" => phase = "args"
        /\ phase = "args" => phase' \in {"args", "failed", "endless"}
        /\ phase \in {"failed", "endless"} => phase' = phase
    BY <1>11 DEF GroupRead
  <2> QED
    BY <2>1, ArgsFrame
<1>12. CASE GroupsRead
  <2>1. /\ UNCHANGED <<opt, given, host_info, default_rcmd>>
        /\ phase' = "args" => phase = "args"
        /\ phase = "args" => phase' \in {"args", "failed", "endless"}
        /\ phase \in {"failed", "endless"} => phase' = phase
    BY <1>12 DEF GroupsRead
  <2> QED
    BY <2>1, ArgsFrame
<1>13. CASE ReadMachines
  <2>1. /\ UNCHANGED <<opt, given, host_info, default_rcmd>>
        /\ phase' = "args" => phase = "args"
        /\ phase = "args" => phase' \in {"args", "failed", "endless"}
        /\ phase \in {"failed", "endless"} => phase' = phase
    BY <1>13 DEF ReadMachines
  <2> QED
    BY <2>1, ArgsFrame
<1>14. CASE ReadEnv
  <2>1. /\ UNCHANGED <<opt, given, host_info, default_rcmd>>
        /\ phase' = "args" => phase = "args"
        /\ phase = "args" => phase' \in {"args", "failed", "endless"}
        /\ phase \in {"failed", "endless"} => phase' = phase
    BY <1>14 DEF ReadEnv
  <2> QED
    BY <2>1, ArgsFrame
<1>15. CASE WholeListRead
  <2>1. /\ UNCHANGED <<opt, given, host_info, default_rcmd>>
        /\ phase' = "args" => phase = "args"
        /\ phase = "args" => phase' \in {"args", "failed", "endless"}
        /\ phase \in {"failed", "endless"} => phase' = phase
    BY <1>15 DEF WholeListRead
  <2> QED
    BY <2>1, ArgsFrame
<1>16. CASE ApplyExcluded
  <2>1. /\ UNCHANGED <<opt, given, host_info, default_rcmd>>
        /\ phase' = "args" => phase = "args"
        /\ phase = "args" => phase' \in {"args", "failed", "endless"}
        /\ phase \in {"failed", "endless"} => phase' = phase
    BY <1>16 DEF ApplyExcluded
  <2> QED
    BY <2>1, ArgsFrame
<1>17. CASE ApplyRegex
  <2>1. /\ UNCHANGED <<opt, given, host_info, default_rcmd>>
        /\ phase' = "args" => phase = "args"
        /\ phase = "args" => phase' \in {"args", "failed", "endless"}
        /\ phase \in {"failed", "endless"} => phase' = phase
    BY <1>17 DEF ApplyRegex
  <2> QED
    BY <2>1, ArgsFrame
<1>18. CASE WcollExpand
  <2>1. /\ UNCHANGED <<opt, given, host_info, default_rcmd>>
        /\ phase' = "args" => phase = "args"
        /\ phase = "args" => phase' \in {"args", "failed", "endless"}
        /\ phase \in {"failed", "endless"} => phase' = phase
    BY <1>18 DEF WcollExpand
  <2> QED
    BY <2>1, ArgsFrame
<1>19. CASE PostOp
  <2>1. /\ UNCHANGED <<opt, given, host_info, default_rcmd>>
        /\ phase' = "args" => phase = "args"
        /\ phase = "args" => phase' \in {"args", "failed", "endless"}
        /\ phase \in {"failed", "endless"} => phase' = phase
    BY <1>19 DEF PostOp
  <2> QED
    BY <2>1, ArgsFrame
<1>20. CASE Verify
  <2>1. /\ UNCHANGED <<opt, given, host_info, default_rcmd>>
        /\ phase' = "args" => phase = "args"
        /\ phase = "args" => phase' \in {"args", "failed", "endless"}
        /\ phase \in {"failed", "endless"} => phase' = phase
    BY <1>20 DEF Verify
  <2> QED
    BY <2>1, ArgsFrame
<1>21. CASE Prompt
  <2>1. /\ UNCHANGED <<opt, given, host_info, default_rcmd>>
        /\ phase' = "args" => phase = "args"
        /\ phase = "args" => phase' \in {"args", "failed", "endless"}
        /\ phase \in {"failed", "endless"} => phase' = phase
    BY <1>21 DEF Prompt
  <2> QED
    BY <2>1, ArgsFrame
<1>22. CASE RcmdInit
  <2>1. /\ UNCHANGED <<opt, given, host_info, default_rcmd>>
        /\ phase' = "args" => phase = "args"
        /\ phase = "args" => phase' \in {"args", "failed", "endless"}
        /\ phase \in {"failed", "endless"} => phase' = phase
    BY <1>22 DEF RcmdInit
  <2> QED
    BY <2>1, ArgsFrame
<1>23. CASE Connect
  <2>1. /\ UNCHANGED <<opt, given, host_info, default_rcmd>>
        /\ phase' = "args" => phase = "args"
        /\ phase = "args" => phase' \in {"args", "failed", "endless"}
        /\ phase \in {"failed", "endless"} => phase' = phase
    BY <1>23 DEF Connect
  <2> QED
    BY <2>1, ArgsFrame
<1>24. CASE RcmdExit
  <2>1. /\ UNCHANGED <<opt, given, host_info, default_rcmd>>
        /\ phase' = "args" => phase = "args"
        /\ phase = "args" => phase' \in {"args", "failed", "endless"}
        /\ phase \in {"failed", "endless"} => phase' = phase
    BY <1>24 DEF RcmdExit
  <2> QED
    BY <2>1, ArgsFrame
<1>25. CASE UNCHANGED vars
  BY ArgsFrame, <1>25 DEF vars
<1> QED
  BY <1>1, <1>2, <1>3, <1>4, <1>5, <1>6, <1>7, <1>8, <1>9, <1>10, <1>11, <1>12,
     <1>13, <1>14, <1>15, <1>16, <1>17, <1>18, <1>19, <1>20, <1>21, <1>22, <1>23,
     <1>24, <1>25 DEF Next

\* The elements of a sequence and of the one with x at its end.
LEMMA AppendSet ==
  ASSUME NEW s, s \in Seq(ToSet(s)), NEW x
  PROVE  /\ ToSet(Append(s, x)) = ToSet(s) \cup {x}
         /\ Append(s, x) \in Seq(ToSet(Append(s, x)))
<1> DEFINE S == ToSet(s) \cup {x}
<1>1. s \in Seq(S) /\ x \in S
  <2>1. \A k \in 1..Len(s) : s[k] \in S
    OBVIOUS
  <2> QED
    BY <2>1
<1> HIDE DEF S
<1>2. /\ Append(s, x) \in Seq(S) /\ DOMAIN Append(s, x) = 1..Len(s) + 1
      /\ \A k \in 1..Len(s) : Append(s, x)[k] = s[k]
      /\ Append(s, x)[Len(s) + 1] = x
      /\ DOMAIN s = 1..Len(s) /\ Len(s) \in Nat
  BY <1>1
<1>3. ToSet(Append(s, x)) = ToSet(s) \cup {x}
  BY <1>2 DEF ToSet
<1> QED
  BY <1>2, <1>3 DEF S

\* Every sequence is one of its own elements.
LEMMA SeqOfSet ==
  ASSUME NEW R, NEW s \in Seq(R)
  PROVE  s \in Seq(ToSet(s)) /\ ToSet(s) \subseteq R
<1>1. \A k \in 1..Len(s) : s[k] \in ToSet(s)
  BY DEF ToSet
<1> QED
  BY <1>1 DEF ToSet

\* rcmd_module_register puts a module on the list once.
LEMMA RegisterFacts ==
  ASSUME ModulesInv, NEW r \in Rcmds, Registers(r)
  PROVE  /\ rcmd_modules' \in Seq(Rcmds) /\ IsInjective(rcmd_modules')
         /\ ToSet(rcmd_modules') = ToSet(rcmd_modules) \cup {r}
<1>1. rcmd_modules \in Seq(Rcmds) /\ IsInjective(rcmd_modules)
  BY DEF ModulesInv
<1>2. CASE r \in ToSet(rcmd_modules)
  BY <1>1, <1>2 DEF Registers
<1>3. CASE r \notin ToSet(rcmd_modules)
  <2>1. rcmd_modules' = Append(rcmd_modules, r)
    BY <1>3 DEF Registers
  <2>2. ToSet(rcmd_modules') = ToSet(rcmd_modules) \cup {r}
    BY <1>1, <2>1, SeqOfSet, AppendSet
  <2>3. \A k \in 1..Len(rcmd_modules) : rcmd_modules[k] # r
    BY <1>1, <1>3 DEF ToSet
  <2>4. IsInjective(rcmd_modules')
    BY <1>1, <2>1, <2>3 DEF IsInjective
  <2> QED
    BY <1>1, <2>1, <2>2, <2>4
<1> QED
  BY <1>2, <1>3

\* The module of a host is on the list, or there is none.
LEMMA RmodFacts ==
  ASSUME ModulesInv, NEW h
  PROVE  RmodOf(h) \in ToSet(rcmd_modules) \cup {None}
BY DEF ModulesInv, RmodOf, InfoOf, Known

\* Steps that register and connect nothing.
LEMMA ModulesFrame ==
  ASSUME ModulesInv, UNCHANGED <<rcmd_modules, host_info, default_rcmd, inits, conns>>,
         phase' \in Starting => phase \in Starting,
         phase' = "connect" => phase = "connect"
  PROVE  ModulesInv'
BY DEF ModulesInv

\* Every step keeps the module list and the calls of rcmd_init in accord.
LEMMA ModulesStep == PurposeInv /\ ModulesInv /\ [Next]_vars => ModulesInv'
<1> SUFFICES ASSUME PurposeInv, ModulesInv, [Next]_vars PROVE ModulesInv'
  OBVIOUS
<1> USE DEF PurposeInv, Starting, ArgsLeft, At, Go, Done, HaveRead, ReadFor,
    Lists, Group, Rcmd, Use, tgvars, wcvars
<1>1. CASE Read
  <2>1. /\ UNCHANGED <<rcmd_modules, host_info, default_rcmd, inits, conns>>
        /\ phase' \in Starting => phase \in Starting
        /\ phase' = "connect" => phase = "connect"
    BY <1>1 DEF Read
  <2> QED
    BY <2>1, ModulesFrame
<1>2. CASE HostsArg
  <2>1. /\ UNCHANGED <<default_rcmd, inits, conns>> /\ phase' = "args" /\ phase = "args"
    BY <1>2 DEF HostsArg
  <2>2. CASE Arg.rcmd = None
    <3>1. rcmd_modules' = rcmd_modules
      BY <1>2, <2>2 DEF HostsArg
    <3>2. \A i \in host_info' : i \in host_info \/ i.rmod = None
      BY <1>2, <2>2 DEF HostsArg, RegisterHosts, Infos
    <3> QED
      BY <2>1, <3>1, <3>2 DEF ModulesInv
  <2>3. CASE Arg.rcmd # None
    <3>1. Arg.rcmd \in Rcmds /\ Registers(Arg.rcmd)
      BY <1>2, <2>3 DEF HostsArg
    <3>2. \A i \in host_info' : i \in host_info \/ i.rmod = Arg.rcmd
      BY <1>2, <2>3 DEF HostsArg, RegisterHosts, Infos
    <3> QED
      BY <2>1, <3>1, <3>2, RegisterFacts DEF ModulesInv
  <2> QED
    BY <2>2, <2>3
<1>3. CASE BadRcmdArg
  <2>1. /\ UNCHANGED <<rcmd_modules, host_info, default_rcmd, inits, conns>>
        /\ phase' \in Starting => phase \in Starting
        /\ phase' = "connect" => phase = "connect"
    BY <1>3 DEF BadRcmdArg
  <2> QED
    BY <2>1, ModulesFrame
<1>4. CASE ExcludeArg
  <2>1. /\ UNCHANGED <<rcmd_modules, host_info, default_rcmd, inits, conns>>
        /\ phase' \in Starting => phase \in Starting
        /\ phase' = "connect" => phase = "connect"
    BY <1>4 DEF ExcludeArg
  <2> QED
    BY <2>1, ModulesFrame
<1>5. CASE RegexArg
  <2>1. /\ UNCHANGED <<rcmd_modules, host_info, default_rcmd, inits, conns>>
        /\ phase' \in Starting => phase \in Starting
        /\ phase' = "connect" => phase = "connect"
    BY <1>5 DEF RegexArg
  <2> QED
    BY <2>1, ModulesFrame
<1>6. CASE FileArg
  <2>1. /\ UNCHANGED <<rcmd_modules, host_info, default_rcmd, inits, conns>>
        /\ phase' \in Starting => phase \in Starting
        /\ phase' = "connect" => phase = "connect"
    BY <1>6 DEF FileArg
  <2> QED
    BY <2>1, ModulesFrame
<1>7. CASE FileTargets
  <2>1. /\ UNCHANGED <<rcmd_modules, host_info, default_rcmd, inits, conns>>
        /\ phase' \in Starting => phase \in Starting
        /\ phase' = "connect" => phase = "connect"
    BY <1>7 DEF FileTargets
  <2> QED
    BY <2>1, ModulesFrame
<1>8. CASE FileExcluded
  <2>1. /\ UNCHANGED <<rcmd_modules, host_info, default_rcmd, inits, conns>>
        /\ phase' \in Starting => phase \in Starting
        /\ phase' = "connect" => phase = "connect"
    BY <1>8 DEF FileExcluded
  <2> QED
    BY <2>1, ModulesFrame
<1>9. CASE RegisterDefault
  <2>1. /\ UNCHANGED <<host_info, inits, conns>> /\ phase' \in {"groups", "failed"}
        /\ phase = "args"
    BY <1>9 DEF RegisterDefault
  <2>2. CASE UNCHANGED <<rcmd_modules, default_rcmd>>
    BY <2>1, <2>2, ModulesFrame
  <2>3. CASE DefaultName \in Rcmds /\ Registers(DefaultName) /\ default_rcmd' = DefaultName
    BY <2>1, <2>3, RegisterFacts DEF ModulesInv
  <2> QED
    BY <1>9, <2>2, <2>3 DEF RegisterDefault
<1>10. CASE ReadGroup
  <2>1. /\ UNCHANGED <<rcmd_modules, host_info, default_rcmd, inits, conns>>
        /\ phase' \in Starting => phase \in Starting
        /\ phase' = "connect" => phase = "connect"
    BY <1>10 DEF ReadGroup
  <2> QED
    BY <2>1, ModulesFrame
<1>11. CASE GroupRead
  <2>1. /\ UNCHANGED <<rcmd_modules, host_info, default_rcmd, inits, conns>>
        /\ phase' \in Starting => phase \in Starting
        /\ phase' = "connect" => phase = "connect"
    BY <1>11 DEF GroupRead
  <2> QED
    BY <2>1, ModulesFrame
<1>12. CASE GroupsRead
  <2>1. /\ UNCHANGED <<rcmd_modules, host_info, default_rcmd, inits, conns>>
        /\ phase' \in Starting => phase \in Starting
        /\ phase' = "connect" => phase = "connect"
    BY <1>12 DEF GroupsRead
  <2> QED
    BY <2>1, ModulesFrame
<1>13. CASE ReadMachines
  <2>1. /\ UNCHANGED <<rcmd_modules, host_info, default_rcmd, inits, conns>>
        /\ phase' \in Starting => phase \in Starting
        /\ phase' = "connect" => phase = "connect"
    BY <1>13 DEF ReadMachines
  <2> QED
    BY <2>1, ModulesFrame
<1>14. CASE ReadEnv
  <2>1. /\ UNCHANGED <<rcmd_modules, host_info, default_rcmd, inits, conns>>
        /\ phase' \in Starting => phase \in Starting
        /\ phase' = "connect" => phase = "connect"
    BY <1>14 DEF ReadEnv
  <2> QED
    BY <2>1, ModulesFrame
<1>15. CASE WholeListRead
  <2>1. /\ UNCHANGED <<rcmd_modules, host_info, default_rcmd, inits, conns>>
        /\ phase' \in Starting => phase \in Starting
        /\ phase' = "connect" => phase = "connect"
    BY <1>15 DEF WholeListRead
  <2> QED
    BY <2>1, ModulesFrame
<1>16. CASE ApplyExcluded
  <2>1. /\ UNCHANGED <<rcmd_modules, host_info, default_rcmd, inits, conns>>
        /\ phase' \in Starting => phase \in Starting
        /\ phase' = "connect" => phase = "connect"
    BY <1>16 DEF ApplyExcluded
  <2> QED
    BY <2>1, ModulesFrame
<1>17. CASE ApplyRegex
  <2>1. /\ UNCHANGED <<rcmd_modules, host_info, default_rcmd, inits, conns>>
        /\ phase' \in Starting => phase \in Starting
        /\ phase' = "connect" => phase = "connect"
    BY <1>17 DEF ApplyRegex
  <2> QED
    BY <2>1, ModulesFrame
<1>18. CASE WcollExpand
  <2>1. /\ UNCHANGED <<rcmd_modules, host_info, default_rcmd, inits, conns>>
        /\ phase' \in Starting => phase \in Starting
        /\ phase' = "connect" => phase = "connect"
    BY <1>18 DEF WcollExpand
  <2> QED
    BY <2>1, ModulesFrame
<1>19. CASE PostOp
  <2>1. /\ UNCHANGED <<rcmd_modules, host_info, default_rcmd, inits, conns>>
        /\ phase' \in Starting => phase \in Starting
        /\ phase' = "connect" => phase = "connect"
    BY <1>19 DEF PostOp
  <2> QED
    BY <2>1, ModulesFrame
<1>20. CASE Verify
  <2>1. /\ UNCHANGED <<rcmd_modules, host_info, default_rcmd, inits, conns>>
        /\ phase' \in Starting => phase \in Starting
        /\ phase' = "connect" => phase = "connect"
    BY <1>20 DEF Verify
  <2> QED
    BY <2>1, ModulesFrame
<1>21. CASE Prompt
  <2>1. /\ UNCHANGED <<rcmd_modules, host_info, default_rcmd, inits, conns>>
        /\ phase' \in Starting => phase \in Starting
        /\ phase' = "connect" => phase = "connect"
    BY <1>21 DEF Prompt
  <2> QED
    BY <2>1, ModulesFrame
<1>22. CASE RcmdInit
  <2>1. /\ UNCHANGED <<rcmd_modules, host_info, default_rcmd, conns>>
        /\ inits = <<>> /\ conns = <<>> /\ phase' \in {"connect", "failed"}
        /\ phase' = "connect" => inits' = rcmd_modules
        /\ inits' \in {<<>>, rcmd_modules}
    BY <1>22 DEF RcmdInit, ModulesInv, Registered
  <2>2. ToSet(conns') = {}
    BY <2>1 DEF ToSet
  <2> QED
    BY <2>1, <2>2 DEF ModulesInv
<1>23. CASE Connect
  <2> DEFINE h == wcoll[Len(conns) + 1]
             c == [host |-> h, rmod |-> RmodOf(h), user |-> UserOf(h)]
  <2>1. /\ UNCHANGED <<rcmd_modules, host_info, default_rcmd, inits>>
        /\ phase = "connect" /\ phase' = "connect" /\ inits = rcmd_modules
        /\ conns' = Append(conns, c)
    BY <1>23 DEF Connect, ModulesInv
  <2>2. RmodOf(h) \in ToSet(rcmd_modules) \cup {None}
    BY RmodFacts
  <2>3. c.rmod = RmodOf(h)
    OBVIOUS
  <2> HIDE DEF c
  <2>4. conns' \in Seq(ToSet(conns')) /\ ToSet(conns') = ToSet(conns) \cup {c}
    BY <2>1, AppendSet DEF ModulesInv
  <2> QED
    BY <2>1, <2>2, <2>3, <2>4 DEF ModulesInv
<1>24. CASE RcmdExit
  <2>1. /\ UNCHANGED <<rcmd_modules, host_info, default_rcmd, inits, conns>>
        /\ phase' \in Starting => phase \in Starting
        /\ phase' = "connect" => phase = "connect"
    BY <1>24 DEF RcmdExit
  <2> QED
    BY <2>1, ModulesFrame
<1>25. CASE UNCHANGED vars
  BY ModulesFrame, <1>25 DEF vars
<1> QED
  BY <1>1, <1>2, <1>3, <1>4, <1>5, <1>6, <1>7, <1>8, <1>9, <1>10, <1>11, <1>12,
     <1>13, <1>14, <1>15, <1>16, <1>17, <1>18, <1>19, <1>20, <1>21, <1>22, <1>23,
     <1>24, <1>25 DEF Next

\* A connection gets the module and the user of its host's first word.
LEMMA FirstStep == RegInv /\ [Next]_vars => FirstRegisteredWins'
<1> SUFFICES ASSUME PurposeInv, ArgsInv, ModulesInv, FirstRegisteredWins, [Next]_vars
             PROVE  FirstRegisteredWins'
  BY DEF RegInv
<1>1. opt' = opt
  BY DEF Next, Read, HostsArg, BadRcmdArg, ExcludeArg, RegexArg, FileArg, FileTargets,
     FileExcluded, RegisterDefault, ReadGroup, GroupRead, GroupsRead, ReadMachines,
     ReadEnv, WholeListRead, ApplyExcluded, ApplyRegex, WcollExpand, PostOp, Verify,
     Prompt, RcmdInit, Connect, RcmdExit, tgvars, vars
<1>2. /\ \A k, h : Tells(k, h)' <=> Tells(k, h)
      /\ \A k, h : TellsFirst(k, h)' <=> TellsFirst(k, h)
      /\ DefaultName' = DefaultName
  BY <1>1 DEF Tells, Says, Named, TellsFirst, DefaultName
<1>3. CASE conns' = conns
  BY <1>1, <1>2, <1>3 DEF FirstRegisteredWins
<1>4. CASE Connect
  <2> DEFINE h == wcoll[Len(conns) + 1]
             c == [host |-> h, rmod |-> RmodOf(h), user |-> UserOf(h)]
  <2>1. ToSet(conns') = ToSet(conns) \cup {c}
    BY <1>4, AppendSet DEF Connect, ModulesInv
  <2>2. given = Len(opt.args) /\ default_rcmd = DefaultName /\ phase = "connect"
    BY <1>4 DEF Connect, At, ArgsInv
  <2>3. DOMAIN opt.args = 1..Len(opt.args)
    BY TargetsAssumption DEF ArgsInv
  <2>4. \/ /\ \A k \in DOMAIN opt.args : ~Tells(k, h)
           /\ RmodOf(h) = DefaultName /\ UserOf(h) = None
        \/ \E k \in DOMAIN opt.args :
             /\ TellsFirst(k, h) /\ UserOf(h) = opt.args[k].user
             /\ RmodOf(h) = IF opt.args[k].rcmd = None THEN DefaultName ELSE opt.args[k].rcmd
    <3>1. CASE Known(h)
      <4>1. InfoOf(h) \in host_info /\ InfoOf(h).host = h
        BY <3>1 DEF Known, InfoOf
      <4>2. PICK k \in 1..given :
              /\ TellsFirst(k, h)
              /\ InfoOf(h).rmod = opt.args[k].rcmd /\ InfoOf(h).user = opt.args[k].user
        <5>1. PICK k \in 1..given :
                /\ TellsFirst(k, h)
                /\ InfoOf(h) = [host |-> h, rmod |-> opt.args[k].rcmd,
                                 user |-> opt.args[k].user]
          BY <4>1 DEF ArgsInv, InfosSaid
        <5> QED
          BY <5>1
      <4> QED
        BY <2>2, <2>3, <3>1, <4>2 DEF RmodOf, UserOf
    <3>2. CASE ~Known(h)
      <4>1. \A k \in DOMAIN opt.args : ~Tells(k, h)
        BY <2>2, <2>3, <3>2 DEF ArgsInv, SaidKnown, Tells, Says, Named
      <4> QED
        BY <2>2, <3>2, <4>1 DEF RmodOf, UserOf
    <3> QED
      BY <3>1, <3>2
  <2>5. c.host = h /\ c.rmod = RmodOf(h) /\ c.user = UserOf(h)
    OBVIOUS
  <2> HIDE DEF c, h
  <2> QED
    BY <1>1, <1>2, <2>1, <2>4, <2>5 DEF FirstRegisteredWins
<1>5. Connect \/ conns' = conns
  BY DEF Next, Read, HostsArg, BadRcmdArg, ExcludeArg, RegexArg, FileArg, FileTargets,
     FileExcluded, RegisterDefault, ReadGroup, GroupRead, GroupsRead, ReadMachines,
     ReadEnv, WholeListRead, ApplyExcluded, ApplyRegex, WcollExpand, PostOp, Verify,
     Prompt, RcmdInit, RcmdExit, Use, tgvars, vars
<1> QED
  BY <1>3, <1>4, <1>5

(***************************************************************************)
(* The theorems.                                                           *)
(***************************************************************************)

\* What the arguments have registered, what the module list holds and what has been
\* connected to agree through every step of opt_args, rcmd_init and dsh().
THEOREM Registration == Spec => []RegInv
<1>1. Init => RegInv
  <2> SUFFICES ASSUME Init PROVE RegInv
    OBVIOUS
  <2>1. /\ phase = "args" /\ given = 0 /\ purpose = None /\ opt \in CommandLines
        /\ rcmd_modules = <<>> /\ host_info = {} /\ default_rcmd = None
        /\ inits = <<>> /\ conns = <<>> /\ Len(opt.args) \in Nat
    BY TargetsAssumption DEF Init
  <2>2. PurposeInv /\ ArgsInv
    BY <2>1 DEF PurposeInv, ArgsInv, InfosSaid, SaidKnown, None
  <2>3. ToSet(<<>>) = {}
    BY DEF ToSet
  <2>4. ModulesInv /\ FirstRegisteredWins
    BY <2>1, <2>3 DEF ModulesInv, IsInjective, FirstRegisteredWins
  <2> QED
    BY <2>2, <2>4 DEF RegInv
<1>2. RegInv /\ [Next]_vars => RegInv'
  BY PurposeStep, ArgsStep, ModulesStep, FirstStep DEF RegInv
<1> QED
  BY <1>1, <1>2, PTL DEF Spec

\* hostlist_register_rcmd, over any sequence of -w arguments: the first that names an
\* rcmd type or a user for a host decides both, and the default serves the others.
THEOREM FirstWins == Spec => []FirstRegisteredWins
BY Registration, PTL DEF RegInv

\* rcmd_init runs once for each module of the list before rcmd_connect uses any.
THEOREM ModulesReady == Spec => []InitBeforeConnect
<1>1. RegInv => InitBeforeConnect
  <2> SUFFICES ASSUME ModulesInv PROVE InitBeforeConnect
    BY DEF RegInv
  <2>1. IsInjective(inits)
    BY DEF ModulesInv, IsInjective
  <2>2. \A c \in ToSet(conns) : c.rmod # None => c.rmod \in ToSet(inits)
    BY DEF ModulesInv
  <2> QED
    BY <2>1, <2>2 DEF InitBeforeConnect
<1> QED
  BY <1>1, Registration, PTL

----------------------------------------------------------------------------
\* A sequence without its last element.
LEMMA FrontOf ==
  ASSUME NEW R, NEW s \in Seq(R), Len(s) >= 1
  PROVE  /\ SubSeq(s, 1, Len(s) - 1) \in Seq(R)
         /\ Len(SubSeq(s, 1, Len(s) - 1)) = Len(s) - 1
         /\ \A k \in 1..(Len(s) - 1) : SubSeq(s, 1, Len(s) - 1)[k] = s[k]
<1>1. \A i \in 1..(Len(s) - 1) : s[i] \in R
  OBVIOUS
<1> DEFINE n == Len(s) - 1
<1>2. n \in Nat /\ 1 \in Int /\ n \in Int /\ \A k \in 1..n : 1 + k - 1 = k
  OBVIOUS
<1> HIDE DEF n
<1>3. /\ SubSeq(s, 1, n) \in Seq(R)
      /\ Len(SubSeq(s, 1, n)) = IF 1 <= n THEN n - 1 + 1 ELSE 0
      /\ \A i \in 1 .. n - 1 + 1 : SubSeq(s, 1, n)[i] = s[1 + i - 1]
  BY <1>1, <1>2, SubSeqProperties DEF n
<1>4. Len(SubSeq(s, 1, n)) = n /\ \A k \in 1..n : SubSeq(s, 1, n)[k] = s[k]
  BY <1>2, <1>3
<1> QED
  BY <1>3, <1>4 DEF n

\* The next line of the top file, and no change to the others.
LEMMA SteppedFacts ==
  ASSUME WcollTypeOK, stack # <<>>
  PROVE  /\ Stepped \in Seq(Frames) /\ Len(Stepped) = Len(stack)
         /\ \A k \in 1..Len(stack) : Stepped[k] =
              IF k = Len(stack) THEN [file |-> Top.file, next |-> Top.next + 1] ELSE stack[k]
<1>1. stack \in Seq(Frames) /\ Len(stack) \in Nat /\ Len(stack) >= 1
  BY DEF WcollTypeOK, StackOK
<1>2. Top \in Frames /\ Top = stack[Len(stack)]
  BY <1>1 DEF Top, Last
<1>3. [stack[Len(stack)] EXCEPT !.next = @ + 1] = [file |-> Top.file, next |-> Top.next + 1]
  BY <1>2 DEF Frames
<1>4. [file |-> Top.file, next |-> Top.next + 1] \in Frames
  BY <1>2 DEF Frames
<1> DEFINE f == [file |-> Top.file, next |-> Top.next + 1]
<1>5. Stepped = [stack EXCEPT ![Len(stack)] = f]
  BY <1>3 DEF Stepped
<1> HIDE DEF f
<1> QED
  BY <1>1, <1>4, <1>5 DEF f

\* Steps that leave the open files alone.
LEMMA OpenFrame ==
  ASSUME OpenInv, UNCHANGED <<path_list, include_cache, stack, hl, stdin_read, opened>>,
         reader' \in {"idle", "reading", "read", "failed"}
  PROVE  OpenInv'
BY DEF OpenInv, WcollTypeOK

\* What a name or a path leads to.
LEMMA FileFacts ==
  ASSUME NEW p \in Path, NEW n \in Name
  PROVE  /\ PathOf[n] \in Path /\ FileOf(n) \in DOMAIN Text \cup {NoFile}
         /\ Resolve[p][n] \in Name \cup {NoFile}
         /\ Readable(Resolve[p][n]) =>
              Resolve[p][n] \in Name /\ FileAt[Resolve[p][n]] \in DOMAIN Text
BY WcollAssumption DEF FileOf, Readable

\* One open file, at its first line.
LEMMA FirstFrame ==
  ASSUME NEW f \in DOMAIN Text, stack' = <<Frame(f)>>
  PROVE  StackOK(stack') /\ Len(stack') = 1
<1>1. Frame(f) \in Frames /\ Frame(f).file = f /\ Frame(f).next = 1
  BY DEF Frame, Frames
<1>2. Len(Text[f]) \in Nat
  BY WcollAssumption
<1>3. stack' \in Seq(Frames) /\ Len(stack') = 1 /\ stack'[1] = Frame(f)
  BY <1>1
<1> QED
  BY <1>1, <1>2, <1>3 DEF StackOK

\* read_wcoll begins with at most one open file and an empty cache.
LEMMA OpenRead ==
  ASSUME OpenInv, NEW n \in Name, ReadWcoll(n)
  PROVE  OpenInv'
<1>1. CASE Fail
  BY <1>1, OpenFrame DEF Fail
<1>2. CASE ~Fail
  <2>1. /\ FileOf(n) \in DOMAIN Text /\ reader' = "reading" /\ path_list' = PathOf[n]
        /\ include_cache' = {} /\ hl' = <<>> /\ stdin_read' = stdin_read
        /\ \/ stack' = <<>> /\ opened' = <<>>
           \/ stack' = <<Frame(FileOf(n))>> /\ opened' = <<n>>
    <3>1. FileOf(n) \in DOMAIN Text \cup {NoFile}
      BY FileFacts DEF OpenInv, WcollTypeOK
    <3> DEFINE again == n = "-" /\ stdin_read
    <3>2. /\ FileOf(n) # NoFile /\ reader' = "reading" /\ path_list' = PathOf[n]
          /\ include_cache' = {} /\ hl' = <<>> /\ stdin_read' = stdin_read
          /\ stack' = (IF again THEN <<>> ELSE <<Frame(FileOf(n))>>)
          /\ opened' = (IF again THEN <<>> ELSE <<n>>)
      BY <1>2 DEF ReadWcoll
    <3> HIDE DEF again
    <3> QED
      BY <3>1, <3>2
  <2>2. StackOK(stack') /\ Len(stack') \in 0..1
    <3>1. CASE stack' = <<>>
      <4>1. stack' \in Seq(Frames) /\ Len(stack') = 0
        BY <3>1
      <4> QED
        BY <4>1 DEF StackOK
    <3>2. CASE stack' = <<Frame(FileOf(n))>>
      BY <2>1, <3>2, FirstFrame
    <3> QED
      BY <2>1, <3>1, <3>2
  <2>3. opened' \in Seq(Name) /\ \A k \in DOMAIN opened' : k = 1
    <3>1. /\ <<>> \in Seq(Name) /\ \A k \in DOMAIN <<>> : k = 1
          /\ <<n>> \in Seq(Name) /\ \A k \in DOMAIN <<n>> : k = 1
      OBVIOUS
    <3> QED
      BY <2>1, <3>1
  <2>4. WcollTypeOK'
    BY <2>1, <2>2, <2>3, FileFacts DEF OpenInv, WcollTypeOK
  <2>5. Cardinality(include_cache') = 0
    BY <2>1, FS_EmptySet
  <2>6. Len(stack') <= Cardinality(include_cache') + 1
    <3>1. Len(stack') \in {0, 1}
      BY <2>2
    <3>2. Cardinality(include_cache') + 1 = 1
      BY <2>5
    <3> QED
      BY <3>1, <3>2
  <2>7. (\A k \in DOMAIN opened : 1 < k => opened[k] \in include_cache)'
    BY <2>3
  <2>8. (\A j, k \in DOMAIN opened : 1 < j /\ j < k => opened[j] # opened[k])'
    BY <2>3
  <2> QED
    BY <2>4, <2>6, <2>7, <2>8 DEF OpenInv
<1> QED
  BY <1>1, <1>2

\* read_wcoll_path begins with one open file, which is in the cache.
LEMMA OpenReadPath ==
  ASSUME OpenInv, NEW p \in Path, NEW n \in Name, ReadWcollPath(p, n)
  PROVE  OpenInv'
<1> DEFINE s == Resolve[p][n]
<1>1. CASE Fail
  BY <1>1, OpenFrame DEF Fail
<1>2. CASE ~Fail
  <2>1. /\ Readable(s) /\ reader' = "reading" /\ path_list' = p
        /\ include_cache' = {s} /\ hl' = <<>> /\ stdin_read' = stdin_read
        /\ stack' = <<Frame(FileAt[s])>> /\ opened' = <<s>>
    BY <1>2 DEF ReadWcollPath
  <2>2. s \in Name /\ FileAt[s] \in DOMAIN Text
    BY <2>1, FileFacts
  <2> HIDE DEF s
  <2>3. StackOK(stack') /\ Len(stack') = 1
    BY <2>1, <2>2, FirstFrame
  <2>4. opened' \in Seq(Name) /\ \A k \in DOMAIN opened' : k = 1
    BY <2>1, <2>2
  <2>5. WcollTypeOK'
    BY <2>1, <2>2, <2>3, <2>4 DEF OpenInv, WcollTypeOK
  <2>6. Cardinality(include_cache') = 1
    BY <2>1, FS_Singleton
  <2>7. Len(stack') <= Cardinality(include_cache') + 1
    BY <2>3, <2>6
  <2>8. (\A k \in DOMAIN opened : 1 < k => opened[k] \in include_cache)'
    BY <2>4
  <2>9. (\A j, k \in DOMAIN opened : 1 < j /\ j < k => opened[j] # opened[k])'
    BY <2>4
  <2> QED
    BY <2>5, <2>7, <2>8, <2>9 DEF OpenInv
<1> QED
  BY <1>1, <1>2

\* The line that is read, and its place.
LEMMA LineFacts ==
  ASSUME WcollTypeOK, Reading
  PROVE  /\ Top \in Frames /\ Top.file \in DOMAIN Text /\ Top.next \in 1..Len(Text[Top.file])
         /\ Line.kind = "include" => Line.name \in Name
         /\ Line.kind = "hosts" => Line.hosts \in Seq(Host)
         /\ Line.kind \in {"hosts", "include", "comment"}
<1>1. /\ StackOK(stack) /\ stack \in Seq(Frames) /\ Len(stack) \in 1..Len(stack)
      /\ Top = stack[Len(stack)]
  BY DEF WcollTypeOK, StackOK, Reading, Top, Last
<1>2. Top \in Frames /\ Top.next >= 1
  BY <1>1 DEF StackOK
<1>2a. Top.file \in DOMAIN Text /\ Top.next \in Nat
  BY <1>2 DEF Frames
<1>3. Text[Top.file] \in Seq(ToSet(Text[Top.file]))
  BY <1>2a, WcollAssumption
<1>4. Top.next \in 1..Len(Text[Top.file]) /\ Top.next \in DOMAIN Text[Top.file]
  BY <1>2, <1>2a, <1>3 DEF Reading
<1> QED
  BY <1>2, <1>2a, <1>4, WcollAssumption DEF Line

\* A line of the top file is behind us.
LEMMA SteppedOK ==
  ASSUME WcollTypeOK, Reading
  PROVE  StackOK(Stepped) /\ Len(Stepped) = Len(stack) /\ Len(stack) \in Nat
<1>1. /\ Stepped \in Seq(Frames) /\ Len(Stepped) = Len(stack) /\ Len(stack) \in Nat
      /\ \A k \in 1..Len(stack) : Stepped[k] =
           IF k = Len(stack) THEN [file |-> Top.file, next |-> Top.next + 1] ELSE stack[k]
  BY SteppedFacts DEF Reading, WcollTypeOK, StackOK
<1>2. ASSUME NEW k \in 1..Len(stack)
      PROVE  Stepped[k].next \in 1..(Len(Text[Stepped[k].file]) + 1)
  <2>1. CASE k = Len(stack)
    BY <1>1, <2>1, LineFacts
  <2>2. CASE k # Len(stack)
    BY <1>1, <2>2 DEF WcollTypeOK, StackOK
  <2> QED
    BY <2>1, <2>2
<1> QED
  BY <1>1, <1>2 DEF StackOK

\* A line read, an include followed or skipped, the end of a file.
LEMMA OpenStep == OpenInv /\ WcollNext => OpenInv'
<1> SUFFICES ASSUME OpenInv, WcollNext PROVE OpenInv'
  OBVIOUS
<1>0. WcollTypeOK
  BY DEF OpenInv
<1>1. CASE ReadHosts
  <2>1. /\ UNCHANGED <<reader, path_list, include_cache, stdin_read, opened>>
        /\ stack' = Stepped /\ hl' = hl \o Line.hosts
        /\ Reading /\ Line.hosts \in Seq(Host)
    BY <1>0, <1>1, LineFacts DEF ReadHosts
  <2>2. hl' \in Seq(Host)
    BY <1>0, <2>1 DEF WcollTypeOK
  <2>3. WcollTypeOK'
    BY <1>0, <2>1, <2>2, SteppedOK DEF WcollTypeOK
  <2> QED
    BY <1>0, <2>1, <2>3, SteppedOK DEF OpenInv
<1>2. CASE ReadComment
  <2>1. /\ UNCHANGED <<reader, path_list, include_cache, stdin_read, opened, hl>>
        /\ stack' = Stepped /\ Reading
    BY <1>2 DEF ReadComment
  <2>2. WcollTypeOK'
    BY <1>0, <2>1, SteppedOK DEF WcollTypeOK
  <2> QED
    BY <1>0, <2>1, <2>2, SteppedOK DEF OpenInv
<1>3. CASE ReadInclude
  <2> DEFINE s == Resolve[path_list][Line.name]
  <2>1. CASE Cached(s)
    <3>1. /\ UNCHANGED <<reader, path_list, include_cache, stdin_read, opened, hl>>
          /\ stack' = Stepped /\ Reading
      BY <1>3, <2>1 DEF ReadInclude
    <3>2. WcollTypeOK'
      BY <1>0, <3>1, SteppedOK DEF WcollTypeOK
    <3> QED
      BY <1>0, <3>1, <3>2, SteppedOK DEF OpenInv
  <2>2. CASE ~Cached(s) /\ ~Readable(s)
    BY <1>3, <2>2, OpenFrame DEF ReadInclude, Fail
  <2>3. CASE ~Cached(s) /\ Readable(s)
    <3>1. /\ UNCHANGED <<reader, path_list, stdin_read, hl>> /\ Reading
          /\ stack' = Append(Stepped, Frame(FileAt[s]))
          /\ include_cache' = include_cache \cup {s} /\ opened' = Append(opened, s)
          /\ s \notin include_cache
      BY <1>3, <2>3 DEF ReadInclude, Cached
    <3>2. s \in Name /\ FileAt[s] \in DOMAIN Text
      <4>1. path_list \in Path /\ Line.name \in Name
        BY <1>0, <1>3, LineFacts DEF ReadInclude, WcollTypeOK
      <4> QED
        BY <2>3, <4>1, FileFacts
    <3> HIDE DEF s
    <3> DEFINE f == Frame(FileAt[s])
    <3>3. f \in Frames /\ f.next = 1 /\ f.file = FileAt[s] /\ Len(Text[f.file]) \in Nat
      BY <3>2, WcollAssumption DEF Frame, Frames
    <3> HIDE DEF f
    <3>4. /\ stack' \in Seq(Frames) /\ Len(stack') = Len(stack) + 1 /\ Len(stack) \in Nat
          /\ \A k \in 1..Len(stack) : stack'[k] = Stepped[k]
          /\ stack'[Len(stack) + 1] = f
      BY <1>0, <3>1, <3>3, SteppedOK DEF f, StackOK
    <3>5. StackOK(stack')
      BY <1>0, <3>1, <3>3, <3>4, SteppedOK DEF StackOK
    <3>6. /\ opened \in Seq(Name) /\ opened' \in Seq(Name) /\ Len(opened') = Len(opened) + 1
          /\ \A k \in 1..Len(opened) : opened'[k] = opened[k]
          /\ opened'[Len(opened) + 1] = s /\ Len(opened) \in Nat
      BY <1>0, <3>1, <3>2 DEF WcollTypeOK
    <3>7. /\ IsFiniteSet(include_cache) /\ Cardinality(include_cache) \in Nat
          /\ Cardinality(include_cache') = Cardinality(include_cache) + 1
      BY <1>0, <3>1, WcollAssumption, FS_Subset, FS_AddElement, FS_CardinalityType
         DEF WcollTypeOK
    <3>8. WcollTypeOK'
      BY <1>0, <3>1, <3>2, <3>4, <3>5, <3>6 DEF WcollTypeOK
    <3>9. (\A k \in DOMAIN opened : 1 < k => opened[k] \in include_cache)'
      BY <3>1, <3>6 DEF OpenInv
    <3>10. (\A j, k \in DOMAIN opened : 1 < j /\ j < k => opened[j] # opened[k])'
      <4> SUFFICES ASSUME NEW j \in 1..Len(opened'), NEW k \in 1..Len(opened'), 1 < j, j < k
                   PROVE  opened'[j] # opened'[k]
        BY <3>6
      <4>1. j \in 1..Len(opened) /\ opened'[j] = opened[j] /\ opened[j] \in include_cache
        BY <3>6 DEF OpenInv
      <4>2. CASE k \in 1..Len(opened)
        BY <3>6, <4>1, <4>2 DEF OpenInv
      <4>3. CASE k = Len(opened) + 1
        BY <3>1, <3>6, <4>1, <4>3
      <4> QED
        BY <3>6, <4>2, <4>3
    <3> QED
      BY <3>4, <3>7, <3>8, <3>9, <3>10 DEF OpenInv
  <2> QED
    BY <2>1, <2>2, <2>3
<1>4. CASE EndOfFile
  <2>1. /\ UNCHANGED <<reader, path_list, include_cache, hl, opened>>
        /\ stack' = SubSeq(stack, 1, Len(stack) - 1) /\ stack # <<>>
        /\ stdin_read' = (stdin_read \/ Top.file = Stdin)
    BY <1>4 DEF EndOfFile, Below, Front
  <2>2. stack \in Seq(Frames) /\ Len(stack) \in Nat /\ Len(stack) >= 1
    BY <1>0, <2>1 DEF WcollTypeOK, StackOK
  <2>3. /\ stack' \in Seq(Frames) /\ Len(stack') = Len(stack) - 1
        /\ \A k \in 1..(Len(stack) - 1) : stack'[k] = stack[k]
    BY <2>1, <2>2, FrontOf
  <2>4. StackOK(stack')
    BY <1>0, <2>2, <2>3 DEF WcollTypeOK, StackOK
  <2>5. WcollTypeOK'
    BY <1>0, <2>1, <2>3, <2>4 DEF WcollTypeOK
  <2>6. Cardinality(include_cache) \in Nat
    BY <1>0, WcollAssumption, FS_Subset, FS_CardinalityType DEF WcollTypeOK
  <2> QED
    BY <2>1, <2>2, <2>3, <2>5, <2>6 DEF OpenInv
<1>5. CASE EndReading
  BY <1>5, OpenFrame DEF EndReading
<1> QED
  BY <1>1, <1>2, <1>3, <1>4, <1>5 DEF WcollNext

\* Steps of opt_args that read nothing.
LEMMA NamesFrame ==
  ASSUME NamesInv, UNCHANGED <<path_list, include_cache, stack, hl, stdin_read, opened, opt>>,
         reader' \in {reader, "idle"}, groups' \in Seq(Name), given' \in 0..Len(opt.args)
  PROVE  NamesInv'
<1>1. reader' \in {"idle", "reading", "read", "failed"}
  BY DEF NamesInv, OpenInv, WcollTypeOK
<1> QED
  BY <1>1, OpenFrame DEF NamesInv

\* The next argument is there.
LEMMA GivenNext ==
  ASSUME NamesInv, ArgsLeft
  PROVE  given' \in 0..Len(opt.args) /\ given + 1 \in DOMAIN opt.args
<1>1. Len(opt.args) \in Nat /\ DOMAIN opt.args = 1..Len(opt.args)
  BY TargetsAssumption DEF NamesInv
<1> QED
  BY <1>1 DEF NamesInv, ArgsLeft

\* Every step keeps the account of the open files.
LEMMA NamesStep == NamesInv /\ [Next]_vars => NamesInv'
<1> SUFFICES ASSUME NamesInv, [Next]_vars PROVE NamesInv'
  OBVIOUS
<1> USE DEF At, Go, Done, HaveRead, ReadFor, Lists, Group, Rcmd, Use, tgvars, wcvars
<1>1. CASE Read
  BY <1>1, OpenStep DEF Read, NamesInv
<1>2. CASE HostsArg
  <2>1. /\ UNCHANGED <<path_list, include_cache, stack, hl, stdin_read, opened, opt, groups>>
        /\ reader' \in {reader, "idle"} /\ given' \in 0..Len(opt.args)
    BY <1>2, GivenNext DEF HostsArg, NamesInv
  <2> QED
    BY <2>1, NamesFrame DEF NamesInv
<1>3. CASE BadRcmdArg
  <2>1. /\ UNCHANGED <<path_list, include_cache, stack, hl, stdin_read, opened, opt, groups>>
        /\ reader' \in {reader, "idle"} /\ given' \in 0..Len(opt.args)
    BY <1>3, GivenNext DEF BadRcmdArg, NamesInv
  <2> QED
    BY <2>1, NamesFrame DEF NamesInv
<1>4. CASE ExcludeArg
  <2>1. /\ UNCHANGED <<path_list, include_cache, stack, hl, stdin_read, opened, opt, groups>>
        /\ reader' \in {reader, "idle"} /\ given' \in 0..Len(opt.args)
    BY <1>4, GivenNext DEF ExcludeArg, NamesInv
  <2> QED
    BY <2>1, NamesFrame DEF NamesInv
<1>5. CASE RegexArg
  <2>1. /\ UNCHANGED <<path_list, include_cache, stack, hl, stdin_read, opened, opt, groups>>
        /\ reader' \in {reader, "idle"} /\ given' \in 0..Len(opt.args)
    BY <1>5, GivenNext DEF RegexArg, NamesInv
  <2> QED
    BY <2>1, NamesFrame DEF NamesInv
<1>6. CASE FileArg
  <2>1. /\ Arg.name \in Name /\ ReadWcoll(Arg.name) /\ UNCHANGED <<opt, groups>>
        /\ given' \in 0..Len(opt.args)
    <3>1. given + 1 \in DOMAIN opt.args
      BY <1>6, GivenNext DEF FileArg
    <3> QED
      BY <1>6, <3>1, GivenNext, TargetsAssumption DEF FileArg, Arg, NamesInv
  <2> QED
    BY <2>1, OpenRead DEF NamesInv
<1>7. CASE FileTargets
  <2>1. /\ UNCHANGED <<path_list, include_cache, stack, hl, stdin_read, opened, opt, groups>>
        /\ reader' \in {reader, "idle"} /\ given' \in 0..Len(opt.args)
    BY <1>7, GivenNext DEF FileTargets, NamesInv
  <2> QED
    BY <2>1, NamesFrame DEF NamesInv
<1>8. CASE FileExcluded
  <2>1. /\ UNCHANGED <<path_list, include_cache, stack, hl, stdin_read, opened, opt, groups>>
        /\ reader' \in {reader, "idle"} /\ given' \in 0..Len(opt.args)
    BY <1>8, GivenNext DEF FileExcluded, NamesInv
  <2> QED
    BY <2>1, NamesFrame DEF NamesInv
<1>9. CASE RegisterDefault
  <2>1. /\ UNCHANGED <<path_list, include_cache, stack, hl, stdin_read, opened, opt, groups>>
        /\ reader' \in {reader, "idle"} /\ given' \in 0..Len(opt.args)
    BY <1>9, GivenNext DEF RegisterDefault, NamesInv
  <2> QED
    BY <2>1, NamesFrame DEF NamesInv
<1>10. CASE ReadGroup
  <2>1. UNCHANGED <<opt, groups, given>>
    BY <1>10 DEF ReadGroup
  <2>2. CASE Go("failed")
    BY <2>1, <2>2, NamesFrame DEF NamesInv
  <2>3. CASE ReadWcollPath(GroupPath, Head(groups))
    <3>1. Head(groups) \in Name
      BY <1>10 DEF ReadGroup, NamesInv
    <3> QED
      BY <2>1, <2>3, <3>1, OpenReadPath, TargetsAssumption DEF NamesInv
  <2> QED
    BY <1>10, <2>2, <2>3 DEF ReadGroup
<1>11. CASE GroupRead
  <2>1. /\ UNCHANGED <<path_list, include_cache, stack, hl, stdin_read, opened, opt, given>>
        /\ reader' = "idle" /\ groups' = Tail(groups)
    BY <1>11 DEF GroupRead
  <2>2. groups' \in Seq(Name)
    <3>1. CASE groups = <<>>
      <4>1. Tail(<<>>) = <<>>
        OBVIOUS
      <4> QED
        BY <2>1, <3>1, <4>1
    <3>2. CASE groups # <<>>
      BY <2>1, <3>2 DEF NamesInv
    <3> QED
      BY <3>1, <3>2
  <2> QED
    BY <2>1, <2>2, NamesFrame DEF NamesInv
<1>12. CASE GroupsRead
  <2>1. /\ UNCHANGED <<path_list, include_cache, stack, hl, stdin_read, opened, opt, given,
                       reader>>
        /\ groups' = opt.exgroups
    BY <1>12 DEF GroupsRead
  <2> QED
    BY <2>1, NamesFrame, TargetsAssumption DEF NamesInv
<1>13. CASE ReadMachines
  <2>1. UNCHANGED <<opt, groups, given>>
    BY <1>13 DEF ReadMachines
  <2>2. CASE UNCHANGED wcvars
    BY <2>1, <2>2, NamesFrame DEF NamesInv
  <2>3. CASE ReadWcoll(MachinesFile) /\ MachinesFile \in Name
    BY <2>1, <2>3, OpenRead DEF NamesInv
  <2> QED
    BY <1>13, <2>2, <2>3, TargetsAssumption DEF ReadMachines, NamesInv
<1>14. CASE ReadEnv
  <2>1. UNCHANGED <<opt, groups, given>>
    BY <1>14 DEF ReadEnv
  <2>2. CASE UNCHANGED wcvars
    BY <2>1, <2>2, NamesFrame DEF NamesInv
  <2>3. CASE ReadWcoll(opt.env) /\ opt.env \in Name
    BY <2>1, <2>3, OpenRead DEF NamesInv
  <2> QED
    BY <1>14, <2>2, <2>3, TargetsAssumption DEF ReadEnv, NamesInv
<1>15. CASE WholeListRead
  <2>1. /\ UNCHANGED <<path_list, include_cache, stack, hl, stdin_read, opened, opt, groups>>
        /\ reader' \in {reader, "idle"} /\ given' \in 0..Len(opt.args)
    BY <1>15, GivenNext DEF WholeListRead, NamesInv
  <2> QED
    BY <2>1, NamesFrame DEF NamesInv
<1>16. CASE ApplyExcluded
  <2>1. /\ UNCHANGED <<path_list, include_cache, stack, hl, stdin_read, opened, opt, groups>>
        /\ reader' \in {reader, "idle"} /\ given' \in 0..Len(opt.args)
    BY <1>16, GivenNext DEF ApplyExcluded, NamesInv
  <2> QED
    BY <2>1, NamesFrame DEF NamesInv
<1>17. CASE ApplyRegex
  <2>1. /\ UNCHANGED <<path_list, include_cache, stack, hl, stdin_read, opened, opt, groups>>
        /\ reader' \in {reader, "idle"} /\ given' \in 0..Len(opt.args)
    BY <1>17, GivenNext DEF ApplyRegex, NamesInv
  <2> QED
    BY <2>1, NamesFrame DEF NamesInv
<1>18. CASE WcollExpand
  <2>1. /\ UNCHANGED <<path_list, include_cache, stack, hl, stdin_read, opened, opt, groups>>
        /\ reader' \in {reader, "idle"} /\ given' \in 0..Len(opt.args)
    BY <1>18, GivenNext DEF WcollExpand, NamesInv
  <2> QED
    BY <2>1, NamesFrame DEF NamesInv
<1>19. CASE PostOp
  <2>1. /\ UNCHANGED <<path_list, include_cache, stack, hl, stdin_read, opened, opt, groups>>
        /\ reader' \in {reader, "idle"} /\ given' \in 0..Len(opt.args)
    BY <1>19, GivenNext DEF PostOp, NamesInv
  <2> QED
    BY <2>1, NamesFrame DEF NamesInv
<1>20. CASE Verify
  <2>1. /\ UNCHANGED <<path_list, include_cache, stack, hl, stdin_read, opened, opt, groups>>
        /\ reader' \in {reader, "idle"} /\ given' \in 0..Len(opt.args)
    BY <1>20, GivenNext DEF Verify, NamesInv
  <2> QED
    BY <2>1, NamesFrame DEF NamesInv
<1>21. CASE Prompt
  <2>1. /\ UNCHANGED <<path_list, include_cache, stack, hl, stdin_read, opened, opt, groups>>
        /\ reader' \in {reader, "idle"} /\ given' \in 0..Len(opt.args)
    BY <1>21, GivenNext DEF Prompt, NamesInv
  <2> QED
    BY <2>1, NamesFrame DEF NamesInv
<1>22. CASE RcmdInit
  <2>1. /\ UNCHANGED <<path_list, include_cache, stack, hl, stdin_read, opened, opt, groups>>
        /\ reader' \in {reader, "idle"} /\ given' \in 0..Len(opt.args)
    BY <1>22, GivenNext DEF RcmdInit, NamesInv
  <2> QED
    BY <2>1, NamesFrame DEF NamesInv
<1>23. CASE Connect
  <2>1. /\ UNCHANGED <<path_list, include_cache, stack, hl, stdin_read, opened, opt, groups>>
        /\ reader' \in {reader, "idle"} /\ given' \in 0..Len(opt.args)
    BY <1>23, GivenNext DEF Connect, NamesInv
  <2> QED
    BY <2>1, NamesFrame DEF NamesInv
<1>24. CASE RcmdExit
  <2>1. /\ UNCHANGED <<path_list, include_cache, stack, hl, stdin_read, opened, opt, groups>>
        /\ reader' \in {reader, "idle"} /\ given' \in 0..Len(opt.args)
    BY <1>24, GivenNext DEF RcmdExit, NamesInv
  <2> QED
    BY <2>1, NamesFrame DEF NamesInv
<1>25. CASE UNCHANGED vars
  BY NamesFrame, <1>25 DEF vars, NamesInv
<1> QED
  BY <1>1, <1>2, <1>3, <1>4, <1>5, <1>6, <1>7, <1>8, <1>9, <1>10, <1>11, <1>12,
     <1>13, <1>14, <1>15, <1>16, <1>17, <1>18, <1>19, <1>20, <1>21, <1>22, <1>23,
     <1>24, <1>25 DEF Next

\* wcoll.c opens no path twice but the first, whichever files include which, and so the
\* recursion of wcoll_ctx_read_file is no deeper than there are paths.
THEOREM IncludesOnce == Spec => []IncludedOnce
<1>1. Init => NamesInv
  <2> SUFFICES ASSUME Init PROVE NamesInv
    OBVIOUS
  <2>1. WcollTypeOK
    <3>1. <<>> \in Seq(Name) /\ <<>> \in Seq(Host) /\ <<>> \in Seq(Frames)
          /\ DOMAIN <<>> = {} /\ Len(<<>>) = 0
      OBVIOUS
    <3>2. StackOK(<<>>)
      BY <3>1 DEF StackOK
    <3> QED
      BY <3>1, <3>2, WcollAssumption DEF Init, WcollInit, WcollTypeOK
  <2>2. OpenInv
    <3>1. Cardinality({}) = 0
      BY FS_EmptySet
    <3>2. DOMAIN <<>> = {} /\ Len(<<>>) = 0
      OBVIOUS
    <3>3. opened = <<>> /\ stack = <<>> /\ include_cache = {}
      BY DEF Init, WcollInit
    <3>4. Len(stack) <= Cardinality(include_cache) + 1
      BY <3>1, <3>2, <3>3
    <3>5. DOMAIN opened = {}
      BY <3>2, <3>3
    <3> QED
      BY <2>1, <3>4, <3>5 DEF OpenInv
  <2>3. Len(opt.args) \in Nat /\ opt \in CommandLines
    BY TargetsAssumption DEF Init
  <2> QED
    BY <2>2, <2>3, TargetsAssumption DEF Init, NamesInv
<1>2. NamesInv => IncludedOnce
  <2> SUFFICES ASSUME OpenInv PROVE IncludedOnce
    BY DEF NamesInv
  <2>1. /\ Cardinality(include_cache) \in Nat /\ Cardinality(Name) \in Nat
        /\ Cardinality(include_cache) <= Cardinality(Name)
    BY WcollAssumption, FS_Subset, FS_CardinalityType DEF OpenInv, WcollTypeOK
  <2>2. Len(stack) \in Nat
    BY DEF OpenInv, WcollTypeOK, StackOK
  <2> QED
    BY <2>1, <2>2 DEF OpenInv, IncludedOnce
<1> QED
  BY <1>1, <1>2, NamesStep, PTL DEF Spec

=============================================================================
