----------------------------- MODULE DshProofs -----------------------------
(***************************************************************************)
(* Theorems about the execution engine for every number of hosts, every    *)
(* fanout and every combination of options.                                *)
(***************************************************************************)
EXTENDS Dsh, FiniteSetTheorems, TLAPS

LEMMA ProcFacts ==
  /\ Hosts \subseteq Procs /\ Main \in Procs /\ Sig \in Procs /\ Dog \in Procs
  /\ Main \notin Hosts /\ Sig \notin Hosts /\ Dog \notin Hosts
  /\ Main # Sig /\ Main # Dog /\ Sig # Dog /\ Nobody \notin Procs
  /\ Procs = Hosts \cup {Main, Sig, Dog}
BY DshAssumption DEF Hosts, Procs, Main, Sig, Dog, Nobody

LEMMA ActiveFacts ==
  ASSUME TypeOK
  PROVE  /\ IsFiniteSet(Active) /\ Cardinality(Active) \in Nat
         /\ Cardinality(Active) = 0 <=> Active = {}
<1>1. IsFiniteSet(Hosts)
  BY DshAssumption, FS_Interval DEF Hosts
<1>2. IsFiniteSet(Active)
  BY <1>1, FS_Subset DEF Active
<1> QED
  BY <1>2, FS_CardinalityType, FS_EmptySet

LEMMA TypeInit == Init => TypeOK
<1> SUFFICES ASSUME Init PROVE TypeOK
  OBVIOUS
<1>1. PcOK
  BY ProcFacts DEF Init, PcOK, PcsOf, WorkerPcs, MainPcs, SigPcs, DogPcs
<1>2. state \in [Hosts -> States]
  BY DEF Init, States
<1>3. /\ cur \in [{Main, Sig, Dog} -> 1..(N + 1)]
      /\ seen \in [{Sig, Dog} -> States]
  BY DshAssumption DEF Init, States
<1>4. thdLock \in Procs \cup {Nobody} /\ fwd \in 0..(N + 1) /\ typed \in 0..MaxSignals
  BY DshAssumption DEF Init
<1> QED
  BY <1>1, <1>2, <1>3, <1>4, DshAssumption DEF Init, TypeOK, DataOK

LEMMA PcStep == IndInv /\ [Next]_vars => PcOK'
<1> SUFFICES ASSUME IndInv, [Next]_vars PROVE PcOK'
  OBVIOUS
<1> USE ProcFacts DEF IndInv, TypeOK, PcOK, PcsOf, Goto, WorkerPcs, MainPcs, SigPcs, DogPcs,
    DyingPcs
<1>1. CASE MainLock
  BY <1>1 DEF MainLock
<1>2. CASE MainRoom
  BY <1>2 DEF MainRoom
<1>3. CASE MainSkip
  BY <1>3 DEF MainSkip
<1>4. CASE MainCreate
  <2>1. cur[Main] \in Hosts
    BY <1>4, DshAssumption DEF MainCreate, DataOK, SpawnPlace, Hosts
  <2> QED
    BY <1>4, <2>1 DEF MainCreate
<1>5. CASE MainCreateFails
  BY <1>5 DEF MainCreateFails
<1>6. CASE MainDrain
  BY <1>6 DEF MainDrain
<1>7. CASE MainReap
  BY <1>7 DEF MainReap
<1>8. CASE MainFree
  BY <1>8 DEF MainFree
<1>9. CASE SweepLock
  BY <1>9 DEF SweepLock
<1>10. CASE SweepLook
  BY <1>10 DEF SweepLook
<1>11. CASE SweepMark
  BY <1>11 DEF SweepMark
<1>12. CASE SweepUnlock
  BY <1>12 DEF SweepUnlock
<1>13. CASE SigGone
  BY <1>13 DEF SigGone
<1>14. CASE Interrupt
  BY <1>14 DEF Interrupt
<1>15. CASE TerminalStop
  BY <1>15 DEF TerminalStop
<1>16. CASE DogLook
  BY <1>16 DEF DogLook
<1>17. CASE DogAlarm
  BY <1>17 DEF DogAlarm
<1>18. CASE DogRest
  BY <1>18 DEF DogRest
<1>19. CASE DogLost
  BY <1>19 DEF DogLost
<1>20. CASE WindowCloses
  BY <1>20 DEF WindowCloses
<1>21. ASSUME NEW h \in Hosts, WorkerStart(h) PROVE PcOK'
  BY <1>21 DEF WorkerStart
<1>22. ASSUME NEW h \in Hosts, ConnectOk(h) PROVE PcOK'
  BY <1>22 DEF ConnectOk
<1>23. ASSUME NEW h \in Hosts, ConnectFails(h) PROVE PcOK'
  BY <1>23 DEF ConnectFails
<1>24. ASSUME NEW h \in Hosts, WorkerUpdate(h) PROVE PcOK'
  BY <1>24 DEF WorkerUpdate
<1>25. ASSUME NEW h \in Hosts, WorkerRecheck(h) PROVE PcOK'
  BY <1>25 DEF WorkerRecheck
<1>26. ASSUME NEW h \in Hosts, WorkerDecide(h) PROVE PcOK'
  BY <1>26 DEF WorkerDecide
<1>27. ASSUME NEW h \in Hosts, WorkerCopy(h) PROVE PcOK'
  BY <1>27 DEF WorkerCopy
<1>28. ASSUME NEW h \in Hosts, PollReady(h) PROVE PcOK'
  BY <1>28 DEF PollReady
<1>29. ASSUME NEW h \in Hosts, PollInterrupted(h) PROVE PcOK'
  BY <1>29 DEF PollInterrupted
<1>44. ASSUME NEW h \in Hosts, PollFails(h) PROVE PcOK'
  BY <1>44 DEF PollFails
<1>30. ASSUME NEW h \in Hosts, WorkerHandle(h) PROVE PcOK'
  BY <1>30 DEF WorkerHandle
<1>31. ASSUME NEW h \in Hosts, WorkerFinish(h) PROVE PcOK'
  BY <1>31 DEF WorkerFinish
<1>32. ASSUME NEW h \in Hosts, WorkerDestroy(h) PROVE PcOK'
  BY <1>32 DEF WorkerDestroy
<1>33. ASSUME NEW h \in Hosts, WorkerCount(h) PROVE PcOK'
  BY <1>33 DEF WorkerCount
<1>34. ASSUME NEW h \in Hosts, RemoteExits(h) PROVE PcOK'
  BY <1>34 DEF RemoteExits
<1>35. ASSUME NEW h \in Hosts, ConnectLimitPasses(h) PROVE PcOK'
  BY <1>35 DEF ConnectLimitPasses
<1>36. ASSUME NEW h \in Hosts, CommandLimitPasses(h) PROVE PcOK'
  BY <1>36 DEF CommandLimitPasses
<1>37. ASSUME NEW h \in Hosts, NEW s \in Streams, RemoteWrites(h, s) PROVE PcOK'
  BY <1>37 DEF RemoteWrites
<1>38. ASSUME NEW h \in Hosts, NEW s \in Streams, RemoteCloses(h, s) PROVE PcOK'
  BY <1>38 DEF RemoteCloses
<1>39. ASSUME NEW p \in Procs, ForwardBegin(p) PROVE PcOK'
  BY <1>39 DEF ForwardBegin
<1>40. ASSUME NEW p \in Procs, ForwardStep(p) PROVE PcOK'
  BY <1>40 DEF ForwardStep
<1>41. ASSUME NEW p \in Procs, ForwardEnd(p) PROVE PcOK'
  BY <1>41 DEF ForwardEnd
<1>42. ASSUME NEW p \in Procs, Errx(p) PROVE PcOK'
  BY <1>42 DEF Errx
<1>43. CASE UNCHANGED vars
  BY <1>43 DEF vars
<1> QED
  BY <1>1, <1>2, <1>3, <1>4, <1>5, <1>6, <1>7, <1>8, <1>9, <1>10, <1>11, <1>12,
     <1>13, <1>14, <1>15, <1>16, <1>17, <1>18, <1>19, <1>20, <1>21, <1>22, <1>23,
     <1>24, <1>25, <1>26, <1>27, <1>28, <1>29, <1>30, <1>31, <1>32, <1>33, <1>34,
     <1>35, <1>36, <1>37, <1>38, <1>39, <1>40, <1>41, <1>42, <1>43, <1>44 DEF Next,
     MainNext, SigNext, SigStep, DogNext, Environment, WorkerNext, WorkerStep,
     DieNext, Terminated

LEMMA DataStep == IndInv /\ [Next]_vars => DataOK'
<1> SUFFICES ASSUME IndInv, [Next]_vars PROVE DataOK'
  OBVIOUS
<1> USE DshAssumption, ProcFacts DEF IndInv, TypeOK, DataOK, States, mainVars, thdVars,
    connVars, fwdVars, userVars
<1>1. CASE MainLock
  BY <1>1 DEF MainLock
<1>2. CASE MainRoom
  BY <1>2 DEF MainRoom
<1>3. CASE MainSkip
  BY <1>3 DEF MainSkip
<1>4. CASE MainCreate
  BY <1>4 DEF MainCreate, SpawnPlace
<1>5. CASE MainCreateFails
  BY <1>5 DEF MainCreateFails
<1>6. CASE MainDrain
  BY <1>6 DEF MainDrain
<1>7. CASE MainReap
  BY <1>7 DEF MainReap, Counted
<1>8. CASE MainFree
  BY <1>8 DEF MainFree
<1>9. CASE SweepLock
  BY <1>9 DEF SweepLock
<1>10. CASE SweepLook
  <2>1. cur[Sig] \in Hosts
    BY <1>10 DEF SweepLook, Hosts
  <2>2. seen' \in [{Sig, Dog} -> States]
    BY <1>10, <2>1 DEF SweepLook
  <2> QED
    BY <1>10, <2>2 DEF SweepLook
<1>11. CASE SweepMark
  <2>1. cur[Sig] \in Hosts
    BY <1>11 DEF SweepMark, LockPlace, Goto, Hosts
  <2>2. state' \in [Hosts -> States]
    BY <1>11, <2>1 DEF SweepMark
  <2>3. cur' \in [{Main, Sig, Dog} -> 1..(N + 1)]
    BY <1>11, <2>1 DEF SweepMark, Hosts
  <2> QED
    BY <1>11, <2>2, <2>3 DEF SweepMark
<1>12. CASE SweepUnlock
  BY <1>12 DEF SweepUnlock
<1>13. CASE SigGone
  BY <1>13 DEF SigGone
<1>14. CASE Interrupt
  <2>1. typed' \in 0..MaxSignals
    BY <1>14 DEF Interrupt
  <2>2. recent' \in BOOLEAN
    BY <1>14, Zenon DEF Interrupt
  <2> QED
    BY <1>14, <2>1, <2>2 DEF Interrupt
<1>15. CASE TerminalStop
  BY <1>15 DEF TerminalStop
<1>16. CASE DogLook
  BY <1>16 DEF DogLook
<1>17. CASE DogAlarm
  <2>1. cur[Dog] \in Hosts
    BY <1>17 DEF DogAlarm, LockPlace, Goto, Hosts
  <2>2. alarm' \in [Hosts -> BOOLEAN]
    BY <1>17, <2>1 DEF DogAlarm
  <2>3. cur' \in [{Main, Sig, Dog} -> 1..(N + 1)]
    BY <1>17, <2>1 DEF DogAlarm, Hosts
  <2> QED
    BY <1>17, <2>2, <2>3 DEF DogAlarm
<1>18. CASE DogRest
  BY <1>18 DEF DogRest
<1>19. CASE DogLost
  BY <1>19 DEF DogLost
<1>20. CASE WindowCloses
  BY <1>20 DEF WindowCloses
<1>21. ASSUME NEW h \in Hosts, WorkerStart(h) PROVE DataOK'
  BY <1>21 DEF WorkerStart
<1>22. ASSUME NEW h \in Hosts, ConnectOk(h) PROVE DataOK'
  BY <1>22 DEF ConnectOk
<1>23. ASSUME NEW h \in Hosts, ConnectFails(h) PROVE DataOK'
  BY <1>23 DEF ConnectFails
<1>24. ASSUME NEW h \in Hosts, WorkerUpdate(h) PROVE DataOK'
  BY <1>24 DEF WorkerUpdate
<1>25. ASSUME NEW h \in Hosts, WorkerRecheck(h) PROVE DataOK'
  BY <1>25 DEF WorkerRecheck
<1>26. ASSUME NEW h \in Hosts, WorkerDecide(h) PROVE DataOK'
  BY <1>26 DEF WorkerDecide
<1>27. ASSUME NEW h \in Hosts, WorkerCopy(h) PROVE DataOK'
  BY <1>27 DEF WorkerCopy
<1>28. ASSUME NEW h \in Hosts, PollReady(h) PROVE DataOK'
  BY <1>28 DEF PollReady
<1>29. ASSUME NEW h \in Hosts, PollInterrupted(h) PROVE DataOK'
  <2>1. /\ alarm' \in [Hosts -> BOOLEAN]
        /\ result' \in [Hosts -> {"DONE", "FAILED"}]
        /\ sent' \subseteq Hosts /\ open' \in [Hosts -> SUBSET Streams]
    <3>1. alarm' = [alarm EXCEPT ![h] = FALSE]
      BY <1>29 DEF PollInterrupted
    <3>2. CASE "command" \in late[h]
      <4>1. /\ result' = [result EXCEPT ![h] = "FAILED"] /\ sent' = sent \cup {h}
            /\ open' = [open EXCEPT ![h] = {}]
        BY <1>29, <3>2 DEF PollInterrupted
      <4> QED
        BY <3>1, <4>1
    <3>3. CASE "command" \notin late[h]
      <4>1. result' = result /\ sent' = sent /\ open' = open
        BY <1>29, <3>3 DEF PollInterrupted
      <4> QED
        BY <3>1, <4>1
    <3> QED
      BY <3>2, <3>3
  <2> QED
    BY <1>29, <2>1 DEF PollInterrupted
<1>44. ASSUME NEW h \in Hosts, PollFails(h) PROVE DataOK'
  BY <1>44 DEF PollFails
<1>30. ASSUME NEW h \in Hosts, WorkerHandle(h) PROVE DataOK'
  <2>1. open' \in [Hosts -> SUBSET Streams]
    BY <1>30 DEF WorkerHandle
  <2>2. rc' \in [Hosts -> Nat]
    BY <1>30 DEF WorkerHandle, LineCodes
  <2>3. ready' \in [Hosts -> [Streams -> {"idle", "data", "eof"}]]
    BY <1>30 DEF WorkerHandle
  <2> QED
    BY <1>30, <2>1, <2>2, <2>3 DEF WorkerHandle
<1>31. ASSUME NEW h \in Hosts, WorkerFinish(h) PROVE DataOK'
  BY <1>31 DEF WorkerFinish
<1>32. ASSUME NEW h \in Hosts, WorkerDestroy(h) PROVE DataOK'
  BY <1>32 DEF WorkerDestroy
<1>33. ASSUME NEW h \in Hosts, WorkerCount(h) PROVE DataOK'
  <2>1. h \in Active
    BY <1>33 DEF WorkerCount, Goto, Active
  <2>2. threadcount - 1 \in Nat
    BY <2>1, ActiveFacts DEF CountPlace, CountsWorkers
  <2> QED
    BY <1>33, <2>2 DEF WorkerCount
<1>34. ASSUME NEW h \in Hosts, RemoteExits(h) PROVE DataOK'
  BY <1>34 DEF RemoteExits
<1>35. ASSUME NEW h \in Hosts, ConnectLimitPasses(h) PROVE DataOK'
  BY <1>35 DEF ConnectLimitPasses
<1>36. ASSUME NEW h \in Hosts, CommandLimitPasses(h) PROVE DataOK'
  BY <1>36 DEF CommandLimitPasses
<1>37. ASSUME NEW h \in Hosts, NEW s \in Streams, RemoteWrites(h, s) PROVE DataOK'
  BY <1>37 DEF RemoteWrites
<1>38. ASSUME NEW h \in Hosts, NEW s \in Streams, RemoteCloses(h, s) PROVE DataOK'
  BY <1>38 DEF RemoteCloses
<1>39. ASSUME NEW p \in Procs, ForwardBegin(p) PROVE DataOK'
  BY <1>39 DEF ForwardBegin
<1>40. ASSUME NEW p \in Procs, ForwardStep(p) PROVE DataOK'
  <2>1. fwd' \in 0..(N + 1)
    BY <1>40 DEF ForwardStep
  <2>2. sent' \subseteq Hosts
    <3>1. fwd \in Hosts
      BY <1>40 DEF ForwardStep, Hosts, SweepPlace
    <3> QED
      BY <1>40, <3>1 DEF ForwardStep
  <2> QED
    BY <1>40, <2>1, <2>2 DEF ForwardStep
<1>41. ASSUME NEW p \in Procs, ForwardEnd(p) PROVE DataOK'
  BY <1>41 DEF ForwardEnd
<1>42. ASSUME NEW p \in Procs, Errx(p) PROVE DataOK'
  BY <1>42 DEF Errx
<1>43. CASE UNCHANGED vars
  BY <1>43 DEF vars
<1> QED
  BY <1>1, <1>2, <1>3, <1>4, <1>5, <1>6, <1>7, <1>8, <1>9, <1>10, <1>11, <1>12,
     <1>13, <1>14, <1>15, <1>16, <1>17, <1>18, <1>19, <1>20, <1>21, <1>22, <1>23,
     <1>24, <1>25, <1>26, <1>27, <1>28, <1>29, <1>30, <1>31, <1>32, <1>33, <1>34,
     <1>35, <1>36, <1>37, <1>38, <1>39, <1>40, <1>41, <1>42, <1>43, <1>44 DEF Next,
     MainNext, SigNext, SigStep, DogNext, Environment, WorkerNext, WorkerStep,
     DieNext, Terminated

LEMMA LockStep == IndInv /\ [Next]_vars => LockPlace'
<1> SUFFICES ASSUME IndInv, [Next]_vars PROVE LockPlace'
  OBVIOUS
<1> USE ProcFacts, DshAssumption DEF IndInv, TypeOK, PcOK, PcsOf, LockPlace, Goto, WorkerPcs,
    MainPcs, SigPcs, DogPcs, DyingPcs, mainVars
<1>1. CASE MainLock
  BY <1>1 DEF MainLock
<1>2. CASE MainRoom
  BY <1>2 DEF MainRoom
<1>3. CASE MainSkip
  <2>1. \/ /\ pc' = [pc EXCEPT ![Main] = "drain"] /\ tcLock' = Nobody
           /\ UNCHANGED cur
        \/ /\ pc' = [pc EXCEPT ![Main] = "create"] /\ UNCHANGED tcLock
           /\ \E h \in cur[Main]..N : cur' = [cur EXCEPT ![Main] = h]
    BY <1>3 DEF MainSkip
  <2>2. pc[Main] = "skip"
    BY <1>3 DEF MainSkip
  <2>3. cur'[Sig] = cur[Sig] /\ cur'[Dog] = cur[Dog]
    BY <2>1 DEF DataOK
  <2>4. Nobody # Main /\ Nobody # Sig
    OBVIOUS
  <2> QED
    BY <2>1, <2>2, <2>3, <2>4
<1>4. CASE MainCreate
  BY <1>4 DEF MainCreate
<1>5. CASE MainCreateFails
  BY <1>5 DEF MainCreateFails
<1>6. CASE MainDrain
  BY <1>6 DEF MainDrain
<1>7. CASE MainReap
  BY <1>7 DEF MainReap
<1>8. CASE MainFree
  BY <1>8 DEF MainFree
<1>9. CASE SweepLock
  BY <1>9 DEF SweepLock
<1>10. CASE SweepLook
  BY <1>10 DEF SweepLook
<1>11. CASE SweepMark
  BY <1>11 DEF SweepMark
<1>12. CASE SweepUnlock
  BY <1>12 DEF SweepUnlock
<1>13. CASE SigGone
  BY <1>13 DEF SigGone
<1>14. CASE Interrupt
  BY <1>14 DEF Interrupt
<1>15. CASE TerminalStop
  BY <1>15 DEF TerminalStop
<1>16. CASE DogLook
  <2>1. /\ \A p \in Procs \ {Dog} : pc'[p] = pc[p]
        /\ cur'[Main] = cur[Main] /\ cur'[Sig] = cur[Sig]
    BY <1>16 DEF DogLook, DataOK
  <2>2. pc'[Dog] = "test" => cur'[Dog] <= N
    BY <1>16 DEF DogLook, DataOK, LockPlace
  <2> QED
    BY <1>16, <2>1, <2>2 DEF DogLook
<1>17. CASE DogAlarm
  BY <1>17 DEF DogAlarm
<1>18. CASE DogRest
  BY <1>18 DEF DogRest
<1>19. CASE DogLost
  BY <1>19 DEF DogLost
<1>20. CASE WindowCloses
  BY <1>20 DEF WindowCloses
<1>21. ASSUME NEW h \in Hosts, WorkerStart(h) PROVE LockPlace'
  BY <1>21 DEF WorkerStart
<1>22. ASSUME NEW h \in Hosts, ConnectOk(h) PROVE LockPlace'
  BY <1>22 DEF ConnectOk
<1>23. ASSUME NEW h \in Hosts, ConnectFails(h) PROVE LockPlace'
  BY <1>23 DEF ConnectFails
<1>24. ASSUME NEW h \in Hosts, WorkerUpdate(h) PROVE LockPlace'
  BY <1>24 DEF WorkerUpdate
<1>25. ASSUME NEW h \in Hosts, WorkerRecheck(h) PROVE LockPlace'
  BY <1>25 DEF WorkerRecheck
<1>26. ASSUME NEW h \in Hosts, WorkerDecide(h) PROVE LockPlace'
  BY <1>26 DEF WorkerDecide
<1>27. ASSUME NEW h \in Hosts, WorkerCopy(h) PROVE LockPlace'
  BY <1>27 DEF WorkerCopy
<1>28. ASSUME NEW h \in Hosts, PollReady(h) PROVE LockPlace'
  BY <1>28 DEF PollReady
<1>29. ASSUME NEW h \in Hosts, PollInterrupted(h) PROVE LockPlace'
  BY <1>29 DEF PollInterrupted
<1>44. ASSUME NEW h \in Hosts, PollFails(h) PROVE LockPlace'
  BY <1>44 DEF PollFails
<1>30. ASSUME NEW h \in Hosts, WorkerHandle(h) PROVE LockPlace'
  BY <1>30 DEF WorkerHandle
<1>31. ASSUME NEW h \in Hosts, WorkerFinish(h) PROVE LockPlace'
  BY <1>31 DEF WorkerFinish
<1>32. ASSUME NEW h \in Hosts, WorkerDestroy(h) PROVE LockPlace'
  BY <1>32 DEF WorkerDestroy
<1>33. ASSUME NEW h \in Hosts, WorkerCount(h) PROVE LockPlace'
  BY <1>33 DEF WorkerCount
<1>34. ASSUME NEW h \in Hosts, RemoteExits(h) PROVE LockPlace'
  BY <1>34 DEF RemoteExits
<1>35. ASSUME NEW h \in Hosts, ConnectLimitPasses(h) PROVE LockPlace'
  BY <1>35 DEF ConnectLimitPasses
<1>36. ASSUME NEW h \in Hosts, CommandLimitPasses(h) PROVE LockPlace'
  BY <1>36 DEF CommandLimitPasses
<1>37. ASSUME NEW h \in Hosts, NEW s \in Streams, RemoteWrites(h, s) PROVE LockPlace'
  BY <1>37 DEF RemoteWrites
<1>38. ASSUME NEW h \in Hosts, NEW s \in Streams, RemoteCloses(h, s) PROVE LockPlace'
  BY <1>38 DEF RemoteCloses
<1>39. ASSUME NEW p \in Procs, ForwardBegin(p) PROVE LockPlace'
  BY <1>39 DEF ForwardBegin
<1>40. ASSUME NEW p \in Procs, ForwardStep(p) PROVE LockPlace'
  BY <1>40 DEF ForwardStep
<1>41. ASSUME NEW p \in Procs, ForwardEnd(p) PROVE LockPlace'
  BY <1>41 DEF ForwardEnd
<1>42. ASSUME NEW p \in Procs, Errx(p) PROVE LockPlace'
  BY <1>42 DEF Errx
<1>43. CASE UNCHANGED vars
  BY <1>43 DEF vars
<1> QED
  BY <1>1, <1>2, <1>3, <1>4, <1>5, <1>6, <1>7, <1>8, <1>9, <1>10, <1>11, <1>12,
     <1>13, <1>14, <1>15, <1>16, <1>17, <1>18, <1>19, <1>20, <1>21, <1>22, <1>23,
     <1>24, <1>25, <1>26, <1>27, <1>28, <1>29, <1>30, <1>31, <1>32, <1>33, <1>34,
     <1>35, <1>36, <1>37, <1>38, <1>39, <1>40, <1>41, <1>42, <1>43, <1>44 DEF Next,
     MainNext, SigNext, SigStep, DogNext, Environment, WorkerNext, WorkerStep,
     DieNext, Terminated

LEMMA SpawnStep == IndInv /\ [Next]_vars => SpawnPlace'
<1> SUFFICES ASSUME IndInv, [Next]_vars PROVE SpawnPlace'
  OBVIOUS
<1> USE ProcFacts, DshAssumption DEF IndInv, TypeOK, PcOK, PcsOf, SpawnPlace, Goto, WorkerPcs,
    MainPcs, SigPcs, DogPcs, DyingPcs, mainVars, thdVars
<1>1. CASE MainLock
  BY <1>1 DEF MainLock
<1>2. CASE MainRoom
  BY <1>2 DEF MainRoom
<1>3. CASE MainSkip
  <2>1. CASE \A h \in Hosts : h >= cur[Main] => state[h] = "CANCELED"
    <3>1. {h \in cur[Main]..N : state[h] # "CANCELED"} = {}
      BY <2>1 DEF Hosts, DataOK
    <3>2. pc[Main] = "skip" /\ pc' = [pc EXCEPT ![Main] = "drain"]
      BY <1>3, <3>1 DEF MainSkip
    <3>3. \A h \in Hosts : pc[h] # "none" \/ state[h] = "CANCELED"
      BY <2>1, <3>2 DEF Hosts, DataOK
    <3> QED
      BY <1>3, <3>2, <3>3 DEF MainSkip
  <2>2. CASE \E h \in Hosts : h >= cur[Main] /\ state[h] # "CANCELED"
    <3>1. PICK h \in Hosts :
            /\ h >= cur[Main] /\ state[h] # "CANCELED"
            /\ \A g \in Hosts : g >= cur[Main] /\ state[g] # "CANCELED" => h <= g
            /\ pc[Main] = "skip" /\ pc' = [pc EXCEPT ![Main] = "create"]
            /\ cur' = [cur EXCEPT ![Main] = h]
      <4> DEFINE todo == {h \in cur[Main]..N : state[h] # "CANCELED"}
      <4>1. cur[Main] \in Nat \ {0}
        BY DEF DataOK
      <4>2. \A h : h \in todo <=> h \in Hosts /\ h >= cur[Main] /\ state[h] # "CANCELED"
        BY <4>1 DEF Hosts
      <4>3. todo # {}
        BY <2>2, <4>2
      <4>4. \E h \in todo : /\ \A g \in todo : h <= g
                             /\ pc[Main] = "skip" /\ pc' = [pc EXCEPT ![Main] = "create"]
                             /\ cur' = [cur EXCEPT ![Main] = h]
        BY <1>3, <4>3 DEF MainSkip
      <4> HIDE DEF todo
      <4> QED
        BY <4>2, <4>4
    <3>2. cur'[Main] = h /\ h <= N
      BY <3>1 DEF DataOK, Hosts
    <3>3. \A g \in Hosts : pc'[g] = pc[g]
      BY <3>1
    <3>4. \A g \in Hosts : /\ g >= h => pc[g] = "none"
                           /\ g < h => pc[g] # "none" \/ state[g] = "CANCELED"
      BY <3>1, <3>2 DEF Hosts, DataOK
    <3> QED
      BY <1>3, <3>1, <3>2, <3>3, <3>4 DEF MainSkip
  <2> QED
    BY <2>1, <2>2
<1>4. CASE MainCreate
  <2> DEFINE h == cur[Main]
  <2>1. h \in Hosts /\ cur'[Main] = h + 1
    BY <1>4 DEF MainCreate, DataOK, Hosts
  <2>2. /\ pc'[h] = "start" /\ pc'[Main] = IF h = N THEN "drain" ELSE "lock"
        /\ \A g \in Hosts : g # h => pc'[g] = pc[g]
    BY <1>4, <2>1 DEF MainCreate
  <2>3. \A g \in Hosts : /\ g >= h + 1 => pc'[g] = "none"
                         /\ g < h + 1 => pc'[g] # "none" \/ state[g] = "CANCELED"
    BY <1>4, <2>1, <2>2 DEF MainCreate, Hosts
  <2>4. h = N => \A g \in Hosts : g < h + 1
    BY DEF Hosts
  <2> QED
    BY <1>4, <2>1, <2>2, <2>3, <2>4 DEF MainCreate
<1>5. CASE MainCreateFails
  BY <1>5 DEF MainCreateFails
<1>6. CASE MainDrain
  BY <1>6 DEF MainDrain
<1>7. CASE MainReap
  BY <1>7 DEF MainReap
<1>8. CASE MainFree
  BY <1>8 DEF MainFree
<1>9. CASE SweepLock
  BY <1>9 DEF SweepLock
<1>10. CASE SweepLook
  BY <1>10 DEF SweepLook
<1>11. CASE SweepMark
  <2>1. /\ pc[Main] # "create" /\ pc[Main] # "skip"
        /\ \A p \in Procs \ {Sig} : pc'[p] = pc[p]
        /\ cur'[Main] = cur[Main]
    BY <1>11 DEF SweepMark, LockPlace, DataOK
  <2>2. \A h \in Hosts : state[h] = "CANCELED" => state'[h] = "CANCELED"
    BY <1>11 DEF SweepMark, DataOK
  <2> QED
    BY <2>1, <2>2
<1>12. CASE SweepUnlock
  BY <1>12 DEF SweepUnlock
<1>13. CASE SigGone
  BY <1>13 DEF SigGone
<1>14. CASE Interrupt
  BY <1>14 DEF Interrupt
<1>15. CASE TerminalStop
  BY <1>15 DEF TerminalStop
<1>16. CASE DogLook
  <2>1. /\ \A p \in Procs \ {Dog} : pc'[p] = pc[p]
        /\ cur'[Main] = cur[Main]
    BY <1>16 DEF DogLook, DataOK
  <2> QED
    BY <1>16, <2>1 DEF DogLook
<1>17. CASE DogAlarm
  BY <1>17 DEF DogAlarm
<1>18. CASE DogRest
  BY <1>18 DEF DogRest
<1>19. CASE DogLost
  BY <1>19 DEF DogLost
<1>20. CASE WindowCloses
  BY <1>20 DEF WindowCloses
<1>21. ASSUME NEW h \in Hosts, WorkerStart(h) PROVE SpawnPlace'
  BY <1>21 DEF WorkerStart
<1>22. ASSUME NEW h \in Hosts, ConnectOk(h) PROVE SpawnPlace'
  BY <1>22 DEF ConnectOk
<1>23. ASSUME NEW h \in Hosts, ConnectFails(h) PROVE SpawnPlace'
  BY <1>23 DEF ConnectFails
<1>24. ASSUME NEW h \in Hosts, WorkerUpdate(h) PROVE SpawnPlace'
  BY <1>24 DEF WorkerUpdate
<1>25. ASSUME NEW h \in Hosts, WorkerRecheck(h) PROVE SpawnPlace'
  BY <1>25 DEF WorkerRecheck
<1>26. ASSUME NEW h \in Hosts, WorkerDecide(h) PROVE SpawnPlace'
  BY <1>26 DEF WorkerDecide
<1>27. ASSUME NEW h \in Hosts, WorkerCopy(h) PROVE SpawnPlace'
  BY <1>27 DEF WorkerCopy
<1>28. ASSUME NEW h \in Hosts, PollReady(h) PROVE SpawnPlace'
  BY <1>28 DEF PollReady
<1>29. ASSUME NEW h \in Hosts, PollInterrupted(h) PROVE SpawnPlace'
  BY <1>29 DEF PollInterrupted
<1>44. ASSUME NEW h \in Hosts, PollFails(h) PROVE SpawnPlace'
  BY <1>44 DEF PollFails
<1>30. ASSUME NEW h \in Hosts, WorkerHandle(h) PROVE SpawnPlace'
  BY <1>30 DEF WorkerHandle
<1>31. ASSUME NEW h \in Hosts, WorkerFinish(h) PROVE SpawnPlace'
  <2>1. /\ pc[h] # "none" /\ pc'[h] # "none"
        /\ \A p \in Procs \ {h} : pc'[p] = pc[p]
        /\ \A g \in Hosts \ {h} : state'[g] = state[g]
    BY <1>31 DEF WorkerFinish, DataOK
  <2>2. pc[Main] = "create" => cur[Main] # h
    BY <2>1, <1>31 DEF DataOK, Hosts
  <2>3. UNCHANGED cur
    BY <1>31 DEF WorkerFinish
  <2>4. pc'[Main] = pc[Main] /\ \A g \in Hosts : pc'[g] = "none" <=> pc[g] = "none"
    BY <2>1
  <2>5. pc[Main] = "create" => cur[Main] \in Hosts /\ state'[cur[Main]] = state[cur[Main]]
    BY <2>1, <2>2 DEF Hosts, DataOK
  <2>6. \A g \in Hosts : pc[g] = "none" => state'[g] = state[g]
    BY <2>1
  <2> HIDE DEF Goto
  <2> QED
    BY <2>3, <2>4, <2>5, <2>6, SMTT(60)
<1>32. ASSUME NEW h \in Hosts, WorkerDestroy(h) PROVE SpawnPlace'
  BY <1>32 DEF WorkerDestroy
<1>33. ASSUME NEW h \in Hosts, WorkerCount(h) PROVE SpawnPlace'
  BY <1>33 DEF WorkerCount
<1>34. ASSUME NEW h \in Hosts, RemoteExits(h) PROVE SpawnPlace'
  BY <1>34 DEF RemoteExits
<1>35. ASSUME NEW h \in Hosts, ConnectLimitPasses(h) PROVE SpawnPlace'
  BY <1>35 DEF ConnectLimitPasses
<1>36. ASSUME NEW h \in Hosts, CommandLimitPasses(h) PROVE SpawnPlace'
  BY <1>36 DEF CommandLimitPasses
<1>37. ASSUME NEW h \in Hosts, NEW s \in Streams, RemoteWrites(h, s) PROVE SpawnPlace'
  BY <1>37 DEF RemoteWrites
<1>38. ASSUME NEW h \in Hosts, NEW s \in Streams, RemoteCloses(h, s) PROVE SpawnPlace'
  BY <1>38 DEF RemoteCloses
<1>39. ASSUME NEW p \in Procs, ForwardBegin(p) PROVE SpawnPlace'
  BY <1>39 DEF ForwardBegin
<1>40. ASSUME NEW p \in Procs, ForwardStep(p) PROVE SpawnPlace'
  BY <1>40 DEF ForwardStep
<1>41. ASSUME NEW p \in Procs, ForwardEnd(p) PROVE SpawnPlace'
  BY <1>41 DEF ForwardEnd
<1>42. ASSUME NEW p \in Procs, Errx(p) PROVE SpawnPlace'
  BY <1>42 DEF Errx
<1>43. CASE UNCHANGED vars
  BY <1>43 DEF vars
<1> QED
  BY <1>1, <1>2, <1>3, <1>4, <1>5, <1>6, <1>7, <1>8, <1>9, <1>10, <1>11, <1>12,
     <1>13, <1>14, <1>15, <1>16, <1>17, <1>18, <1>19, <1>20, <1>21, <1>22, <1>23,
     <1>24, <1>25, <1>26, <1>27, <1>28, <1>29, <1>30, <1>31, <1>32, <1>33, <1>34,
     <1>35, <1>36, <1>37, <1>38, <1>39, <1>40, <1>41, <1>42, <1>43, <1>44 DEF Next,
     MainNext, SigNext, SigStep, DogNext, Environment, WorkerNext, WorkerStep,
     DieNext, Terminated

LEMMA ConnStep == IndInv /\ [Next]_vars => ConnPlace'
<1> SUFFICES ASSUME IndInv, [Next]_vars PROVE ConnPlace'
  OBVIOUS
<1> USE ProcFacts, DshAssumption DEF IndInv, TypeOK, PcOK, PcsOf, DataOK, ConnPlace, Goto,
    WorkerPcs, MainPcs, SigPcs, DogPcs, DyingPcs, thdVars, connVars
<1>1. CASE MainLock
  <2>1. UNCHANGED <<state, rcmd>> /\ \A h \in Hosts : pc'[h] = pc[h]
    BY <1>1 DEF MainLock
  <2> QED
    BY <2>1
<1>2. CASE MainRoom
  BY <1>2 DEF MainRoom
<1>3. CASE MainSkip
  BY <1>3 DEF MainSkip
<1>4. CASE MainCreate
  <2>1. cur[Main] \in Hosts /\ pc[cur[Main]] = "none"
    BY <1>4 DEF MainCreate, Hosts, SpawnPlace
  <2>2. \A h \in Hosts : h # cur[Main] => pc'[h] = pc[h]
    BY <1>4, <2>1 DEF MainCreate
  <2>3. rcmd[cur[Main]] # "destroyed" /\ pc'[cur[Main]] = "start"
    BY <1>4, <2>1 DEF MainCreate
  <2> QED
    BY <1>4, <2>1, <2>2, <2>3 DEF MainCreate
<1>5. CASE MainCreateFails
  BY <1>5 DEF MainCreateFails
<1>6. CASE MainDrain
  BY <1>6 DEF MainDrain
<1>7. CASE MainReap
  BY <1>7 DEF MainReap
<1>8. CASE MainFree
  BY <1>8 DEF MainFree
<1>9. CASE SweepLock
  BY <1>9 DEF SweepLock
<1>10. CASE SweepLook
  BY <1>10 DEF SweepLook
<1>11. CASE SweepMark
  BY <1>11 DEF SweepMark
<1>12. CASE SweepUnlock
  BY <1>12 DEF SweepUnlock
<1>13. CASE SigGone
  BY <1>13 DEF SigGone
<1>14. CASE Interrupt
  BY <1>14 DEF Interrupt
<1>15. CASE TerminalStop
  BY <1>15 DEF TerminalStop
<1>16. CASE DogLook
  <2>1. \A h \in Hosts : pc'[h] = pc[h]
    BY <1>16 DEF DogLook
  <2> QED
    BY <1>16, <2>1 DEF DogLook
<1>17. CASE DogAlarm
  BY <1>17 DEF DogAlarm
<1>18. CASE DogRest
  BY <1>18 DEF DogRest
<1>19. CASE DogLost
  BY <1>19 DEF DogLost
<1>20. CASE WindowCloses
  BY <1>20 DEF WindowCloses
<1>21. ASSUME NEW h \in Hosts, WorkerStart(h) PROVE ConnPlace'
  BY <1>21 DEF WorkerStart
<1>22. ASSUME NEW h \in Hosts, ConnectOk(h) PROVE ConnPlace'
  BY <1>22 DEF ConnectOk
<1>23. ASSUME NEW h \in Hosts, ConnectFails(h) PROVE ConnPlace'
  BY <1>23 DEF ConnectFails
<1>24. ASSUME NEW h \in Hosts, WorkerUpdate(h) PROVE ConnPlace'
  BY <1>24 DEF WorkerUpdate
<1>25. ASSUME NEW h \in Hosts, WorkerRecheck(h) PROVE ConnPlace'
  BY <1>25 DEF WorkerRecheck
<1>26. ASSUME NEW h \in Hosts, WorkerDecide(h) PROVE ConnPlace'
  <2>1. /\ pc[h] = "decide" /\ pc'[h] \in {"finish", "copy", "poll"}
        /\ \A g \in Hosts \ {h} : pc'[g] = pc[g]
        /\ state' = state
    BY <1>26 DEF WorkerDecide, DataOK
  <2>2. rcmd' = rcmd
    BY <1>26 DEF WorkerDecide
  <2> HIDE DEF Goto
  <2> QED
    BY <2>1, <2>2
<1>27. ASSUME NEW h \in Hosts, WorkerCopy(h) PROVE ConnPlace'
  BY <1>27 DEF WorkerCopy
<1>28. ASSUME NEW h \in Hosts, PollReady(h) PROVE ConnPlace'
  BY <1>28 DEF PollReady
<1>29. ASSUME NEW h \in Hosts, PollInterrupted(h) PROVE ConnPlace'
  BY <1>29 DEF PollInterrupted
<1>44. ASSUME NEW h \in Hosts, PollFails(h) PROVE ConnPlace'
  BY <1>44 DEF PollFails
<1>30. ASSUME NEW h \in Hosts, WorkerHandle(h) PROVE ConnPlace'
  BY <1>30 DEF WorkerHandle
<1>31. ASSUME NEW h \in Hosts, WorkerFinish(h) PROVE ConnPlace'
  BY <1>31 DEF WorkerFinish
<1>32. ASSUME NEW h \in Hosts, WorkerDestroy(h) PROVE ConnPlace'
  <2>1. pc'[h] \in {"die", "count"} /\ state[h] # "READING"
    BY <1>32 DEF WorkerDestroy
  <2>2. \A g \in Hosts \ {h} : pc'[g] = pc[g] /\ rcmd'[g] = rcmd[g]
    BY <1>32 DEF WorkerDestroy
  <2> QED
    BY <1>32, <2>1, <2>2 DEF WorkerDestroy
<1>33. ASSUME NEW h \in Hosts, WorkerCount(h) PROVE ConnPlace'
  BY <1>33 DEF WorkerCount
<1>34. ASSUME NEW h \in Hosts, RemoteExits(h) PROVE ConnPlace'
  BY <1>34 DEF RemoteExits
<1>35. ASSUME NEW h \in Hosts, ConnectLimitPasses(h) PROVE ConnPlace'
  BY <1>35 DEF ConnectLimitPasses
<1>36. ASSUME NEW h \in Hosts, CommandLimitPasses(h) PROVE ConnPlace'
  BY <1>36 DEF CommandLimitPasses
<1>37. ASSUME NEW h \in Hosts, NEW s \in Streams, RemoteWrites(h, s) PROVE ConnPlace'
  BY <1>37 DEF RemoteWrites
<1>38. ASSUME NEW h \in Hosts, NEW s \in Streams, RemoteCloses(h, s) PROVE ConnPlace'
  BY <1>38 DEF RemoteCloses
<1>39. ASSUME NEW p \in Procs, ForwardBegin(p) PROVE ConnPlace'
  BY <1>39 DEF ForwardBegin
<1>40. ASSUME NEW p \in Procs, ForwardStep(p) PROVE ConnPlace'
  BY <1>40 DEF ForwardStep
<1>41. ASSUME NEW p \in Procs, ForwardEnd(p) PROVE ConnPlace'
  BY <1>41 DEF ForwardEnd
<1>42. ASSUME NEW p \in Procs, Errx(p) PROVE ConnPlace'
  BY <1>42 DEF Errx
<1>43. CASE UNCHANGED vars
  BY <1>43 DEF vars
<1> QED
  BY <1>1, <1>2, <1>3, <1>4, <1>5, <1>6, <1>7, <1>8, <1>9, <1>10, <1>11, <1>12,
     <1>13, <1>14, <1>15, <1>16, <1>17, <1>18, <1>19, <1>20, <1>21, <1>22, <1>23,
     <1>24, <1>25, <1>26, <1>27, <1>28, <1>29, <1>30, <1>31, <1>32, <1>33, <1>34,
     <1>35, <1>36, <1>37, <1>38, <1>39, <1>40, <1>41, <1>42, <1>43, <1>44 DEF Next,
     MainNext, SigNext, SigStep, DogNext, Environment, WorkerNext, WorkerStep,
     DieNext, Terminated

LEMMA SweepStep == IndInv /\ [Next]_vars => SweepPlace'
<1> SUFFICES ASSUME IndInv, [Next]_vars PROVE SweepPlace'
  OBVIOUS
<1> USE ProcFacts, DshAssumption DEF IndInv, TypeOK, PcOK, PcsOf, DataOK, SweepPlace, Goto,
    WorkerPcs, MainPcs, SigPcs, DogPcs, DyingPcs, thdVars, connVars, fwdVars
<1>1. CASE MainLock
  BY <1>1 DEF MainLock
<1>2. CASE MainRoom
  BY <1>2 DEF MainRoom
<1>3. CASE MainSkip
  BY <1>3 DEF MainSkip
<1>4. CASE MainCreate
  <2>1. cur[Main] \in Hosts /\ pc[cur[Main]] = "none"
    BY <1>4 DEF MainCreate, Hosts, SpawnPlace
  <2>2. \A p \in Procs : pc'[p] = "forward" <=> pc[p] = "forward"
    BY <1>4, <2>1 DEF MainCreate
  <2> QED
    BY <1>4, <2>2 DEF MainCreate
<1>5. CASE MainCreateFails
  BY <1>5 DEF MainCreateFails
<1>6. CASE MainDrain
  BY <1>6 DEF MainDrain
<1>7. CASE MainReap
  BY <1>7 DEF MainReap
<1>8. CASE MainFree
  BY <1>8 DEF MainFree
<1>9. CASE SweepLock
  BY <1>9 DEF SweepLock
<1>10. CASE SweepLook
  BY <1>10 DEF SweepLook
<1>11. CASE SweepMark
  BY <1>11 DEF SweepMark
<1>12. CASE SweepUnlock
  BY <1>12 DEF SweepUnlock
<1>13. CASE SigGone
  BY <1>13 DEF SigGone
<1>14. CASE Interrupt
  BY <1>14 DEF Interrupt
<1>15. CASE TerminalStop
  BY <1>15 DEF TerminalStop
<1>16. CASE DogLook
  BY <1>16 DEF DogLook
<1>17. CASE DogAlarm
  BY <1>17 DEF DogAlarm
<1>18. CASE DogRest
  BY <1>18 DEF DogRest
<1>19. CASE DogLost
  BY <1>19 DEF DogLost
<1>20. CASE WindowCloses
  BY <1>20 DEF WindowCloses
<1>21. ASSUME NEW h \in Hosts, WorkerStart(h) PROVE SweepPlace'
  BY <1>21 DEF WorkerStart
<1>22. ASSUME NEW h \in Hosts, ConnectOk(h) PROVE SweepPlace'
  BY <1>22 DEF ConnectOk
<1>23. ASSUME NEW h \in Hosts, ConnectFails(h) PROVE SweepPlace'
  BY <1>23 DEF ConnectFails
<1>24. ASSUME NEW h \in Hosts, WorkerUpdate(h) PROVE SweepPlace'
  BY <1>24 DEF WorkerUpdate
<1>25. ASSUME NEW h \in Hosts, WorkerRecheck(h) PROVE SweepPlace'
  BY <1>25 DEF WorkerRecheck
<1>26. ASSUME NEW h \in Hosts, WorkerDecide(h) PROVE SweepPlace'
  BY <1>26 DEF WorkerDecide
<1>27. ASSUME NEW h \in Hosts, WorkerCopy(h) PROVE SweepPlace'
  BY <1>27 DEF WorkerCopy
<1>28. ASSUME NEW h \in Hosts, PollReady(h) PROVE SweepPlace'
  BY <1>28 DEF PollReady
<1>29. ASSUME NEW h \in Hosts, PollInterrupted(h) PROVE SweepPlace'
  BY <1>29 DEF PollInterrupted
<1>44. ASSUME NEW h \in Hosts, PollFails(h) PROVE SweepPlace'
  BY <1>44 DEF PollFails
<1>30. ASSUME NEW h \in Hosts, WorkerHandle(h) PROVE SweepPlace'
  BY <1>30 DEF WorkerHandle
<1>31. ASSUME NEW h \in Hosts, WorkerFinish(h) PROVE SweepPlace'
  BY <1>31 DEF WorkerFinish
<1>32. ASSUME NEW h \in Hosts, WorkerDestroy(h) PROVE SweepPlace'
  BY <1>32 DEF WorkerDestroy
<1>33. ASSUME NEW h \in Hosts, WorkerCount(h) PROVE SweepPlace'
  BY <1>33 DEF WorkerCount
<1>34. ASSUME NEW h \in Hosts, RemoteExits(h) PROVE SweepPlace'
  BY <1>34 DEF RemoteExits
<1>35. ASSUME NEW h \in Hosts, ConnectLimitPasses(h) PROVE SweepPlace'
  BY <1>35 DEF ConnectLimitPasses
<1>36. ASSUME NEW h \in Hosts, CommandLimitPasses(h) PROVE SweepPlace'
  BY <1>36 DEF CommandLimitPasses
<1>37. ASSUME NEW h \in Hosts, NEW s \in Streams, RemoteWrites(h, s) PROVE SweepPlace'
  BY <1>37 DEF RemoteWrites
<1>38. ASSUME NEW h \in Hosts, NEW s \in Streams, RemoteCloses(h, s) PROVE SweepPlace'
  BY <1>38 DEF RemoteCloses
<1>39. ASSUME NEW p \in Procs, ForwardBegin(p) PROVE SweepPlace'
  <2>1. fwd' = 1 /\ \A h \in Hosts : ~(h < 1)
    BY <1>39 DEF ForwardBegin, Hosts
  <2> QED
    BY <1>39, <2>1 DEF ForwardBegin
<1>40. ASSUME NEW p \in Procs, ForwardStep(p) PROVE SweepPlace'
  <2>1. fwd \in Hosts /\ fwd' = fwd + 1
    BY <1>40 DEF ForwardStep, Hosts
  <2>2. \A h \in Hosts : h < fwd + 1 => h < fwd \/ h = fwd
    BY <2>1 DEF Hosts
  <2>3. sent \subseteq sent' /\ (state[fwd] = "READING" => fwd \in sent')
    BY <1>40 DEF ForwardStep
  <2> QED
    BY <1>40, <2>1, <2>2, <2>3 DEF ForwardStep
<1>41. ASSUME NEW p \in Procs, ForwardEnd(p) PROVE SweepPlace'
  BY <1>41 DEF ForwardEnd
<1>42. ASSUME NEW p \in Procs, Errx(p) PROVE SweepPlace'
  BY <1>42 DEF Errx
<1>43. CASE UNCHANGED vars
  BY <1>43 DEF vars
<1> QED
  BY <1>1, <1>2, <1>3, <1>4, <1>5, <1>6, <1>7, <1>8, <1>9, <1>10, <1>11, <1>12,
     <1>13, <1>14, <1>15, <1>16, <1>17, <1>18, <1>19, <1>20, <1>21, <1>22, <1>23,
     <1>24, <1>25, <1>26, <1>27, <1>28, <1>29, <1>30, <1>31, <1>32, <1>33, <1>34,
     <1>35, <1>36, <1>37, <1>38, <1>39, <1>40, <1>41, <1>42, <1>43, <1>44 DEF Next,
     MainNext, SigNext, SigStep, DogNext, Environment, WorkerNext, WorkerStep,
     DieNext, Terminated

LEMMA ActiveSame ==
  ASSUME \A h \in Hosts : pc'[h] \in {"none", "exit"} <=> pc[h] \in {"none", "exit"}
  PROVE  Active' = Active
BY DEF Active

LEMMA MainLockCounts ==
  ASSUME IndInv, MainLock
  PROVE  CountPlace'
<1>1. /\ UNCHANGED <<threadcount, woken>> /\ pc[Main] = "lock"
      /\ \/ pc'[Main] = "wait_room"
         \/ pc'[Main] = "skip" /\ threadcount # Fanout
      /\ \A h \in Hosts : pc'[h] = pc[h]
  BY ProcFacts DEF IndInv, TypeOK, PcOK, MainLock, Goto
<1>2. ~woken'
  BY <1>1 DEF IndInv, CountPlace
<1>3. CountsWorkers'
  BY <1>1, ActiveSame DEF IndInv, CountPlace, CountsWorkers
<1>4. ASSUME ~SpuriousWakeups
      PROVE  /\ threadcount' <= Fanout
             /\ pc'[Main] \in {"skip", "create"} => threadcount' < Fanout
  <2>1. threadcount <= Fanout /\ threadcount \in Nat /\ Fanout \in Nat
    BY <1>4, DshAssumption DEF IndInv, TypeOK, DataOK, CountPlace
  <2> QED
    BY <1>1, <2>1
<1> QED
  BY <1>1, <1>2, <1>3, <1>4 DEF CountPlace

LEMMA CountStep == IndInv /\ [Next]_vars => CountPlace'
<1> SUFFICES ASSUME IndInv, [Next]_vars PROVE CountPlace'
  OBVIOUS
<1> USE ProcFacts, ActiveSame, ActiveFacts, DshAssumption DEF IndInv, TypeOK, PcOK, PcsOf, DataOK,
    LockPlace, CountPlace, CountsWorkers, Goto, WorkerPcs, MainPcs, SigPcs, DogPcs, DyingPcs, mainVars
<1>1. CASE MainLock
  BY <1>1, MainLockCounts
<1>2. CASE MainRoom
  BY <1>2 DEF MainRoom
<1>3. CASE MainSkip
  BY <1>3 DEF MainSkip
<1>4. CASE MainCreate
  <2> DEFINE h == cur[Main]
  <2>1. h \in Hosts /\ pc[h] = "none"
    BY <1>4 DEF MainCreate, Hosts, SpawnPlace
  <2>2. /\ pc'[h] = "start" /\ \A g \in Hosts \ {h} : pc'[g] = pc[g]
        /\ pc'[Main] \in {"drain", "lock"}
    BY <1>4, <2>1 DEF MainCreate
  <2>3. Active' = Active \cup {h} /\ h \notin Active
    BY <2>1, <2>2 DEF Active
  <2>4. Cardinality(Active') = Cardinality(Active) + 1
    BY <2>3, FS_AddElement
  <2>5. threadcount' = threadcount + 1 /\ (~SpuriousWakeups => threadcount < Fanout)
    BY <1>4 DEF MainCreate
  <2>6. ~woken'
    BY <1>4 DEF MainCreate
  <2> QED
    BY <2>2, <2>4, <2>5, <2>6
<1>5. CASE MainCreateFails
  BY <1>5 DEF MainCreateFails
<1>6. CASE MainDrain
  BY <1>6 DEF MainDrain
<1>7. CASE MainReap
  BY <1>7 DEF MainReap
<1>8. CASE MainFree
  BY <1>8 DEF MainFree
<1>9. CASE SweepLock
  BY <1>9 DEF SweepLock
<1>10. CASE SweepLook
  BY <1>10 DEF SweepLook
<1>11. CASE SweepMark
  BY <1>11 DEF SweepMark
<1>12. CASE SweepUnlock
  BY <1>12 DEF SweepUnlock
<1>13. CASE SigGone
  BY <1>13 DEF SigGone
<1>14. CASE Interrupt
  BY <1>14 DEF Interrupt
<1>15. CASE TerminalStop
  BY <1>15 DEF TerminalStop
<1>16. CASE DogLook
  <2>1. /\ \A p \in Procs \ {Dog} : pc'[p] = pc[p]
        /\ UNCHANGED mainVars
    BY <1>16 DEF DogLook
  <2>2. Active' = Active
    BY <2>1
  <2> QED
    BY <2>1, <2>2
<1>17. CASE DogAlarm
  BY <1>17 DEF DogAlarm
<1>18. CASE DogRest
  BY <1>18 DEF DogRest
<1>19. CASE DogLost
  BY <1>19 DEF DogLost
<1>20. CASE WindowCloses
  BY <1>20 DEF WindowCloses
<1>21. ASSUME NEW h \in Hosts, WorkerStart(h) PROVE CountPlace'
  BY <1>21 DEF WorkerStart
<1>22. ASSUME NEW h \in Hosts, ConnectOk(h) PROVE CountPlace'
  BY <1>22 DEF ConnectOk
<1>23. ASSUME NEW h \in Hosts, ConnectFails(h) PROVE CountPlace'
  BY <1>23 DEF ConnectFails
<1>24. ASSUME NEW h \in Hosts, WorkerUpdate(h) PROVE CountPlace'
  BY <1>24 DEF WorkerUpdate
<1>25. ASSUME NEW h \in Hosts, WorkerRecheck(h) PROVE CountPlace'
  BY <1>25 DEF WorkerRecheck
<1>26. ASSUME NEW h \in Hosts, WorkerDecide(h) PROVE CountPlace'
  BY <1>26 DEF WorkerDecide
<1>27. ASSUME NEW h \in Hosts, WorkerCopy(h) PROVE CountPlace'
  BY <1>27 DEF WorkerCopy
<1>28. ASSUME NEW h \in Hosts, PollReady(h) PROVE CountPlace'
  BY <1>28 DEF PollReady
<1>29. ASSUME NEW h \in Hosts, PollInterrupted(h) PROVE CountPlace'
  BY <1>29 DEF PollInterrupted
<1>44. ASSUME NEW h \in Hosts, PollFails(h) PROVE CountPlace'
  BY <1>44 DEF PollFails
<1>30. ASSUME NEW h \in Hosts, WorkerHandle(h) PROVE CountPlace'
  BY <1>30 DEF WorkerHandle
<1>31. ASSUME NEW h \in Hosts, WorkerFinish(h) PROVE CountPlace'
  BY <1>31 DEF WorkerFinish
<1>32. ASSUME NEW h \in Hosts, WorkerDestroy(h) PROVE CountPlace'
  BY <1>32 DEF WorkerDestroy
<1>33. ASSUME NEW h \in Hosts, WorkerCount(h) PROVE CountPlace'
  <2>1. /\ pc[h] = "count" /\ pc'[h] = "exit" /\ pc'[Main] = pc[Main]
        /\ \A g \in Hosts \ {h} : pc'[g] = pc[g]
    BY <1>33 DEF WorkerCount
  <2>2. Active' = Active \ {h} /\ h \in Active
    BY <2>1 DEF Active
  <2>3. Cardinality(Active') = Cardinality(Active) - 1
    BY <2>2, FS_RemoveElement
  <2>4. threadcount' = threadcount - 1 /\ threadcount > 0
    BY <1>33, <2>2 DEF WorkerCount
  <2>5. woken' => pc[Main] \in {"wait_room", "wait_drain"}
    BY <1>33 DEF WorkerCount
  <2>6. pc[Main] \in {"reap", "free", "done"} => threadcount = 0
    OBVIOUS
  <2>7. ~SpuriousWakeups => threadcount' < Fanout
    BY <2>4
  <2>8. CountsWorkers'
    BY <2>3, <2>4
  <2> QED
    BY <2>1, <2>4, <2>5, <2>6, <2>7, <2>8
<1>34. ASSUME NEW h \in Hosts, RemoteExits(h) PROVE CountPlace'
  BY <1>34 DEF RemoteExits
<1>35. ASSUME NEW h \in Hosts, ConnectLimitPasses(h) PROVE CountPlace'
  BY <1>35 DEF ConnectLimitPasses
<1>36. ASSUME NEW h \in Hosts, CommandLimitPasses(h) PROVE CountPlace'
  BY <1>36 DEF CommandLimitPasses
<1>37. ASSUME NEW h \in Hosts, NEW s \in Streams, RemoteWrites(h, s) PROVE CountPlace'
  BY <1>37 DEF RemoteWrites
<1>38. ASSUME NEW h \in Hosts, NEW s \in Streams, RemoteCloses(h, s) PROVE CountPlace'
  BY <1>38 DEF RemoteCloses
<1>39. ASSUME NEW p \in Procs, ForwardBegin(p) PROVE CountPlace'
  BY <1>39 DEF ForwardBegin
<1>40. ASSUME NEW p \in Procs, ForwardStep(p) PROVE CountPlace'
  BY <1>40 DEF ForwardStep
<1>41. ASSUME NEW p \in Procs, ForwardEnd(p) PROVE CountPlace'
  BY <1>41 DEF ForwardEnd
<1>42. ASSUME NEW p \in Procs, Errx(p) PROVE CountPlace'
  BY <1>42 DEF Errx
<1>43. CASE UNCHANGED vars
  BY <1>43 DEF vars
<1> QED
  BY <1>1, <1>2, <1>3, <1>4, <1>5, <1>6, <1>7, <1>8, <1>9, <1>10, <1>11, <1>12,
     <1>13, <1>14, <1>15, <1>16, <1>17, <1>18, <1>19, <1>20, <1>21, <1>22, <1>23,
     <1>24, <1>25, <1>26, <1>27, <1>28, <1>29, <1>30, <1>31, <1>32, <1>33, <1>34,
     <1>35, <1>36, <1>37, <1>38, <1>39, <1>40, <1>41, <1>42, <1>43, <1>44 DEF Next,
     MainNext, SigNext, SigStep, DogNext, Environment, WorkerNext, WorkerStep,
     DieNext, Terminated

LEMMA ServedInv == IndInv => AllServed
<1> SUFFICES ASSUME IndInv, pc[Main] \in {"reap", "free", "done"}, NEW h \in Hosts
             PROVE  pc[h] = "exit" \/ (pc[h] = "none" /\ state[h] = "CANCELED")
  BY DEF AllServed
<1>1. Active = {}
  BY ActiveFacts DEF IndInv, CountPlace, CountsWorkers
<1> QED
  BY <1>1 DEF IndInv, SpawnPlace, Active

LEMMA ResultStep == IndInv /\ ResultPlace /\ [Next]_vars => ResultPlace'
<1> SUFFICES ASSUME IndInv, ResultPlace, [Next]_vars PROVE ResultPlace'
  OBVIOUS
<1>0. PcOK /\ DataOK 
  BY DshAssumption DEF IndInv, TypeOK
<1> USE <1>0, ProcFacts DEF PcOK, PcsOf, DataOK, ResultPlace, Goto, mainVars, thdVars,
    connVars, fwdVars, userVars, WorkerPcs, MainPcs, SigPcs, DogPcs, DyingPcs, States
<1>1. CASE MainLock
  <2>1. /\ \A p \in Procs \ {Main} : pc'[p] = pc[p]
        /\ UNCHANGED <<state, rc, result, recent, typed>>
    BY <1>1 DEF MainLock
  <2> QED
    BY <2>1
<1>2. CASE MainRoom
  BY <1>2 DEF MainRoom
<1>3. CASE MainSkip
  BY <1>3 DEF MainSkip
<1>4. CASE MainCreate
  <2>1. /\ cur[Main] \in Hosts
        /\ UNCHANGED <<state, rc, result, recent, typed>>
    BY <1>4, DshAssumption DEF MainCreate, IndInv, SpawnPlace, Hosts
  <2>2. /\ pc[cur[Main]] = "none" /\ pc'[cur[Main]] = "start"
        /\ \A p \in Procs \ {Main, cur[Main]} : pc'[p] = pc[p]
    BY <1>4, <2>1 DEF MainCreate, IndInv, SpawnPlace
  <2>3. pc'[Sig] = pc[Sig]
    BY <2>1, <2>2
  <2>4. ASSUME NEW h \in Hosts
        PROVE  \/ pc'[h] = pc[h]
               \/ pc[h] = "none" /\ pc'[h] = "start" /\ result[h] # "FAILED"
    <3>1. pc[h] = "none" => result[h] # "FAILED"
      OBVIOUS
    <3>2. h # cur[Main] => pc'[h] = pc[h]
      BY <2>2
    <3> QED
      BY <2>2, <3>1, <3>2
  <2> QED
    BY <2>1, <2>3, <2>4
<1>5. CASE MainCreateFails
  BY <1>5 DEF MainCreateFails
<1>6. CASE MainDrain
  BY <1>6 DEF MainDrain
<1>7. CASE MainReap
  BY <1>7 DEF MainReap
<1>8. CASE MainFree
  BY <1>8 DEF MainFree
<1>9. CASE SweepLock
  BY <1>9 DEF SweepLock
<1>10. CASE SweepLook
  BY <1>10 DEF SweepLook
<1>11. CASE SweepMark
  BY <1>11 DEF SweepMark
<1>12. CASE SweepUnlock
  BY <1>12 DEF SweepUnlock
<1>13. CASE SigGone
  BY <1>13 DEF SigGone
<1>14. CASE Interrupt
  BY <1>14 DEF Interrupt
<1>15. CASE TerminalStop
  BY <1>15 DEF TerminalStop
<1>16. CASE DogLook
  BY <1>16 DEF DogLook
<1>17. CASE DogAlarm
  BY <1>17 DEF DogAlarm
<1>18. CASE DogRest
  BY <1>18 DEF DogRest
<1>19. CASE DogLost
  BY <1>19 DEF DogLost
<1>20. CASE WindowCloses
  BY <1>20 DEF WindowCloses
<1>21. ASSUME NEW h \in Hosts, WorkerStart(h) PROVE ResultPlace'
  BY <1>21 DEF WorkerStart
<1>22. ASSUME NEW h \in Hosts, ConnectOk(h) PROVE ResultPlace'
  BY <1>22 DEF ConnectOk
<1>23. ASSUME NEW h \in Hosts, ConnectFails(h) PROVE ResultPlace'
  BY <1>23 DEF ConnectFails
<1>24. ASSUME NEW h \in Hosts, WorkerUpdate(h) PROVE ResultPlace'
  BY <1>24 DEF WorkerUpdate
<1>25. ASSUME NEW h \in Hosts, WorkerRecheck(h) PROVE ResultPlace'
  BY <1>25 DEF WorkerRecheck
<1>26. ASSUME NEW h \in Hosts, WorkerDecide(h) PROVE ResultPlace'
  BY <1>26 DEF WorkerDecide
<1>27. ASSUME NEW h \in Hosts, WorkerCopy(h) PROVE ResultPlace'
  BY <1>27 DEF WorkerCopy
<1>28. ASSUME NEW h \in Hosts, PollReady(h) PROVE ResultPlace'
  BY <1>28 DEF PollReady
<1>29. ASSUME NEW h \in Hosts, PollInterrupted(h) PROVE ResultPlace'
  <2>1. CASE "command" \in late[h]
    BY <1>29, <2>1 DEF PollInterrupted
  <2>2. CASE "command" \notin late[h]
    <3>1. UNCHANGED <<pc, state, rc, result, typed, recent>>
      BY <1>29, <2>2 DEF PollInterrupted
    <3> QED
      BY <3>1
  <2> QED
    BY <2>1, <2>2
<1>44. ASSUME NEW h \in Hosts, PollFails(h) PROVE ResultPlace'
  BY <1>44 DEF PollFails
<1>30. ASSUME NEW h \in Hosts, WorkerHandle(h) PROVE ResultPlace'
  BY <1>30 DEF WorkerHandle
<1>31. ASSUME NEW h \in Hosts, WorkerFinish(h) PROVE ResultPlace'
  BY <1>31 DEF WorkerFinish
<1>32. ASSUME NEW h \in Hosts, WorkerDestroy(h) PROVE ResultPlace'
  BY <1>32 DEF WorkerDestroy
<1>33. ASSUME NEW h \in Hosts, WorkerCount(h) PROVE ResultPlace'
  BY <1>33 DEF WorkerCount
<1>34. ASSUME NEW h \in Hosts, RemoteExits(h) PROVE ResultPlace'
  BY <1>34 DEF RemoteExits
<1>35. ASSUME NEW h \in Hosts, ConnectLimitPasses(h) PROVE ResultPlace'
  BY <1>35 DEF ConnectLimitPasses
<1>36. ASSUME NEW h \in Hosts, CommandLimitPasses(h) PROVE ResultPlace'
  BY <1>36 DEF CommandLimitPasses
<1>37. ASSUME NEW h \in Hosts, NEW s \in Streams, RemoteWrites(h, s)
      PROVE  ResultPlace'
  BY <1>37 DEF RemoteWrites
<1>38. ASSUME NEW h \in Hosts, NEW s \in Streams, RemoteCloses(h, s)
      PROVE  ResultPlace'
  BY <1>38 DEF RemoteCloses
<1>39. ASSUME NEW p \in Procs, ForwardBegin(p) PROVE ResultPlace'
  BY <1>39 DEF ForwardBegin
<1>40. ASSUME NEW p \in Procs, ForwardStep(p) PROVE ResultPlace'
  BY <1>40 DEF ForwardStep
<1>41. ASSUME NEW p \in Procs, ForwardEnd(p) PROVE ResultPlace'
  BY <1>41 DEF ForwardEnd
<1>42. ASSUME NEW p \in Procs, Errx(p) PROVE ResultPlace'
  BY <1>42 DEF Errx
<1>43. CASE UNCHANGED vars
  BY <1>43 DEF vars
<1> QED
  BY <1>1, <1>2, <1>3, <1>4, <1>5, <1>6, <1>7, <1>8, <1>9, <1>10, <1>11, <1>12,
     <1>13, <1>14, <1>15, <1>16, <1>17, <1>18, <1>19, <1>20, <1>21, <1>22, <1>23,
     <1>24, <1>25, <1>26, <1>27, <1>28, <1>29, <1>30, <1>31, <1>32, <1>33, <1>34,
     <1>35, <1>36, <1>37, <1>38, <1>39, <1>40, <1>41, <1>42, <1>43, <1>44 DEF Next,
     MainNext, SigNext, SigStep, DogNext, Environment, WorkerNext, WorkerStep,
     DieNext, Terminated

LEMMA CountedNat == TypeOK => Counted \subseteq Nat
BY DshAssumption DEF TypeOK, DataOK, Counted

LEMMA CodeStep == IndInv /\ ReportInv /\ [Next]_vars => CodePlace'
<1> SUFFICES ASSUME IndInv, ResultPlace, CodePlace, [Next]_vars PROVE CodePlace'
  BY DEF ReportInv
<1>0. PcOK /\ DataOK /\ AllServed /\ TypeOK
  BY ServedInv DEF IndInv, TypeOK
<1> USE <1>0, ProcFacts DEF PcOK, PcsOf, DataOK, AllServed, CodePlace, Goto, mainVars, thdVars,
    connVars, fwdVars, userVars, WorkerPcs, MainPcs, SigPcs, DogPcs, DyingPcs, States
<1>1. CASE MainLock
  BY <1>1 DEF MainLock
<1>2. CASE MainRoom
  BY <1>2 DEF MainRoom
<1>3. CASE MainSkip
  BY <1>3 DEF MainSkip
<1>4. CASE MainCreate
  BY <1>4 DEF MainCreate
<1>5. CASE MainCreateFails
  BY <1>5 DEF MainCreateFails
<1>6. CASE MainDrain
  BY <1>6 DEF MainDrain
<1>7. CASE MainReap
  <2>1. /\ pc[Main] = "reap" /\ UNCHANGED <<state, rc, result, opts>>
        /\ pc'[Main] = "free" /\ \A h \in Hosts : rc[h] \in Nat
    BY <1>7 DEF MainReap
  <2> SUFFICES ASSUME opts.status
               PROVE  /\ code' = 0 => \A h \in Hosts : rc[h] = 0 /\ state[h] # "FAILED"
                      /\ code' # 0 => \E h \in Hosts : rc[h] # 0 \/ result[h] = "FAILED"
    BY <2>1
  <2>2. PICK c \in Counted : (\A d \in Counted : d <= c) /\ code' = c
    BY <1>7 DEF MainReap
  <2>3. CASE \E g \in Hosts : state[g] = "FAILED"
    <3>1. RcFailed \in Counted
      BY <2>3 DEF Counted
    <3>2. code' # 0
      BY <2>2, <3>1, CountedNat, DshAssumption
    <3> QED
      BY <2>3, <3>2 DEF ResultPlace
  <2>4. CASE \A g \in Hosts : state[g] # "FAILED"
    <3>1. Counted = {rc[h] : h \in Hosts} \cup {0}
      BY <2>4 DEF Counted
    <3>2. code' = 0 => \A h \in Hosts : rc[h] = 0
      BY <2>1, <2>2, <3>1
    <3>3. code' # 0 => \E h \in Hosts : rc[h] # 0
      BY <2>2, <3>1
    <3> QED
      BY <2>4, <3>2, <3>3
  <2> QED
    BY <2>3, <2>4
<1>8. CASE MainFree
  BY <1>8 DEF MainFree
<1>9. CASE SweepLock
  BY <1>9 DEF SweepLock
<1>10. CASE SweepLook
  BY <1>10 DEF SweepLook
<1>11. CASE SweepMark
  BY <1>11 DEF SweepMark
<1>12. CASE SweepUnlock
  BY <1>12 DEF SweepUnlock
<1>13. CASE SigGone
  BY <1>13 DEF SigGone
<1>14. CASE Interrupt
  BY <1>14 DEF Interrupt
<1>15. CASE TerminalStop
  BY <1>15 DEF TerminalStop
<1>16. CASE DogLook
  BY <1>16 DEF DogLook
<1>17. CASE DogAlarm
  BY <1>17 DEF DogAlarm
<1>18. CASE DogRest
  BY <1>18 DEF DogRest
<1>19. CASE DogLost
  BY <1>19 DEF DogLost
<1>20. CASE WindowCloses
  BY <1>20 DEF WindowCloses
<1>21. ASSUME NEW h \in Hosts, WorkerStart(h) PROVE CodePlace'
  BY <1>21 DEF WorkerStart
<1>22. ASSUME NEW h \in Hosts, ConnectOk(h) PROVE CodePlace'
  BY <1>22 DEF ConnectOk
<1>23. ASSUME NEW h \in Hosts, ConnectFails(h) PROVE CodePlace'
  BY <1>23 DEF ConnectFails
<1>24. ASSUME NEW h \in Hosts, WorkerUpdate(h) PROVE CodePlace'
  BY <1>24 DEF WorkerUpdate
<1>25. ASSUME NEW h \in Hosts, WorkerRecheck(h) PROVE CodePlace'
  BY <1>25 DEF WorkerRecheck
<1>26. ASSUME NEW h \in Hosts, WorkerDecide(h) PROVE CodePlace'
  BY <1>26 DEF WorkerDecide
<1>27. ASSUME NEW h \in Hosts, WorkerCopy(h) PROVE CodePlace'
  BY <1>27 DEF WorkerCopy
<1>28. ASSUME NEW h \in Hosts, PollReady(h) PROVE CodePlace'
  BY <1>28 DEF PollReady
<1>29. ASSUME NEW h \in Hosts, PollInterrupted(h) PROVE CodePlace'
  BY <1>29 DEF PollInterrupted
<1>44. ASSUME NEW h \in Hosts, PollFails(h) PROVE CodePlace'
  BY <1>44 DEF PollFails
<1>30. ASSUME NEW h \in Hosts, WorkerHandle(h) PROVE CodePlace'
  BY <1>30 DEF WorkerHandle
<1>31. ASSUME NEW h \in Hosts, WorkerFinish(h) PROVE CodePlace'
  BY <1>31 DEF WorkerFinish
<1>32. ASSUME NEW h \in Hosts, WorkerDestroy(h) PROVE CodePlace'
  BY <1>32 DEF WorkerDestroy
<1>33. ASSUME NEW h \in Hosts, WorkerCount(h) PROVE CodePlace'
  BY <1>33 DEF WorkerCount
<1>34. ASSUME NEW h \in Hosts, RemoteExits(h) PROVE CodePlace'
  BY <1>34 DEF RemoteExits
<1>35. ASSUME NEW h \in Hosts, ConnectLimitPasses(h) PROVE CodePlace'
  BY <1>35 DEF ConnectLimitPasses
<1>36. ASSUME NEW h \in Hosts, CommandLimitPasses(h) PROVE CodePlace'
  BY <1>36 DEF CommandLimitPasses
<1>37. ASSUME NEW h \in Hosts, NEW s \in Streams, RemoteWrites(h, s)
      PROVE  CodePlace'
  BY <1>37 DEF RemoteWrites
<1>38. ASSUME NEW h \in Hosts, NEW s \in Streams, RemoteCloses(h, s)
      PROVE  CodePlace'
  BY <1>38 DEF RemoteCloses
<1>39. ASSUME NEW p \in Procs, ForwardBegin(p) PROVE CodePlace'
  BY <1>39 DEF ForwardBegin
<1>40. ASSUME NEW p \in Procs, ForwardStep(p) PROVE CodePlace'
  BY <1>40 DEF ForwardStep
<1>41. ASSUME NEW p \in Procs, ForwardEnd(p) PROVE CodePlace'
  BY <1>41 DEF ForwardEnd
<1>42. ASSUME NEW p \in Procs, Errx(p) PROVE CodePlace'
  BY <1>42 DEF Errx
<1>43. CASE UNCHANGED vars
  BY <1>43 DEF vars
<1> QED
  BY <1>1, <1>2, <1>3, <1>4, <1>5, <1>6, <1>7, <1>8, <1>9, <1>10, <1>11, <1>12,
     <1>13, <1>14, <1>15, <1>16, <1>17, <1>18, <1>19, <1>20, <1>21, <1>22, <1>23,
     <1>24, <1>25, <1>26, <1>27, <1>28, <1>29, <1>30, <1>31, <1>32, <1>33, <1>34,
     <1>35, <1>36, <1>37, <1>38, <1>39, <1>40, <1>41, <1>42, <1>43, <1>44 DEF Next,
     MainNext, SigNext, SigStep, DogNext, Environment, WorkerNext, WorkerStep,
     DieNext, Terminated

LEMMA InitInd == Init => IndInv
<1> SUFFICES ASSUME Init PROVE IndInv
  OBVIOUS
<1>1. TypeOK
  BY TypeInit
<1>2. LockPlace /\ SpawnPlace
  BY ProcFacts, DshAssumption DEF Init, LockPlace, SpawnPlace, Hosts, DyingPcs
<1>3. Active = {}
  BY ProcFacts DEF Init, Active
<1>4. CountPlace
  BY <1>1, <1>3, ActiveFacts, ProcFacts, DshAssumption DEF Init, CountPlace, CountsWorkers
<1>5. ConnPlace
  BY ProcFacts DEF Init, ConnPlace
<1>6. SweepPlace
  BY ProcFacts DEF Init, SweepPlace
<1> QED
  BY <1>1, <1>2, <1>4, <1>5, <1>6 DEF IndInv

(***************************************************************************)
(* The theorems.                                                           *)
(***************************************************************************)

\* What dsh()'s mutexes are to guarantee: the place of every thread, the
\* owners of thd_mutex and threadcount_mutex and threadcount agree for ever.
THEOREM Inductive == Spec => []IndInv
<1>1. IndInv /\ [Next]_vars => IndInv'
  BY PcStep, DataStep, LockStep, SpawnStep, CountStep, ConnStep, SweepStep
     DEF IndInv, TypeOK
<1> QED
  BY <1>1, InitInd, PTL DEF Spec

\* Every variable of the main, worker, signals and watchdog threads keeps its type.
THEOREM TypeCorrect == Spec => []TypeOK
BY Inductive, PTL DEF IndInv

\* threadcount counts the workers that run, whichever of pthread_create's failure,
\* an abort or ^Z comes between.
THEOREM CounterExact == Spec => []CountsWorkers
BY Inductive, PTL DEF IndInv, CountPlace

\* At most fanout connections are active, provided pthread_cond_wait never wakes
\* up without a signal: dsh() does not test threadcount again.
THEOREM FanoutKept ==
  ASSUME ~SpuriousWakeups
  PROVE  Spec => []FanoutBound
<1>1. IndInv => FanoutBound
  BY DEF IndInv, CountPlace, CountsWorkers, FanoutBound
<1> QED
  BY <1>1, Inductive, PTL

\* dsh() computes its exit value and frees t[] only when every host has been served
\* by one worker that is gone, or was canceled before it had one.
THEOREM EveryHostServed == Spec => []AllServed
BY ServedInv, Inductive, PTL

\* dsh()'s return value with -S: what every worker learned reaches it, except when
\* the sweep of ^Z takes a host whose connection has just failed for one it can
\* still cancel (_cancel_pending_threads tests and sets t[i].state without thd_mutex).
THEOREM FailuresReported == Spec => [](FailureReported \/ FailureCanceled)
<1>1. Init => ReportInv
  <2> SUFFICES ASSUME Init PROVE ReportInv
    OBVIOUS
  <2>1. /\ pc[Main] = "lock" /\ pc[Sig] = "wait"
        /\ \A h \in Hosts : pc[h] = "none" /\ rc[h] = 0 /\ result[h] = "DONE"
                            /\ state[h] # "FAILED"
    BY ProcFacts DEF Init
  <2> QED
    BY <2>1 DEF Init, ReportInv, ResultPlace, CodePlace
<1>2. IndInv /\ ReportInv /\ [Next]_vars => ReportInv'
  BY ResultStep, CodeStep DEF ReportInv
<1>3. IndInv /\ ReportInv => FailureReported \/ FailureCanceled
  <2> SUFFICES ASSUME IndInv, ReportInv, pc[Main] = "done", opts.status, ~FailureCanceled
               PROVE  code = 0 <=> \A h \in Hosts : result[h] = "DONE" /\ rc[h] = 0
    BY DEF FailureReported
  <2>1. \A h \in Hosts : /\ pc[h] \in {"none", "exit"}
                         /\ result[h] \in {"DONE", "FAILED"}
    BY ServedInv DEF AllServed, IndInv, TypeOK, DataOK
  <2>2. \A h \in Hosts : result[h] = "FAILED" => state[h] = "FAILED"
    BY <2>1 DEF ReportInv, ResultPlace, FailureCanceled, DyingPcs
  <2> QED
    BY <2>1, <2>2 DEF ReportInv, CodePlace
<1> QED
  BY <1>1, <1>2, <1>3, Inductive, PTL DEF Spec

\* Without a second signal from the keyboard there is no sweep, and the exit value
\* of -S is zero exactly when nothing failed.
THEOREM FailureAlwaysReported ==
  ASSUME MaxSignals < 2
  PROVE  Spec => []FailureReported
<1>1. TypeOK => ~FailureCanceled
  BY DshAssumption DEF TypeOK, DataOK, FailureCanceled
<1> QED
  BY <1>1, FailuresReported, TypeCorrect, PTL

\* _fwd_signal hands rcmd_signal only connections that rcmd_destroy has not freed.
THEOREM SignalsLive == Spec => []SignalsLiveConnection
<1>1. IndInv => SignalsLiveConnection
  <2> SUFFICES ASSUME IndInv, NEW p \in Procs, pc[p] = "forward", fwd <= N,
                      state[fwd] = "READING"
               PROVE  rcmd[fwd] # "destroyed"
    BY DEF SignalsLiveConnection
  <2>1. fwd \in Hosts \/ fwd = 0
    BY DshAssumption DEF IndInv, TypeOK, DataOK, Hosts
  <2> QED
    BY <2>1, ProcFacts DEF IndInv, ConnPlace, SweepPlace
<1> QED
  BY <1>1, Inductive, PTL

\* When _fwd_signal releases thd_mutex it has signalled every DSH_READING host.
THEOREM SweepIsComplete == Spec => SweepComplete
<1>1. ASSUME IndInv, [Next]_vars, thdLock # Nobody, thdLock' = Nobody, NEW h \in Hosts,
             state[h] = "READING"
      PROVE  h \in sent
  <2> USE DEF mainVars, thdVars, connVars, fwdVars, userVars
  <2>1. ~MainNext
    BY <1>1 DEF MainNext, MainLock, MainRoom, MainSkip, MainCreate, MainCreateFails,
       MainDrain, MainReap, MainFree
  <2>2. ~SigNext
    BY <1>1 DEF SigNext, SigStep, SweepLock, SweepLook, SweepMark, SweepUnlock, SigGone,
       Interrupt, TerminalStop
  <2>3. ~DogNext
    BY <1>1 DEF DogNext, DogLook, DogAlarm, DogRest, DogLost
  <2>4. ~Environment
    BY <1>1 DEF Environment, RemoteWrites, RemoteCloses, RemoteExits, ConnectLimitPasses,
       CommandLimitPasses, WindowCloses
  <2>5. ASSUME NEW g \in Hosts PROVE ~WorkerNext(g)
    BY <1>1 DEF WorkerNext, WorkerStep, WorkerStart, WorkerUpdate, WorkerRecheck,
       WorkerDecide, PollReady, PollInterrupted, PollFails, WorkerHandle, WorkerFinish,
       WorkerDestroy, WorkerCount, ConnectOk, ConnectFails, WorkerCopy
  <2>6. ~UNCHANGED vars /\ ~Terminated
    BY <1>1 DEF Terminated, vars
  <2>7. PICK p \in Procs : DieNext(p)
    BY <1>1, <2>1, <2>2, <2>3, <2>4, <2>5, <2>6 DEF Next
  <2>8. ForwardEnd(p)
    BY <1>1, <2>7, ProcFacts DEF DieNext, ForwardBegin, ForwardStep, Errx
  <2>9. fwd = N + 1
    BY <2>8 DEF ForwardEnd
  <2> QED
    BY <1>1, <2>9, DshAssumption DEF IndInv, SweepPlace, Hosts
<1>2. IndInv /\ [Next]_vars =>
        [(thdLock # Nobody /\ thdLock' = Nobody)
           => \A h \in Hosts : state[h] = "READING" => h \in sent]_vars
  BY <1>1
<1> QED
  BY <1>2, Inductive, PTL DEF Spec, SweepComplete

\* The main thread starts no worker for a host that ^Z has canceled.
THEOREM CanceledNotStarted == Spec => SkipsCanceled
<1>1. ASSUME IndInv, [Next]_vars, NEW h \in Hosts, pc[h] = "none", pc'[h] = "start"
      PROVE  state[h] # "CANCELED"
  <2> USE <1>1, ProcFacts DEF IndInv, TypeOK, PcOK, Goto
  <2>1. CASE MainNext
    <3>1. ~MainLock /\ ~MainRoom /\ ~MainSkip /\ ~MainCreateFails
      BY DEF MainLock, MainRoom, MainSkip, MainCreateFails
    <3>2. ~MainDrain /\ ~MainReap /\ ~MainFree
      BY DEF MainDrain, MainReap, MainFree
    <3>3. MainCreate
      BY <2>1, <3>1, <3>2 DEF MainNext
    <3>4. h = cur[Main] /\ pc[Main] = "create"
      BY <3>3 DEF MainCreate
    <3> QED
      BY <3>4 DEF SpawnPlace
  <2>2. ~SigNext
    BY DEF SigNext, SigStep, SweepLock, SweepLook, SweepMark, SweepUnlock, SigGone,
       Interrupt, TerminalStop
  <2>3. ~DogNext
    BY DEF DogNext, DogLook, DogAlarm, DogRest, DogLost
  <2>4. ~Environment
    BY DEF Environment, RemoteWrites, RemoteCloses, RemoteExits, ConnectLimitPasses,
       CommandLimitPasses, WindowCloses
  <2>5. ASSUME NEW g \in Hosts PROVE ~WorkerNext(g)
    BY DEF WorkerNext, WorkerStep, WorkerStart, WorkerUpdate, WorkerRecheck,
       WorkerDecide, PollReady, PollInterrupted, PollFails, WorkerHandle, WorkerFinish,
       WorkerDestroy, WorkerCount, ConnectOk, ConnectFails, WorkerCopy
  <2>6. ASSUME NEW p \in Procs PROVE ~DieNext(p)
    BY DEF DieNext, ForwardBegin, ForwardStep, ForwardEnd, Errx
  <2>7. ~UNCHANGED vars /\ ~Terminated
    BY DEF Terminated, vars
  <2> QED
    BY <2>1, <2>2, <2>3, <2>4, <2>5, <2>6, <2>7 DEF Next
<1>2. IndInv /\ [Next]_vars =>
        [\A h \in Hosts : (pc[h] = "none" /\ pc'[h] = "start")
                            => state[h] # "CANCELED"]_vars
  BY <1>1
<1> QED
  BY <1>2, Inductive, PTL DEF Spec, SkipsCanceled

=============================================================================
