------------------------ MODULE ControlPlaneProofs ------------------------
(***************************************************************************)
(* Proofs about ControlPlane, for any set of goroutines, any set of        *)
(* configurations, any number of faults and crashes.                       *)
(***************************************************************************)
EXTENDS ControlPlane, TLAPS

----------------------------------------------------------------------------
(* Type correctness. *)

LEMMA InitType == Init => TypeOK
<1> SUFFICES ASSUME Init PROVE TypeOK
  OBVIOUS
<1>1. FlagTypeOK
  BY DEF Init, InstInit, FlagTypeOK
<1>2. InstTypeOK
  BY FaultAssumption DEF Init, InstInit, InstTypeOK, File
<1>3. ReqTypeOK
  BY RequestAssumption
  DEF Init, ReqTypeOK, Label, Job, Answers, NothingRead
<1> QED
  BY <1>1, <1>2, <1>3 DEF TypeOK

LEMMA ApplyType ==
  ASSUME TypeOK, NEW p \in Proc,
         ApplyRead(p) \/ ApplyWrite(p) \/ Rollback(p) \/ InstallRead(p)
  PROVE  TypeOK'
<1>1. FlagTypeOK'
  BY DEF TypeOK, FlagTypeOK, ApplyRead, ApplyWrite, Rollback,
         InstallRead, process, instVars
<1>2. CASE ApplyRead(p)
  <2>1. InstTypeOK'
    BY <1>2, FaultAssumption
    DEF TypeOK, InstTypeOK, ReqTypeOK, ApplyRead, process, instVars,
        File, MayFail
  <2>2. pc' \in [Proc -> Label] /\ answer' \in [Proc -> Answers]
    BY <1>2
    DEF TypeOK, ReqTypeOK, Label, Answers, Goto, Reply, ApplyRead
  <2>3. ReqTypeOK'
    BY <1>2, <2>2, FaultAssumption
    DEF TypeOK, InstTypeOK, ReqTypeOK, Job, ApplyRead, process,
        instVars, File, MayFail
  <2> QED
    BY <1>1, <2>1, <2>3 DEF TypeOK
<1>3. CASE ApplyWrite(p)
  <2>1. InstTypeOK'
    BY <1>3, FaultAssumption
    DEF TypeOK, InstTypeOK, ReqTypeOK, ApplyWrite, process, instVars,
        File, MayFail, WriteFile
  <2>2. pc' \in [Proc -> Label] /\ answer' \in [Proc -> Answers]
    BY <1>3
    DEF TypeOK, ReqTypeOK, Label, Answers, Goto, Reply, ApplyWrite
  <2>3. job' \in [Proc -> Job] /\ wrote' \in [Proc -> Nat]
    <3>1. disk.ver + 1 \in Nat
      BY DEF TypeOK, InstTypeOK, File
    <3> QED
      BY <1>3, <3>1 DEF TypeOK, ReqTypeOK, Job, ApplyWrite
  <2>4. ReqTypeOK'
    BY <1>3, <2>2, <2>3 DEF TypeOK, ReqTypeOK, ApplyWrite, process
  <2> QED
    BY <1>1, <2>1, <2>4 DEF TypeOK
<1>4. CASE Rollback(p)
  <2>1. InstTypeOK'
    BY <1>4, FaultAssumption
    DEF TypeOK, InstTypeOK, ReqTypeOK, Rollback, process, instVars,
        File, MayFail, WriteFile, Previous
  <2>2. pc' \in [Proc -> Label] /\ answer' \in [Proc -> Answers]
    BY <1>4
    DEF TypeOK, ReqTypeOK, Label, Answers, Goto, Reply, Rollback
  <2>3. job' \in [Proc -> Job] /\ wrote' \in [Proc -> Nat]
    <3>1. disk.ver + 1 \in Nat
      BY DEF TypeOK, InstTypeOK, File
    <3> QED
      BY <1>4, <3>1 DEF TypeOK, ReqTypeOK, Job, Rollback
  <2>4. ReqTypeOK'
    BY <1>4, <2>2, <2>3 DEF TypeOK, ReqTypeOK, Rollback, process
  <2> QED
    BY <1>1, <2>1, <2>4 DEF TypeOK
<1>5. CASE InstallRead(p)
  <2>1. InstTypeOK'
    BY <1>5, ConfigAssumption, RequestAssumption
    DEF TypeOK, InstTypeOK, ReqTypeOK, InstallRead, process, instVars,
        File
  <2>2. pc' \in [Proc -> Label] /\ answer' \in [Proc -> Answers]
    BY <1>5
    DEF TypeOK, ReqTypeOK, Label, Answers, Goto, Reply, InstallRead
  <2>3. ReqTypeOK'
    BY <1>5, <2>2, ConfigAssumption, RequestAssumption
    DEF TypeOK, InstTypeOK, ReqTypeOK, Job, InstallRead, process,
        instVars, File
  <2> QED
    BY <1>1, <2>1, <2>3 DEF TypeOK
<1> QED
  BY <1>2, <1>3, <1>4, <1>5

LEMMA SyncType ==
  ASSUME TypeOK, NEW p \in Proc,
         SyncRead(p) \/ SyncWrite(p) \/ SyncGroups(p) \/ SyncUndo(p)
  PROVE  TypeOK'
<1>1. FlagTypeOK'
  BY DEF TypeOK, FlagTypeOK, SyncRead, SyncWrite, SyncGroups, SyncUndo,
         process, instVars
<1>2. CASE SyncRead(p)
  <2>1. InstTypeOK'
    BY <1>2, ConfigAssumption, RequestAssumption
    DEF TypeOK, InstTypeOK, ReqTypeOK, SyncRead, process, instVars, File
  <2>2. pc' \in [Proc -> Label] /\ answer' \in [Proc -> Answers]
    BY <1>2
    DEF TypeOK, ReqTypeOK, Label, Answers, Goto, Reply, SyncRead
  <2>3. ReqTypeOK'
    BY <1>2, <2>2, ConfigAssumption, RequestAssumption
    DEF TypeOK, InstTypeOK, ReqTypeOK, Job, SyncRead, process, instVars,
        File
  <2> QED
    BY <1>1, <2>1, <2>3 DEF TypeOK
<1>3. CASE SyncWrite(p)
  <2>1. InstTypeOK'
    BY <1>3, FaultAssumption
    DEF TypeOK, InstTypeOK, ReqTypeOK, SyncWrite, process, instVars,
        File, MayFail, WriteFile
  <2>2. pc' \in [Proc -> Label] /\ answer' \in [Proc -> Answers]
    BY <1>3
    DEF TypeOK, ReqTypeOK, Label, Answers, Goto, Reply, SyncWrite
  <2>3. ReqTypeOK'
    BY <1>3, <2>2, FaultAssumption
    DEF TypeOK, InstTypeOK, ReqTypeOK, Job, SyncWrite, process,
        instVars, File, MayFail, WriteFile
  <2> QED
    BY <1>1, <2>1, <2>3 DEF TypeOK
<1>4. CASE SyncGroups(p)
  <2>1. InstTypeOK'
    BY <1>4, FaultAssumption
    DEF TypeOK, InstTypeOK, ReqTypeOK, SyncGroups, process, instVars,
        File, MayFail
  <2>2. pc' \in [Proc -> Label] /\ answer' \in [Proc -> Answers]
    BY <1>4
    DEF TypeOK, ReqTypeOK, Label, Answers, Goto, Reply, SyncGroups
  <2>3. ReqTypeOK'
    BY <1>4, <2>2, FaultAssumption
    DEF TypeOK, InstTypeOK, ReqTypeOK, Job, SyncGroups, process,
        instVars, File, MayFail
  <2> QED
    BY <1>1, <2>1, <2>3 DEF TypeOK
<1>5. CASE SyncUndo(p)
  <2>1. InstTypeOK'
    BY <1>5, FaultAssumption
    DEF TypeOK, InstTypeOK, ReqTypeOK, SyncUndo, process, instVars,
        File, MayFail, WriteFile
  <2>2. pc' \in [Proc -> Label] /\ answer' \in [Proc -> Answers]
    BY <1>5
    DEF TypeOK, ReqTypeOK, Label, Answers, Goto, Reply, SyncUndo
  <2>3. ReqTypeOK'
    BY <1>5, <2>2, FaultAssumption
    DEF TypeOK, InstTypeOK, ReqTypeOK, Job, SyncUndo, process, instVars,
        File, MayFail, WriteFile
  <2> QED
    BY <1>1, <2>1, <2>3 DEF TypeOK
<1> QED
  BY <1>2, <1>3, <1>4, <1>5

LEMMA OtherType ==
  ASSUME TypeOK, NEW p \in Proc,
         RulesLoad(p) \/ RulesUpdate(p) \/ DialCheck(p) \/ DialUse(p)
  PROVE  TypeOK'
<1>1. FlagTypeOK'
  BY DEF TypeOK, FlagTypeOK, RulesLoad, RulesUpdate, DialCheck, DialUse,
         process, instVars
<1>2. CASE RulesLoad(p)
  <2>1. InstTypeOK'
    BY <1>2, ConfigAssumption, RequestAssumption
    DEF TypeOK, InstTypeOK, ReqTypeOK, RulesLoad, process, instVars
  <2>2. pc' \in [Proc -> Label] /\ answer' \in [Proc -> Answers]
    BY <1>2
    DEF TypeOK, ReqTypeOK, Label, Answers, Goto, Reply, RulesLoad
  <2>3. ReqTypeOK'
    BY <1>2, <2>2, ConfigAssumption, RequestAssumption
    DEF TypeOK, InstTypeOK, ReqTypeOK, Job, RulesLoad, process, instVars
  <2> QED
    BY <1>1, <2>1, <2>3 DEF TypeOK
<1>3. CASE RulesUpdate(p)
  <2>1. InstTypeOK'
    BY <1>3, ConfigAssumption, RequestAssumption
    DEF TypeOK, InstTypeOK, ReqTypeOK, RulesUpdate, process, instVars
  <2>2. pc' \in [Proc -> Label] /\ answer' \in [Proc -> Answers]
    BY <1>3
    DEF TypeOK, ReqTypeOK, Label, Answers, Goto, Reply, RulesUpdate
  <2>3. ReqTypeOK'
    BY <1>3, <2>2, ConfigAssumption, RequestAssumption
    DEF TypeOK, InstTypeOK, ReqTypeOK, Job, RulesUpdate, process,
        instVars
  <2> QED
    BY <1>1, <2>1, <2>3 DEF TypeOK
<1>4. CASE DialCheck(p)
  <2>1. InstTypeOK'
    BY <1>4, ConfigAssumption, RequestAssumption
    DEF TypeOK, InstTypeOK, ReqTypeOK, DialCheck, process, instVars
  <2>2. pc' \in [Proc -> Label] /\ answer' \in [Proc -> Answers]
    BY <1>4
    DEF TypeOK, ReqTypeOK, Label, Answers, Goto, Reply, DialCheck
  <2>3. ReqTypeOK'
    BY <1>4, <2>2, ConfigAssumption, RequestAssumption
    DEF TypeOK, InstTypeOK, ReqTypeOK, Job, DialCheck, process, instVars
  <2> QED
    BY <1>1, <2>1, <2>3 DEF TypeOK
<1>5. CASE DialUse(p)
  <2>1. InstTypeOK'
    BY <1>5, ConfigAssumption, RequestAssumption
    DEF TypeOK, InstTypeOK, ReqTypeOK, DialUse, process, instVars
  <2>2. pc' \in [Proc -> Label] /\ answer' \in [Proc -> Answers]
    BY <1>5
    DEF TypeOK, ReqTypeOK, Label, Answers, Goto, Reply, DialUse
  <2>3. ReqTypeOK'
    BY <1>5, <2>2, ConfigAssumption, RequestAssumption
    DEF TypeOK, InstTypeOK, ReqTypeOK, Job, DialUse, process, instVars
  <2> QED
    BY <1>1, <2>1, <2>3 DEF TypeOK
<1> QED
  BY <1>2, <1>3, <1>4, <1>5

LEMMA SubmitType ==
  ASSUME TypeOK, NEW p \in Proc, Submit(p)
  PROVE  TypeOK'
<1>1. FlagTypeOK' /\ InstTypeOK'
  BY DEF TypeOK, FlagTypeOK, InstTypeOK, Submit, process, instVars
<1>2. CASE \E c \in Config : SubmitUpdate(p, c)
  BY <1>1, <1>2
  DEF TypeOK, ReqTypeOK, Submit, SubmitUpdate, Goto, Reply, Label, Answers,
      process
<1>3. CASE \E k \in AllKinds \ {"update"} : SubmitOther(p, k)
  <2>1. PICK k \in AllKinds \ {"update"} : SubmitOther(p, k)
    BY <1>3
  <2>2. pc' \in [Proc -> Label] /\ answer' \in [Proc -> Answers]
    BY <2>1 DEF SubmitOther, AllKinds, TypeOK, ReqTypeOK, Goto, Label
  <2>3. job' \in [Proc -> Job]
    BY <2>1 DEF SubmitOther, TypeOK, ReqTypeOK, Job
  <2> QED
    BY <1>1, <2>1, <2>2, <2>3
    DEF TypeOK, ReqTypeOK, Submit, SubmitOther, process
<1> QED
  BY <1>2, <1>3 DEF Submit

\* Wherever Stop and Start return to, pc and answer keep their types.
LEMMA ReturnType ==
  ASSUME TypeOK, NEW p \in Proc, NEW failed \in BOOLEAN,
         AfterStop(p, failed) \/ AfterStart(p, failed)
  PROVE  pc' \in [Proc -> Label] /\ answer' \in [Proc -> Answers]
<1>1. CASE AfterStop(p, failed)
  BY <1>1
  DEF AfterStop, Goto, Reply, TypeOK, ReqTypeOK, Label, Answers, Job
<1>2. CASE AfterStart(p, failed)
  BY <1>2
  DEF AfterStart, Goto, Reply, TypeOK, ReqTypeOK, Label, Answers, Job
<1> QED
  BY <1>1, <1>2

LEMMA StopType ==
  ASSUME TypeOK, NEW p \in Proc, CallStop(p) \/ FinishStop(p)
  PROVE  TypeOK'
<1>1. CASE CallStop(p)
  <2>1. FlagTypeOK'
    BY <1>1 DEF TypeOK, FlagTypeOK, CallStop, StopNothing, StopClose, process
  <2>2. StopNothing => InstTypeOK'
    BY <1>1 DEF TypeOK, InstTypeOK, File, CallStop, StopNothing
  <2>3. StopClose(p) => InstTypeOK'
    BY <1>1 DEF TypeOK, InstTypeOK, File, CallStop, StopClose
  <2>4. InstTypeOK'
    BY <1>1, <2>2, <2>3 DEF CallStop
  <2>5. pc' \in [Proc -> Label] /\ answer' \in [Proc -> Answers]
    BY <1>1, ReturnType DEF CallStop, Goto, TypeOK, ReqTypeOK, Label
  <2> QED
    BY <1>1, <2>1, <2>4, <2>5 DEF TypeOK, ReqTypeOK, CallStop, process
<1>2. CASE FinishStop(p)
  <2>1. FlagTypeOK'
    BY <1>2 DEF TypeOK, FlagTypeOK, FinishStop, StopClear, process
  <2>2. InstTypeOK'
    BY <1>2, FaultAssumption
    DEF TypeOK, InstTypeOK, File, FinishStop, StopClear, MayFail
  <2>3. pc' \in [Proc -> Label] /\ answer' \in [Proc -> Answers]
    BY <1>2, ReturnType DEF FinishStop
  <2> QED
    BY <1>2, <2>1, <2>2, <2>3 DEF TypeOK, ReqTypeOK, FinishStop, process
<1> QED
  BY <1>1, <1>2

\* What Start boots is what it read, and it boots only what is Bootable.
LEMMA BootedType ==
  ASSUME TypeOK, NEW p \in Proc, FinishStart(p)
  PROVE  /\ box' \in Box \cup {NoBox}
         /\ running' \in BOOLEAN
<1>1. CASE got[p].cfg \notin Bootable
  BY <1>1 DEF FinishStart, StartBoot, TypeOK, InstTypeOK, FlagTypeOK
<1>2. CASE got[p].cfg \in Bootable
  <2>1. got[p] \in Box
    BY <1>2 DEF TypeOK, ReqTypeOK, Box
  <2>2. PICK failed \in BOOLEAN : StartBoot(p, got[p], ~failed)
    BY <1>2 DEF FinishStart
  <2>3. CASE failed
    BY <2>2, <2>3 DEF StartBoot, TypeOK, InstTypeOK, FlagTypeOK
  <2>4. CASE ~failed
    BY <2>1, <2>2, <2>4 DEF StartBoot
  <2> QED
    BY <2>3, <2>4
<1> QED
  BY <1>1, <1>2

LEMMA StartType ==
  ASSUME TypeOK, NEW p \in Proc, CallStart(p) \/ FinishStart(p)
  PROVE  TypeOK'
<1>1. CASE CallStart(p)
  <2>1. FlagTypeOK'
    BY <1>1 DEF TypeOK, FlagTypeOK, CallStart, StartNothing, StartNoFile,
                StartRead, process, instVars
  <2>2. InstTypeOK'
    BY <1>1 DEF TypeOK, InstTypeOK, CallStart, StartNothing, StartNoFile,
                StartRead, instVars
  <2>3. pc' \in [Proc -> Label] /\ answer' \in [Proc -> Answers]
    BY <1>1, ReturnType DEF CallStart, Goto, TypeOK, ReqTypeOK, Label
  <2>4. got' \in [Proc -> [cfg : Config \cup {Absent}, ver : Nat]]
    <3>1. [cfg |-> disk.cfg, ver |-> disk.ver]
             \in [cfg : Config \cup {Absent}, ver : Nat]
      BY DEF TypeOK, InstTypeOK, File
    <3> QED
      BY <1>1, <3>1 DEF CallStart, TypeOK, ReqTypeOK
  <2> QED
    BY <1>1, <2>1, <2>2, <2>3, <2>4 DEF TypeOK, ReqTypeOK, CallStart, process
<1>2. CASE FinishStart(p)
  <2>1. FlagTypeOK'
    BY <1>2, BootedType DEF TypeOK, FlagTypeOK, FinishStart, process
  <2>2. live' \in Int /\ mu' = NoProc /\ floor' = floor /\ disk' = disk
    <3>1. PICK ok \in BOOLEAN : StartBoot(p, got[p], ok)
      BY <1>2 DEF FinishStart
    <3>2. CASE ok
      BY <1>2, <3>1, <3>2 DEF TypeOK, InstTypeOK, FinishStart, StartBoot
    <3>3. CASE ~ok
      BY <1>2, <3>1, <3>3 DEF TypeOK, InstTypeOK, FinishStart, StartBoot
    <3> QED
      BY <3>2, <3>3
  <2>3. faults' \in 0 .. MaxFaults
    <3>1. UNCHANGED faults \/ \E failed \in BOOLEAN : MayFail(failed)
      BY <1>2 DEF FinishStart
    <3> QED
      BY <3>1, FaultAssumption DEF TypeOK, InstTypeOK, MayFail
  <2>4. InstTypeOK'
    BY <2>2, <2>3, <1>2, BootedType DEF TypeOK, InstTypeOK
  <2>5. pc' \in [Proc -> Label] /\ answer' \in [Proc -> Answers]
    BY <1>2, ReturnType DEF FinishStart
  <2>6. got' \in [Proc -> [cfg : Config \cup {Absent}, ver : Nat]]
    BY <1>2 DEF FinishStart, NothingRead, TypeOK, ReqTypeOK
  <2> QED
    BY <1>2, <2>1, <2>4, <2>5, <2>6 DEF TypeOK, ReqTypeOK, FinishStart, process
<1> QED
  BY <1>1, <1>2

LEMMA DeathType ==
  ASSUME TypeOK, Crash \/ \E p \in Proc : DialPanic(p)
  PROVE  TypeOK'
<1>1. FlagTypeOK'
  BY DEF FlagTypeOK, Crash, DialPanic, Die
<1>2. InstTypeOK'
  BY DEF TypeOK, InstTypeOK, File, Crash, DialPanic, Die
<1>3. pc' \in [Proc -> Label] /\ answer' \in [Proc -> Answers]
  BY DEF TypeOK, ReqTypeOK, Label, Answers, Crash, DialPanic, Orphaned
<1>4. crashes' \in 0 .. MaxCrashes
  BY RequestAssumption DEF TypeOK, ReqTypeOK, Crash, DialPanic
<1> QED
  BY <1>1, <1>2, <1>3, <1>4
  DEF TypeOK, ReqTypeOK, Crash, DialPanic

LEMMA BootType ==
  ASSUME TypeOK, Boot
  PROVE  TypeOK'
<1>1. FlagTypeOK'
  BY DEF TypeOK, FlagTypeOK, Boot, AutoStart
<1>2. InstTypeOK'
  BY DEF TypeOK, InstTypeOK, File, Box, Boot, AutoStart
<1>3. ReqTypeOK'
  BY DEF TypeOK, ReqTypeOK, Boot, reqVars
<1> QED
  BY <1>1, <1>2, <1>3 DEF TypeOK

\* Every step keeps the types.
LEMMA NextType == TypeOK /\ [Next]_vars => TypeOK'
<1> SUFFICES ASSUME TypeOK, [Next]_vars PROVE TypeOK'
  OBVIOUS
<1>1. ASSUME NEW p \in Proc, Submit(p) \/ Step(p)
      PROVE  TypeOK'
  BY <1>1, SubmitType, ApplyType, SyncType, OtherType, StopType, StartType,
     DeathType DEF Step
<1>2. CASE Crash
  BY <1>2, DeathType
<1>3. CASE Boot
  BY <1>3, BootType
<1>4. CASE UNCHANGED vars
  BY <1>4 DEF TypeOK, FlagTypeOK, InstTypeOK, ReqTypeOK, vars
<1> QED
  BY <1>1, <1>2, <1>3, <1>4 DEF Next, Finished

\* The kernel's fields, the configuration file and the state of every request
\* keep their types; the file is always absent or one whole saved body, as
\* atomicWriteFile promises.
THEOREM TypeCorrect == Spec => []TypeOK
  BY InitType, NextType, PTL DEF Spec

----------------------------------------------------------------------------
(* The inductive invariant. *)

\* The steps that move one request and leave the kernel and the file alone.
LEMMA LocalKeeps ==
  ASSUME IInv, NEW p \in Proc,
         Submit(p) \/ ApplyRead(p) \/ InstallRead(p) \/ SyncRead(p) \/
         SyncGroups(p) \/ RulesLoad(p) \/ RulesUpdate(p) \/ DialCheck(p) \/
         DialUse(p)
  PROVE  Safe'
<1> USE ProcAssumption
    DEF IInv, Safe, TypeOK, FlagTypeOK, InstTypeOK, ReqTypeOK, File,
        process, instVars, Submit, SubmitUpdate, SubmitOther, AllKinds,
        Goto, Reply, ApplyRead, InstallRead, SyncRead, SyncGroups,
        RulesLoad, RulesUpdate, DialCheck, DialUse
<1>1. MutexInv'
  BY DEF MutexInv
<1>2. DownInv'
  BY DEF DownInv, MutexInv
<1>3. SectionInv'
  BY DEF SectionInv, MutexInv, OneKernel
<1>4. FlowInv'
  BY DEF FlowInv
<1>5. OneKernel'
  BY DEF OneKernel, Closing, SectionInv, MutexInv, DownInv
<1>6. FreshInv'
  BY DEF FreshInv, MutexInv, SectionInv
<1>7. SavedInv'
  BY DEF SavedInv, FlowInv, FreshInv
<1>8. NoDrift'
  BY DEF NoDrift, RestartPending, FlowInv, BootDrift, FreshInv, MutexInv,
         SectionInv, SavedInv
<1>9. BootDrift'
  BY DEF BootDrift, RestartPending, FlowInv, MutexInv, SectionInv, SavedInv
<1> QED
  BY <1>1, <1>2, <1>3, <1>4, <1>5, <1>6, <1>7, <1>8, <1>9

\* The steps that write the configuration file.
LEMMA WriteKeeps ==
  ASSUME IInv, NEW p \in Proc,
         ApplyWrite(p) \/ Rollback(p) \/ SyncWrite(p) \/ SyncUndo(p)
  PROVE  Safe'
<1> USE ProcAssumption
    DEF IInv, Safe, TypeOK, FlagTypeOK, InstTypeOK, ReqTypeOK, File,
        process, instVars, ApplyWrite, WriteFile, Goto, Reply, Rollback,
        SyncWrite, SyncUndo
<1>1. MutexInv'
  BY DEF MutexInv
<1>2. DownInv'
  BY DEF DownInv, MutexInv
<1>3. SectionInv'
  BY DEF SectionInv, MutexInv, OneKernel
<1>4. FlowInv'
  BY DEF FlowInv
<1>5. OneKernel'
  BY DEF OneKernel, Closing, SectionInv, MutexInv, DownInv
<1>6. FreshInv'
  <2>1. disk'.ver = disk.ver \/ disk'.ver = disk.ver + 1
    OBVIOUS
  <2>2. /\ floor \in Nat /\ disk.ver \in Nat
        /\ running => box.ver \in Nat
        /\ \A q \in Proc : got[q].ver \in Nat
    BY DEF OneKernel, Box
  <2>3. /\ UNCHANGED <<floor, running, box, got>>
        /\ \A q \in Proc : pc'[q] = "start_boot" => pc[q] = "start_boot"
    OBVIOUS
  <2>4. floor <= disk'.ver
    BY <2>1, <2>2 DEF FreshInv
  <2>5. running => floor <= box.ver /\ box.ver <= disk'.ver
    BY <2>1, <2>2 DEF FreshInv
  <2>6. \A q \in Proc : pc[q] = "start_boot"
                        => floor <= got[q].ver /\ got[q].ver <= disk'.ver
    BY <2>1, <2>2 DEF FreshInv
  <2> QED
    BY <2>3, <2>4, <2>5, <2>6 DEF FreshInv
<1>7. SavedInv'
  BY DEF SavedInv, FlowInv, FreshInv
<1>8. NoDrift'
  <2>1. CASE UNCHANGED disk
    BY <2>1 DEF NoDrift, RestartPending, FlowInv
  <2>2. CASE disk'.by = "sync"
    BY <2>2 DEF NoDrift
  <2>3. CASE disk'.ver = wrote'[p] /\ job'[p] \in {"apply", "undo"}
             /\ pc'[p] = "stop"
    BY <2>3 DEF NoDrift, RestartPending
  <2> QED
    BY <2>1, <2>2, <2>3
<1>9. BootDrift'
  <2>1. CASE UNCHANGED disk
    BY <2>1 DEF BootDrift, RestartPending, FlowInv
  <2>2. CASE disk'.by = "sync"
    BY <2>2 DEF BootDrift
  <2>3. CASE disk'.ver = wrote'[p] /\ job'[p] \in {"apply", "undo"}
             /\ pc'[p] = "stop"
    BY <2>3 DEF BootDrift, RestartPending
  <2> QED
    BY <2>1, <2>2, <2>3
<1> QED
  BY <1>1, <1>2, <1>3, <1>4, <1>5, <1>6, <1>7, <1>8, <1>9

\* The two halves of Stop.
LEMMA StopKeeps ==
  ASSUME IInv, NEW p \in Proc,
         CallStop(p) \/ FinishStop(p)
  PROVE  Safe'
<1> USE ProcAssumption
    DEF IInv, Safe, TypeOK, FlagTypeOK, InstTypeOK, ReqTypeOK, File,
        process, instVars, CallStop, StopNothing, StopClose, AfterStop,
        Goto, Reply, FinishStop, StopClear
<1>1. MutexInv'
  BY DEF MutexInv
<1>2. DownInv'
  BY DEF DownInv, MutexInv
<1>3. SectionInv'
  BY DEF SectionInv, MutexInv, OneKernel
<1>4. FlowInv'
  BY DEF FlowInv
<1>5. OneKernel'
  BY DEF OneKernel, Closing, SectionInv, MutexInv, DownInv
<1>6. FreshInv'
  BY DEF FreshInv, MutexInv, SectionInv
<1>7. SavedInv'
  BY DEF SavedInv, FlowInv, FreshInv
<1>8. NoDrift'
  BY DEF NoDrift, RestartPending, FlowInv, BootDrift, FreshInv, MutexInv,
         SectionInv, SavedInv
<1>9. BootDrift'
  BY DEF BootDrift, RestartPending, FlowInv, MutexInv, SectionInv, SavedInv
<1> QED
  BY <1>1, <1>2, <1>3, <1>4, <1>5, <1>6, <1>7, <1>8, <1>9

\* The two halves of Start.
LEMMA StartKeeps ==
  ASSUME IInv, NEW p \in Proc,
         CallStart(p) \/ FinishStart(p)
  PROVE  Safe'
<1> USE ProcAssumption
    DEF IInv, Safe, TypeOK, FlagTypeOK, InstTypeOK, ReqTypeOK, File,
        process, instVars, CallStart, StartNothing, StartNoFile, StartRead,
        AfterStart, Goto, Reply, FinishStart, StartBoot
<1>1. MutexInv'
  BY DEF MutexInv
<1>2. DownInv'
  BY DEF DownInv, MutexInv
<1>3. SectionInv'
  BY DEF SectionInv, MutexInv, OneKernel
<1>4. FlowInv'
  BY DEF FlowInv
<1>5. OneKernel'
  <2>1. CASE CallStart(p)
    BY <2>1 DEF OneKernel, Closing
  <2>2. CASE FinishStart(p)
    <3>1. ~running /\ live = 0 /\ box = NoBox /\ ~Closing'
      BY <2>2 DEF OneKernel, Closing, SectionInv, MutexInv
    <3>2. PICK ok \in BOOLEAN :
            /\ StartBoot(p, got[p], ok)
            /\ ok => got[p].cfg \in Bootable
      BY <2>2
    <3>3. CASE ok
      <4>1. got[p] \in Box
        BY <3>2, <3>3 DEF Box
      <4>2. box' # NoBox /\ running' = TRUE /\ live' = 1
        BY <4>1, <3>1, <3>2, <3>3, BoxAssumption DEF Box
      <4> QED
        BY <4>2, <3>1 DEF OneKernel
    <3>4. CASE ~ok
      BY <3>1, <3>2, <3>4 DEF OneKernel
    <3> QED
      BY <3>3, <3>4
  <2> QED
    BY <2>1, <2>2
<1>6. FreshInv'
  BY DEF FreshInv, MutexInv, SectionInv
<1>7. SavedInv'
  BY DEF SavedInv, FlowInv, FreshInv
<1>8. NoDrift'
  BY DEF NoDrift, RestartPending, FlowInv, BootDrift, FreshInv, MutexInv,
         SectionInv, SavedInv
<1>9. BootDrift'
  BY DEF BootDrift, RestartPending, FlowInv, MutexInv, SectionInv, SavedInv
<1> QED
  BY <1>1, <1>2, <1>3, <1>4, <1>5, <1>6, <1>7, <1>8, <1>9

\* No request survives the process.
LEMMA NoneInFlight ==
  ASSUME TypeOK, Crash \/ \E p \in Proc : DialPanic(p)
  PROVE  \A q \in Proc : pc'[q] \in {"idle", "done", "lost"}
<1>1. \A q \in Proc : Orphaned[q] \in {"idle", "done", "lost"}
  BY DEF Orphaned
<1>2. Orphaned \in [Proc -> {"idle", "done", "lost"}]
  BY <1>1 DEF Orphaned
<1>3. CASE Crash
  BY <1>1, <1>3 DEF Crash
<1>4. CASE \E p \in Proc : DialPanic(p)
  <2>1. PICK p \in Proc : pc' = [Orphaned EXCEPT ![p] = "done"]
    BY <1>4 DEF DialPanic
  <2> QED
    BY <1>2, <2>1
<1> QED
  BY <1>3, <1>4

\* The process dies.
LEMMA DeathKeeps ==
  ASSUME IInv, Crash \/ \E p \in Proc : DialPanic(p)
  PROVE  Safe'
<1> USE ProcAssumption
    DEF IInv, Safe, TypeOK, FlagTypeOK, InstTypeOK, ReqTypeOK, File,
        process, instVars, DialPanic, Die, Orphaned, Crash
<1>1. MutexInv'
  BY DEF MutexInv
<1>2. DownInv'
  <2>1. mu' = NoProc /\ running' = FALSE
    OBVIOUS
  <2>2. \A q \in Proc : pc'[q] \in {"idle", "done", "lost"}
    BY NoneInFlight
  <2> QED
    BY <2>1, <2>2 DEF DownInv
<1>3. SectionInv'
  BY DEF SectionInv, MutexInv, OneKernel
<1>4. FlowInv'
  BY DEF FlowInv
<1>5. OneKernel'
  BY DEF OneKernel, Closing, SectionInv, MutexInv, DownInv
<1>6. FreshInv'
  <2>1. /\ running' = FALSE /\ floor' = disk.ver /\ disk' = disk
        /\ \A q \in Proc : pc'[q] # "start_boot"
    OBVIOUS
  <2> QED
    BY <2>1 DEF FreshInv
<1>7. SavedInv'
  BY DEF SavedInv, FlowInv, FreshInv
<1>8. NoDrift'
  BY DEF NoDrift, RestartPending, FlowInv, BootDrift, FreshInv, MutexInv,
         SectionInv, SavedInv
<1>9. BootDrift'
  BY DEF BootDrift, RestartPending, FlowInv, MutexInv, SectionInv, SavedInv
<1> QED
  BY <1>1, <1>2, <1>3, <1>4, <1>5, <1>6, <1>7, <1>8, <1>9

\* The process starts.
LEMMA BootKeeps ==
  ASSUME IInv, Boot
  PROVE  Safe'
<1> USE ProcAssumption
    DEF IInv, Safe, TypeOK, FlagTypeOK, InstTypeOK, ReqTypeOK, File,
        process, instVars, Boot, AutoStart, reqVars
<1>1. MutexInv'
  BY DEF MutexInv, DownInv
<1>2. DownInv'
  BY DEF DownInv, MutexInv
<1>3. SectionInv'
  BY DEF SectionInv, MutexInv, OneKernel, DownInv
<1>4. FlowInv'
  BY DEF FlowInv, DownInv
<1>5. OneKernel'
  <2>1. ~running /\ live = 0 /\ box = NoBox /\ ~Closing'
    BY DEF OneKernel, Closing, DownInv
  <2>2. CASE AutoStart(FALSE)
    BY <2>1, <2>2 DEF OneKernel
  <2>3. CASE disk.cfg \in Bootable /\ AutoStart(TRUE)
    <3>1. [cfg |-> disk.cfg, ver |-> disk.ver] # NoBox
      BY <2>3, BoxAssumption
    <3>2. box' # NoBox /\ running' = TRUE /\ live' = 1
      BY <3>1, <2>1, <2>3
    <3> QED
      BY <3>2, <2>1 DEF OneKernel
  <2> QED
    BY <2>2, <2>3
<1>6. FreshInv'
  BY DEF FreshInv, MutexInv, SectionInv, DownInv
<1>7. SavedInv'
  BY DEF SavedInv, FlowInv, FreshInv, DownInv
<1>8. NoDrift'
  <2>1. CASE AutoStart(FALSE)
    BY <2>1 DEF NoDrift, DownInv
  <2>2. CASE AutoStart(TRUE)
    BY <2>2 DEF NoDrift
  <2> QED
    BY <2>1, <2>2
<1>9. BootDrift'
  BY DEF BootDrift, RestartPending, FlowInv, MutexInv, SectionInv, SavedInv,
         DownInv
<1> QED
  BY <1>1, <1>2, <1>3, <1>4, <1>5, <1>6, <1>7, <1>8, <1>9

LEMMA InitSafe == Init => Safe
<1> SUFFICES ASSUME Init PROVE Safe
  OBVIOUS
<1> USE DEF Init, InstInit
<1>1. MutexInv /\ DownInv /\ SectionInv /\ FlowInv
  BY ProcAssumption DEF MutexInv, DownInv, SectionInv, FlowInv
<1>2. OneKernel
  BY DEF OneKernel, Closing
<1>3. FreshInv /\ SavedInv
  BY DEF FreshInv, SavedInv
<1>4. NoDrift /\ BootDrift
  BY DEF NoDrift, BootDrift
<1> QED
  BY <1>1, <1>2, <1>3, <1>4 DEF Safe

LEMMA NextSafe == IInv /\ [Next]_vars => Safe'
<1> SUFFICES ASSUME IInv, [Next]_vars PROVE Safe'
  OBVIOUS
<1>1. ASSUME NEW p \in Proc, Submit(p) \/ Step(p)
      PROVE  Safe'
  BY <1>1, LocalKeeps, WriteKeeps, StopKeeps, StartKeeps, DeathKeeps DEF Step
<1>2. CASE Crash
  BY <1>2, DeathKeeps
<1>3. CASE Boot
  BY <1>3, BootKeeps
<1>4. CASE UNCHANGED vars
  BY <1>4
  DEF vars, IInv, Safe, MutexInv, DownInv, SectionInv, FlowInv, OneKernel,
      Closing, FreshInv, SavedInv, NoDrift, BootDrift, RestartPending
<1> QED
  BY <1>1, <1>2, <1>3, <1>4 DEF Next, Finished

THEOREM Inductive == Spec => []IInv
<1>1. Init => IInv
  BY InitType, InitSafe DEF IInv
<1>2. IInv /\ [Next]_vars => IInv'
  BY NextType, NextSafe DEF IInv
<1> QED
  BY <1>1, <1>2, PTL DEF Spec

\* At every moment at most one kernel is alive and the instance knows it.
THEOREM KernelUnique == Spec => []OneKernel
<1>1. IInv => OneKernel
  BY DEF IInv, Safe
<1> QED
  BY <1>1, Inductive, PTL

\* The kernel runs the file, but for a pending restart or a sync.
THEOREM DriftBounded == Spec => []NoDrift
<1>1. IInv => NoDrift
  BY DEF IInv, Safe
<1> QED
  BY <1>1, Inductive, PTL

\* An answered save is never older than the kernel that runs after it: what
\* the save wrote is no newer than the last Stop, what runs is no older.
THEOREM SaveTakesEffect == Spec => []AnsweredSaveIsRunning
<1>1. IInv => AnsweredSaveIsRunning
  <2> SUFFICES ASSUME IInv, NEW p \in Proc, job[p] \in {"apply", "undo"},
                      answer[p] \in {"ok", "rolled_back"}, running
               PROVE  wrote[p] <= box.ver
    BY DEF AnsweredSaveIsRunning
  <2>1. wrote[p] <= floor
    BY DEF IInv, Safe, SavedInv
  <2>2. floor <= box.ver
    BY DEF IInv, Safe, FreshInv
  <2>3. wrote[p] \in Nat /\ floor \in Nat
    BY DEF IInv, TypeOK, InstTypeOK, ReqTypeOK
  <2>4. box.ver \in Nat
    BY DEF IInv, TypeOK, InstTypeOK, Box, Safe, OneKernel
  <2> QED
    BY <2>1, <2>2, <2>3, <2>4
<1> QED
  BY <1>1, Inductive, PTL

----------------------------------------------------------------------------
(* The kernel comes up again. *)

\* What a step of p can do to the history that RevivalInv looks at: the other
\* requests and the crash count are as before, and what p has answered and
\* why it stops or starts the kernel was not different before, unless it
\* begins to restart it.
LEMMA OwnStep ==
  ASSUME RInv, NEW p \in Proc, Submit(p) \/ Step(p), ~DialPanic(p)
  PROVE  /\ crashes' = crashes
         /\ \A q \in Proc \ {p} : /\ pc'[q] = pc[q]
                                  /\ job'[q] = job[q]
                                  /\ answer'[q] = answer[q]
         /\ answer[p] = "none"
         /\ job[p] = "stop" => job'[p] = "stop"
         /\ job'[p] \in {"apply", "undo"} /\ job[p] \notin {"apply", "undo"}
            => Reviving(p)'
<1> USE DEF RInv, IInv, Safe, TypeOK, ReqTypeOK, FlowInv, process, Goto, Reply
<1>1. CASE Submit(p)
  BY <1>1 DEF Submit, SubmitUpdate, SubmitOther, AllKinds, StopInv
<1>2. CASE ApplyRead(p) \/ InstallRead(p) \/ SyncRead(p) \/ SyncGroups(p)
  BY <1>2 DEF ApplyRead, InstallRead, SyncRead, SyncGroups
<1>3. CASE ApplyWrite(p) \/ Rollback(p) \/ SyncWrite(p) \/ SyncUndo(p)
  BY <1>3 DEF ApplyWrite, Rollback, SyncWrite, SyncUndo, StopInv, Reviving
<1>4. CASE RulesLoad(p) \/ RulesUpdate(p) \/ DialCheck(p) \/ DialUse(p)
  BY <1>4 DEF RulesLoad, RulesUpdate, DialCheck, DialUse, StopInv
<1>5. CASE CallStop(p) \/ FinishStop(p)
  BY <1>5 DEF CallStop, FinishStop, AfterStop
<1>6. CASE CallStart(p) \/ FinishStart(p)
  BY <1>6 DEF CallStart, FinishStart, AfterStart
<1> QED
  BY <1>1, <1>2, <1>3, <1>4, <1>5, <1>6 DEF Step

\* A step takes its request off the path to a running kernel only with the
\* kernel up, with an error, or as a stop; and it takes the kernel down only
\* as the first half of a restart, with an error, or as a stop.
LEMMA OwnFate ==
  ASSUME RInv, NEW p \in Proc, Submit(p) \/ Step(p), ~DialPanic(p)
  PROVE  \/ Reviving(p)' \/ running' = TRUE
         \/ answer'[p] = "error" \/ job'[p] = "stop"
         \/ running' = running /\ ~Reviving(p)
<1> USE DEF RInv, IInv, Safe, TypeOK, ReqTypeOK, instVars, Goto, Reply, Reviving
<1>1. CASE Submit(p)
  BY <1>1 DEF Submit
<1>2. CASE ApplyRead(p) \/ InstallRead(p) \/ SyncRead(p) \/ SyncGroups(p)
  BY <1>2 DEF ApplyRead, InstallRead, SyncRead, SyncGroups
<1>3. CASE ApplyWrite(p) \/ Rollback(p) \/ SyncWrite(p) \/ SyncUndo(p)
  BY <1>3 DEF ApplyWrite, Rollback, SyncWrite, SyncUndo
<1>4. CASE RulesLoad(p) \/ RulesUpdate(p) \/ DialCheck(p) \/ DialUse(p)
  BY <1>4 DEF RulesLoad, RulesUpdate, DialCheck, DialUse
<1>5. CASE CallStop(p) \/ FinishStop(p)
  BY <1>5 DEF CallStop, FinishStop, AfterStop
<1>6. CASE CallStart(p)
  BY <1>6 DEF CallStart, StartNothing, AfterStart
<1>7. CASE FinishStart(p)
  <2>1. PICK failed \in BOOLEAN :
          AfterStart(p, failed) /\ (~failed => running' = TRUE)
    BY <1>7 DEF FinishStart, StartBoot
  <2> QED
    BY <2>1 DEF AfterStart
<1> QED
  BY <1>1, <1>2, <1>3, <1>4, <1>5, <1>6, <1>7 DEF Step

\* A request to stop the kernel goes through Stop and ends.
LEMMA StopInvKept ==
  ASSUME RInv, NEW p \in Proc, Submit(p) \/ Step(p), ~DialPanic(p)
  PROVE  StopInv'
<1>1. \A q \in Proc \ {p} : pc'[q] = pc[q] /\ job'[q] = job[q]
  BY OwnStep
<1> USE DEF RInv, IInv, TypeOK, ReqTypeOK, Goto, Reply, StopInv
<1>2. job'[p] = "stop" => pc'[p] \in {"stop", "stop_clear", "done", "lost"}
  <2>1. CASE Submit(p)
    BY <2>1 DEF Submit, SubmitUpdate, SubmitOther, AllKinds
  <2>2. CASE ApplyRead(p) \/ InstallRead(p) \/ SyncRead(p) \/ SyncGroups(p)
    BY <2>2 DEF ApplyRead, InstallRead, SyncRead, SyncGroups
  <2>3. CASE ApplyWrite(p) \/ Rollback(p) \/ SyncWrite(p) \/ SyncUndo(p)
    BY <2>3 DEF ApplyWrite, Rollback, SyncWrite, SyncUndo
  <2>4. CASE RulesLoad(p) \/ RulesUpdate(p) \/ DialCheck(p) \/ DialUse(p)
    BY <2>4 DEF RulesLoad, RulesUpdate, DialCheck, DialUse
  <2>5. CASE CallStop(p) \/ FinishStop(p)
    BY <2>5 DEF CallStop, FinishStop, AfterStop
  <2>6. CASE CallStart(p) \/ FinishStart(p)
    BY <2>6 DEF CallStart, FinishStart, AfterStart
  <2> QED
    BY <2>1, <2>2, <2>3, <2>4, <2>5, <2>6 DEF Step
<1> QED
  BY <1>1, <1>2

LEMMA StepRevives ==
  ASSUME RInv, NEW p \in Proc, Submit(p) \/ Step(p), ~DialPanic(p)
  PROVE  RevivalInv'
<1> SUFFICES ASSUME crashes' = 0,
                    \A q \in Proc : /\ job'[q] # "stop"
                                    /\ answer'[q] \notin {"error", "panic"},
                    \E q \in Proc : job'[q] \in {"apply", "undo"},
                    ~running',
                    \A q \in Proc : ~Reviving(q)'
             PROVE  FALSE
  BY DEF RevivalInv
<1> running' \in BOOLEAN /\ running \in BOOLEAN
  BY NextType DEF RInv, IInv, TypeOK, FlagTypeOK, Next
<1>1. running' = running /\ ~Reviving(p)
  BY OwnFate
<1>2. crashes = 0
  BY OwnStep
<1>3. \A q \in Proc : job[q] # "stop" /\ answer[q] \notin {"error", "panic"}
  BY OwnStep
<1>4. \E q \in Proc : job[q] \in {"apply", "undo"}
  BY OwnStep
<1>5. PICK q \in Proc : Reviving(q)
  BY <1>1, <1>2, <1>3, <1>4 DEF RInv, RevivalInv
<1>6. q # p /\ pc'[q] = pc[q]
  BY <1>1, <1>5, OwnStep
<1> QED
  BY <1>5, <1>6 DEF Reviving

\* The process dies or starts.
LEMMA ProcessRevives ==
  ASSUME RInv, Crash \/ Boot \/ \E p \in Proc : DialPanic(p)
  PROVE  StopInv' /\ RevivalInv'
<1> USE DEF RInv, IInv, Safe, TypeOK, FlagTypeOK, ReqTypeOK
<1>1. CASE Crash
  <2>1. StopInv'
    BY <1>1 DEF Crash, Orphaned, StopInv
  <2>2. crashes' # 0
    BY <1>1 DEF Crash
  <2> QED
    BY <2>1, <2>2 DEF RevivalInv
<1>2. CASE \E p \in Proc : DialPanic(p)
  <2>1. PICK p \in Proc : DialPanic(p)
    BY <1>2
  <2>2. StopInv'
    BY <2>1 DEF DialPanic, Orphaned, StopInv
  <2>3. answer'[p] = "panic"
    BY <2>1 DEF DialPanic
  <2> QED
    BY <2>2, <2>3 DEF RevivalInv
<1>3. CASE Boot
  <2>1. UNCHANGED <<pc, job, answer, crashes>>
    BY <1>3 DEF Boot, reqVars
  <2>2. ~running /\ \A p \in Proc : ~Reviving(p)
    BY <1>3 DEF Boot, DownInv, Reviving
  <2> QED
    BY <2>1, <2>2 DEF StopInv, RevivalInv
<1> QED
  BY <1>1, <1>2, <1>3

THEOREM Revival == Spec => []RInv
<1>1. Init => StopInv /\ RevivalInv
  BY DEF Init, StopInv, RevivalInv
<1>2. RInv /\ [Next]_vars => StopInv' /\ RevivalInv'
  <2> SUFFICES ASSUME RInv, [Next]_vars
               PROVE  StopInv' /\ RevivalInv'
    OBVIOUS
  <2>1. CASE \E p \in Proc : (Submit(p) \/ Step(p)) /\ ~DialPanic(p)
    BY <2>1, StopInvKept, StepRevives
  <2>2. CASE Crash \/ Boot \/ \E p \in Proc : DialPanic(p)
    BY <2>2, ProcessRevives
  <2>3. CASE UNCHANGED vars
    BY <2>3 DEF vars, RInv, StopInv, RevivalInv, Reviving
  <2> QED
    BY <2>1, <2>2, <2>3 DEF Next, Step, Finished
<1> QED
  BY <1>1, <1>2, Inductive, PTL DEF Spec, RInv

\* Concurrent restarts never leave the kernel down: when every request is
\* answered, none with an error, nobody stopped it and the process lived, the
\* kernel that a save restarted is up.
THEOREM KernelComesBack == Spec => []NoBlackout
<1>1. RInv => NoBlackout
  BY DEF RInv, RevivalInv, NoBlackout, Reviving
<1> QED
  BY <1>1, Revival, PTL

----------------------------------------------------------------------------
(* ControlPlane implements FreshKernel. *)

LEMMA InitRefines == Init => Abstract!AInit
  BY DEF Init, InstInit, Abstract!AInit

LEMMA StepRefines ==
  ASSUME IInv, NEW p \in Proc, Submit(p) \/ Step(p)
  PROVE  [Abstract!ANext]_(Abstract!avars)
<1> USE DEF IInv, TypeOK, FlagTypeOK, InstTypeOK, ReqTypeOK, File, instVars,
            Abstract!avars
<1>1. CASE \/ Submit(p) \/ ApplyRead(p) \/ InstallRead(p) \/ SyncRead(p)
           \/ SyncGroups(p) \/ RulesLoad(p) \/ RulesUpdate(p)
           \/ DialCheck(p) \/ DialUse(p)
  BY <1>1 DEF Submit, ApplyRead, InstallRead, SyncRead, SyncGroups,
              RulesLoad, RulesUpdate, DialCheck, DialUse
\* A write of the file is a Save.
<1>2. CASE \/ ApplyWrite(p) \/ Rollback(p) \/ SyncWrite(p) \/ SyncUndo(p)
  <2>1. UNCHANGED <<disk, floor, running, box>>
        \/ Abstract!Save
    BY <1>2 DEF ApplyWrite, Rollback, SyncWrite, SyncUndo, WriteFile,
                Abstract!Save
  <2> QED
    BY <2>1 DEF Abstract!ANext
\* Stop is a Halt where it clears the fields, and also where it finds
\* nothing to close.
<1>3. CASE CallStop(p) \/ FinishStop(p)
  <2>1. disk' = disk
    BY <1>3 DEF CallStop, FinishStop
  <2>2. CASE StopNothing \/ StopClear(p)
    <3>1. running' = FALSE /\ floor' = disk.ver
      BY <2>2 DEF StopNothing, StopClear
    <3> QED
      BY <2>1, <3>1 DEF Abstract!Halt, Abstract!ANext
  <2>3. CASE StopClose(p)
    BY <2>1, <2>3 DEF StopClose
  <2> QED
    BY <1>3, <2>2, <2>3 DEF CallStop, FinishStop
\* Start is a Launch where the kernel boots, on a file no older than the
\* last Halt.
<1>4. CASE CallStart(p)
  <2>1. UNCHANGED <<disk, floor, running, box>>
    BY <1>4 DEF CallStart, StartNothing, StartNoFile, StartRead
  <2> QED
    BY <2>1
<1>5. CASE FinishStart(p)
  <2>1. PICK ok \in BOOLEAN : StartBoot(p, got[p], ok)
    BY <1>5 DEF FinishStart
  <2>2. ~running /\ got[p].ver \in floor .. disk.ver
    BY <1>5 DEF FinishStart, Safe, SectionInv, FreshInv
  <2>3. CASE ok
    BY <1>5, <2>1, <2>2, <2>3
    DEF FinishStart, StartBoot, Abstract!Launch, Abstract!ANext
  <2>4. CASE ~ok
    BY <1>5, <2>1, <2>4 DEF FinishStart, StartBoot
  <2> QED
    BY <2>3, <2>4
<1>6. CASE DialPanic(p)
  BY <1>6 DEF DialPanic, Die, Abstract!Halt, Abstract!ANext
<1> QED
  BY <1>1, <1>2, <1>3, <1>4, <1>5, <1>6 DEF Step

LEMMA ProcessRefines ==
  ASSUME IInv, Crash \/ Boot
  PROVE  [Abstract!ANext]_(Abstract!avars)
<1> USE DEF IInv, TypeOK, FlagTypeOK, InstTypeOK, File, Abstract!avars
<1>1. CASE Crash
  BY <1>1 DEF Crash, Die, Abstract!Halt, Abstract!ANext
<1>2. CASE Boot
  <2>1. ~running /\ disk.ver \in floor .. disk.ver
    BY <1>2 DEF Boot, Safe, DownInv, FreshInv
  <2>2. CASE AutoStart(FALSE)
    BY <1>2, <2>2 DEF Boot, AutoStart
  <2>3. CASE AutoStart(TRUE)
    BY <1>2, <2>1, <2>3 DEF Boot, AutoStart, Abstract!Launch, Abstract!ANext
  <2> QED
    BY <1>2, <2>2, <2>3 DEF Boot
<1> QED
  BY <1>1, <1>2

\* The control plane implements FreshKernel: across any interleaving of
\* saves, syncs, restarts, rule-set updates and crashes, the kernel boots only
\* from a file that was current at or after the last stop.
THEOREM Refinement == Spec => RefinesFreshKernel
<1>1. IInv /\ [Next]_vars => [Abstract!ANext]_(Abstract!avars)
  <2> SUFFICES ASSUME IInv, [Next]_vars
               PROVE  [Abstract!ANext]_(Abstract!avars)
    OBVIOUS
  <2>1. CASE UNCHANGED vars
    BY <2>1 DEF vars, Abstract!avars
  <2> QED
    BY <2>1, StepRefines, ProcessRefines DEF Next, Finished
<1> QED
  BY <1>1, InitRefines, Inductive, PTL
  DEF Spec, RefinesFreshKernel, Abstract!ASpec

===========================================================================
