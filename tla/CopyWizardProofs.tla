-------------------------- MODULE CopyWizardProofs --------------------------
(* Proofs about the copy wizard, for any number of threads and objects.    *)
EXTENDS CopyWizard, TLAPS

(* Where the main loop is about to use p_fcopy.                            *)
UsesCopy == {"fcReset", "fcSource", "fcType", "copying", "retry", "cfType", "cfReset"}

(* p_fcopy is not NULL there, and no thread runs without its object: what  *)
(* TypeOK needs to be inductive.                                           *)
PointerInv ==
  /\ mCounter \in UsesCopy => p_fcopy \in Obj
  /\ \A t \in Thr : tpc[t] # "ended" => tobj[t] \in Obj

TypeInv == TypeOK /\ PointerInv

-----------------------------------------------------------------------------
(* Discs whose copy raises no error, and settings the user leaves alone.   *)
NoErrors == Jobs \subseteq (({"GAME", "ISO"} \X Targets) \cup {<<"CDDA", "hdd">>})

(* Where a copy thread may be at work.                                     *)
CopyScreens == UsesCopy \ {"retry"}

PlainInv ==
  /\ generalError = FALSE
  /\ mCounter \notin {"error", "nowhere"}
  /\ job \in Jobs
  /\ \A o \in Obj : ftype[o] # "DVD"
  /\ \A t \in Thr : tjob[t] # "DVD"

(* One thread at most, on the wizard's object; b_finished, once reset,     *)
(* tells that it has finished.                                             *)
CopyInv ==
  /\ \A t \in Thr : Busy(t) => mCounter \in CopyScreens /\ tobj[t] = p_fcopy
  /\ \A t, u \in Thr : Busy(t) /\ Busy(u) => t = u
  /\ mCounter \in {"fcSource", "fcType", "copying"} /\ b_finished
       => \A t \in Thr : ~Busy(t)
  /\ mCounter \in UsesCopy => live[p_fcopy]

(* Every tray thread is the one behind the handle, and there is no handle  *)
(* while the wizard copies.                                                *)
DetectorInv ==
  /\ \A d \in Det : dpc[d] # "ended" => dHandle = d
  /\ mCounter \in UsesCopy \cup {"create", "post"} => dHandle = NULL

(* Between copies a tray thread watches, if the setting says so, and none  *)
(* is asked to stop: a thread that is gone there has seen the setting.     *)
BetweenCopies == {"mainmenu", "settings", "dest", "confirm", "report", "stop"}

WatchInv ==
  mCounter \in BetweenCopies
    => ~dStop /\ (detect => \E d \in Det : dpc[d] # "ended")

IInv == TypeInv /\ PlainInv /\ CopyInv

-----------------------------------------------------------------------------
(* The initial states, and one step per action of Next.                    *)
LEMMA TypeInvInit == Init => TypeInv
<1> SUFFICES ASSUME Init PROVE TypeInv
  OBVIOUS
<1> USE WizardAssumption DEF Init, Types, Targets
<1>1. /\ mCounter \in Screens \cup InHandler
      /\ job \in Types \X Targets
      /\ p_fcopy \in Obj \cup {NULL}
      /\ m_Caller \in Callers
      /\ generalError \in BOOLEAN /\ b_finished \in BOOLEAN
      /\ detect \in BOOLEAN /\ dStop \in BOOLEAN
  BY DEF Screens, InHandler, Callers
<1>2. retries \in 0..RetryCap /\ copy_failed \in 0..MaxFailed
  BY DEF RetryCap
<1>3. /\ live \in [Obj -> BOOLEAN]
      /\ ftype \in [Obj -> JobKinds]
      /\ fsource \in [Obj -> BOOLEAN]
  BY DEF JobKinds
<1>4. /\ tpc \in [Thr -> ThreadPcs]
      /\ tobj \in [Thr -> Obj \cup {NULL}]
      /\ tjob \in [Thr -> JobKinds \cup {"none"}]
      /\ tkind \in [Thr -> {"first", "retry"}]
  BY DEF ThreadPcs
<1>5. dHandle \in Det \cup {NULL} /\ dpc \in [Det -> DetPcs]
  BY DEF DetPcs
<1>6. PointerInv
  BY DEF PointerInv, UsesCopy
<1>7. QED
  BY <1>1, <1>2, <1>3, <1>4, <1>5, <1>6 DEF TypeInv, TypeOK

LEMMA TypeInvNext == TypeInv /\ [Next]_vars => TypeInv'
<1> SUFFICES ASSUME TypeInv, [Next]_vars PROVE TypeInv'
  OBVIOUS
<1> USE WizardAssumption
    DEF TypeInv, TypeOK, PointerInv, UsesCopy, Screens, InHandler, Callers, ThreadPcs,
        JobKinds, DetPcs,
        Types, Targets, wizardVars, reportVars, objVars, threadVars, detectorVars,
        copyVars, Goto, CreateCopyThread, CreateDetector, DeleteCopy
<1>1. CASE ChooseCopy BY <1>1 DEF ChooseCopy
<1>2. CASE ChooseDest BY <1>2, ZenonT(30) DEF ChooseDest
<1>3. CASE Confirm BY <1>3 DEF Confirm
<1>4. CASE Settings
  <2>1. CASE UNCHANGED detectorVars BY <1>4, <2>1 DEF Settings
  <2>2. CASE detect' = ~detect /\ CreateDetector BY <1>4, <2>2, ZenonT(30) DEF Settings
  <2>3. CASE detect' = ~detect /\ UNCHANGED <<dStop, dHandle, dpc>>
    BY <1>4, <2>3 DEF Settings
  <2>4. QED BY <1>4, <2>1, <2>2, <2>3 DEF Settings
<1>5. CASE GiveUp BY <1>5 DEF GiveUp, RetryCap
<1>6. CASE Retry BY <1>6 DEF Retry
<1>7. CASE Report BY <1>7 DEF Report
<1>8. CASE LeaveError BY <1>8 DEF LeaveError
<1>9. CASE StopDetector BY <1>9 DEF StopDetector
<1>10. CASE JoinDetector BY <1>10 DEF JoinDetector
<1>11. CASE NewCopy BY <1>11 DEF NewCopy
<1>12. CASE FileCopyReset
  <2>1. copy_failed' \in 0..MaxFailed BY <1>12 DEF FileCopyReset
  <2>2. QED BY <1>12, <2>1 DEF FileCopyReset
<1>13. CASE FileCopySource BY <1>13 DEF FileCopySource
<1>14. CASE FileCopyType BY <1>14 DEF FileCopyType
<1>15. CASE CopyFinished
  <2>1. CASE Goto("retry") /\ UNCHANGED <<p_fcopy, objVars>>
    BY <1>15, <2>1 DEF CopyFinished
  <2>2. CASE Goto("post") /\ DeleteCopy BY <1>15, <2>2 DEF CopyFinished
  <2>3. QED BY <1>15, <2>1, <2>2 DEF CopyFinished
<1>16. CASE CopyFailedType BY <1>16 DEF CopyFailedType
<1>17. CASE CopyFailedReset
  <2>1. retries' \in 0..RetryCap BY <1>17 DEF CopyFailedReset, RetryCap
  <2>2. QED BY <1>17, <2>1 DEF CopyFailedReset
<1>18. CASE PostProcess BY <1>18, ZenonT(30) DEF PostProcess
<1>19. CASE ErrorPage BY <1>19 DEF ErrorPage
<1>20. ASSUME NEW t \in Thr, CopyThread(t) PROVE TypeInv'
  <2>1. CASE PickJob(t) BY <2>1 DEF PickJob
  <2>2. CASE FileFails(t) BY <2>2 DEF FileFails
  <2>3. CASE AuthFails(t) BY <2>3 DEF AuthFails
  <2>4. CASE CopyDone(t) BY <2>4 DEF CopyDone
  <2>5. CASE ForgetType(t) BY <2>5 DEF ForgetType
  <2>6. CASE OnExit(t) BY <2>6 DEF OnExit
  <2>7. CASE ThreadEnds(t) BY <2>7 DEF ThreadEnds
  <2>8. QED BY <1>20, <2>1, <2>2, <2>3, <2>4, <2>5, <2>6, <2>7 DEF CopyThread
<1>21. ASSUME NEW d \in Det, DetectorStep(d) PROVE TypeInv'
  BY <1>21 DEF DetectorStep
<1>22. CASE UNCHANGED vars BY <1>22 DEF vars
<1>23. QED
  BY <1>1, <1>2, <1>3, <1>4, <1>5, <1>6, <1>7, <1>8, <1>9, <1>10, <1>11, <1>12, <1>13,
     <1>14, <1>15, <1>16, <1>17, <1>18, <1>19, <1>20, <1>21, <1>22
     DEF Next, UserStep, MainStep
LEMMA PlainInvNext == NoErrors /\ TypeInv /\ PlainInv /\ [Next]_vars => PlainInv'
<1> SUFFICES ASSUME NoErrors, TypeInv, PlainInv, [Next]_vars PROVE PlainInv'
  OBVIOUS
<1> USE DEF NoErrors, TypeInv, TypeOK, PointerInv, UsesCopy, PlainInv, wizardVars,
        reportVars, objVars, threadVars,
        detectorVars, copyVars,
        Goto, CreateCopyThread, CreateDetector, DeleteCopy
<1>1. CASE ChooseCopy BY <1>1 DEF ChooseCopy
<1>2. CASE ChooseDest BY <1>2 DEF ChooseDest
<1>3. CASE Confirm BY <1>3 DEF Confirm
<1>4. CASE Settings BY <1>4 DEF Settings
<1>5. CASE GiveUp BY <1>5 DEF GiveUp
<1>6. CASE Retry BY <1>6 DEF Retry
<1>7. CASE Report BY <1>7 DEF Report
<1>8. CASE LeaveError BY <1>8 DEF LeaveError
<1>9. CASE StopDetector BY <1>9 DEF StopDetector
<1>10. CASE JoinDetector BY <1>10 DEF JoinDetector
<1>11. CASE NewCopy BY <1>11 DEF NewCopy
<1>12. CASE FileCopyReset BY <1>12 DEF FileCopyReset
<1>13. CASE FileCopySource BY <1>13 DEF FileCopySource
<1>14. CASE FileCopyType BY <1>14 DEF FileCopyType
<1>15. CASE CopyFinished BY <1>15 DEF CopyFinished
<1>16. CASE CopyFailedType BY <1>16 DEF CopyFailedType
<1>17. CASE CopyFailedReset BY <1>17 DEF CopyFailedReset
<1>18. CASE PostProcess BY <1>18 DEF PostProcess
<1>19. CASE ErrorPage BY <1>19 DEF ErrorPage
<1>20. ASSUME NEW t \in Thr, CopyThread(t) PROVE PlainInv'
  <2>1. CASE PickJob(t) BY <2>1 DEF PickJob
  <2>2. CASE FileFails(t) BY <2>2 DEF FileFails
  <2>3. CASE AuthFails(t) BY <2>3 DEF AuthFails
  <2>4. CASE CopyDone(t) BY <2>4 DEF CopyDone
  <2>5. CASE ForgetType(t) BY <2>5 DEF ForgetType
  <2>6. CASE OnExit(t) BY <2>6 DEF OnExit
  <2>7. CASE ThreadEnds(t) BY <2>7 DEF ThreadEnds
  <2>8. QED BY <1>20, <2>1, <2>2, <2>3, <2>4, <2>5, <2>6, <2>7 DEF CopyThread
<1>21. ASSUME NEW d \in Det, DetectorStep(d) PROVE PlainInv'
  BY <1>21 DEF DetectorStep
<1>22. CASE UNCHANGED vars BY <1>22 DEF vars
<1>23. QED
  BY <1>1, <1>2, <1>3, <1>4, <1>5, <1>6, <1>7, <1>8, <1>9, <1>10, <1>11, <1>12,
     <1>13, <1>14, <1>15, <1>16, <1>17, <1>18, <1>19, <1>20, <1>21, <1>22
     DEF Next, UserStep, MainStep

LEMMA CopyInvNext == IInv /\ [Next]_vars => CopyInv'
<1> SUFFICES ASSUME IInv, [Next]_vars PROVE CopyInv'
  OBVIOUS
<1> USE DEF IInv, TypeInv, TypeOK, PointerInv, PlainInv, CopyInv, Busy, UsesCopy, CopyScreens,
        wizardVars, reportVars, objVars, threadVars,
        detectorVars, copyVars, Goto, CreateCopyThread, CreateDetector, DeleteCopy
<1>1. CASE ChooseCopy BY <1>1 DEF ChooseCopy
<1>2. CASE ChooseDest BY <1>2 DEF ChooseDest
<1>3. CASE Confirm BY <1>3 DEF Confirm
<1>4. CASE Settings BY <1>4 DEF Settings
<1>5. CASE GiveUp BY <1>5 DEF GiveUp
<1>6. CASE Retry BY <1>6 DEF Retry
<1>7. CASE Report BY <1>7 DEF Report
<1>8. CASE LeaveError BY <1>8 DEF LeaveError
<1>9. CASE StopDetector BY <1>9 DEF StopDetector
<1>10. CASE JoinDetector BY <1>10 DEF JoinDetector
<1>11. CASE NewCopy BY <1>11 DEF NewCopy
<1>12. CASE FileCopyReset BY <1>12 DEF FileCopyReset
<1>13. CASE FileCopySource BY <1>13 DEF FileCopySource
<1>14. CASE FileCopyType BY <1>14 DEF FileCopyType
<1>15. CASE CopyFinished BY <1>15 DEF CopyFinished
<1>16. CASE CopyFailedType BY <1>16 DEF CopyFailedType
<1>17. CASE CopyFailedReset BY <1>17 DEF CopyFailedReset
<1>18. CASE PostProcess BY <1>18 DEF PostProcess
<1>19. CASE ErrorPage BY <1>19 DEF ErrorPage
<1>20. ASSUME NEW t \in Thr, CopyThread(t) PROVE CopyInv'
  <2>1. CASE PickJob(t) BY <2>1 DEF PickJob
  <2>2. CASE FileFails(t) BY <2>2 DEF FileFails
  <2>3. CASE AuthFails(t) BY <2>3 DEF AuthFails
  <2>4. CASE CopyDone(t) BY <2>4 DEF CopyDone
  <2>5. CASE ForgetType(t) BY <2>5 DEF ForgetType
  <2>6. CASE OnExit(t) BY <2>6 DEF OnExit
  <2>7. CASE ThreadEnds(t) BY <2>7 DEF ThreadEnds
  <2>8. QED BY <1>20, <2>1, <2>2, <2>3, <2>4, <2>5, <2>6, <2>7 DEF CopyThread
<1>21. ASSUME NEW d \in Det, DetectorStep(d) PROVE CopyInv'
  BY <1>21 DEF DetectorStep
<1>22. CASE UNCHANGED vars BY <1>22 DEF vars
<1>23. QED
  BY <1>1, <1>2, <1>3, <1>4, <1>5, <1>6, <1>7, <1>8, <1>9, <1>10, <1>11, <1>12,
     <1>13, <1>14, <1>15, <1>16, <1>17, <1>18, <1>19, <1>20, <1>21, <1>22
     DEF Next, UserStep, MainStep

LEMMA DetectorInvNext ==
  ~Toggles /\ TypeInv /\ PlainInv /\ DetectorInv /\ [Next]_vars => DetectorInv'
<1> SUFFICES ASSUME ~Toggles, TypeInv, PlainInv, DetectorInv, [Next]_vars PROVE DetectorInv'
  OBVIOUS
<1> USE DEF TypeInv, TypeOK, PlainInv, DetectorInv, UsesCopy, wizardVars,
        reportVars, objVars, threadVars,
        detectorVars, copyVars,
        Goto, CreateCopyThread, CreateDetector, DeleteCopy, Joined
<1>1. CASE ChooseCopy BY <1>1 DEF ChooseCopy
<1>2. CASE ChooseDest BY <1>2 DEF ChooseDest
<1>3. CASE Confirm BY <1>3 DEF Confirm
<1>4. CASE Settings BY <1>4 DEF Settings
<1>5. CASE GiveUp BY <1>5 DEF GiveUp
<1>6. CASE Retry BY <1>6 DEF Retry
<1>7. CASE Report BY <1>7 DEF Report
<1>8. CASE LeaveError BY <1>8 DEF LeaveError
<1>9. CASE StopDetector BY <1>9 DEF StopDetector
<1>10. CASE JoinDetector BY <1>10 DEF JoinDetector
<1>11. CASE NewCopy BY <1>11 DEF NewCopy
<1>12. CASE FileCopyReset BY <1>12 DEF FileCopyReset
<1>13. CASE FileCopySource BY <1>13 DEF FileCopySource
<1>14. CASE FileCopyType BY <1>14 DEF FileCopyType
<1>15. CASE CopyFinished BY <1>15 DEF CopyFinished
<1>16. CASE CopyFailedType BY <1>16 DEF CopyFailedType
<1>17. CASE CopyFailedReset BY <1>17 DEF CopyFailedReset
<1>18. CASE PostProcess
  <2>1. CASE CreateDetector /\ Goto("report")
    <3>1. \A d \in Det : dpc[d] = "ended" BY <1>18, WizardAssumption DEF PostProcess
    <3>2. PICK d \in Det : dpc' = [dpc EXCEPT ![d] = "probe"] /\ dHandle' = d
      BY <2>1
    <3>3. \A e \in Det : dpc'[e] # "ended" => dHandle' = e BY <3>1, <3>2
    <3>4. mCounter' = "report" BY <2>1
    <3>5. QED BY <3>3, <3>4
  <2>2. CASE mCounter' = "off" /\ UNCHANGED detectorVars BY <1>18, <2>2
  <2>3. QED BY <1>18, <2>1, <2>2 DEF PostProcess
<1>19. CASE ErrorPage BY <1>19 DEF ErrorPage
<1>20. ASSUME NEW t \in Thr, CopyThread(t) PROVE DetectorInv'
  <2>1. CASE PickJob(t) BY <2>1 DEF PickJob
  <2>2. CASE FileFails(t) BY <2>2 DEF FileFails
  <2>3. CASE AuthFails(t) BY <2>3 DEF AuthFails
  <2>4. CASE CopyDone(t) BY <2>4 DEF CopyDone
  <2>5. CASE ForgetType(t) BY <2>5 DEF ForgetType
  <2>6. CASE OnExit(t) BY <2>6 DEF OnExit
  <2>7. CASE ThreadEnds(t) BY <2>7 DEF ThreadEnds
  <2>8. QED BY <1>20, <2>1, <2>2, <2>3, <2>4, <2>5, <2>6, <2>7 DEF CopyThread
<1>21. ASSUME NEW d \in Det, DetectorStep(d) PROVE DetectorInv'
  BY <1>21 DEF DetectorStep
<1>22. CASE UNCHANGED vars BY <1>22 DEF vars
<1>23. QED
  BY <1>1, <1>2, <1>3, <1>4, <1>5, <1>6, <1>7, <1>8, <1>9, <1>10, <1>11, <1>12,
     <1>13, <1>14, <1>15, <1>16, <1>17, <1>18, <1>19, <1>20, <1>21, <1>22
     DEF Next, UserStep, MainStep

LEMMA WatchInvNext == TypeInv /\ PlainInv /\ WatchInv /\ [Next]_vars => WatchInv'
<1> SUFFICES ASSUME TypeInv, PlainInv, WatchInv, [Next]_vars PROVE WatchInv'
  OBVIOUS
<1> USE DEF TypeInv, TypeOK, DetPcs, PlainInv, WatchInv, BetweenCopies, wizardVars,
        detectorVars, Goto,
        CreateDetector
<1>1. CASE ChooseCopy BY <1>1 DEF ChooseCopy
<1>2. CASE ChooseDest BY <1>2 DEF ChooseDest
<1>3. CASE Confirm BY <1>3 DEF Confirm
<1>4. CASE Settings
  <2>1. CASE UNCHANGED detectorVars BY <1>4, <2>1 DEF Settings
  <2>2. CASE detect' = ~detect /\ CreateDetector
    BY <1>4, <2>2 DEF Settings
  <2>3. CASE detect' = ~detect /\ ~detect' /\ UNCHANGED <<dStop, dHandle, dpc>>
    BY <1>4, <2>3 DEF Settings
  <2>4. QED BY <1>4, <2>1, <2>2, <2>3 DEF Settings
<1>5. CASE GiveUp BY <1>5 DEF GiveUp
<1>6. CASE Retry BY <1>6 DEF Retry
<1>7. CASE Report BY <1>7 DEF Report
<1>8. CASE LeaveError BY <1>8 DEF LeaveError
<1>9. CASE StopDetector BY <1>9 DEF StopDetector
<1>10. CASE JoinDetector BY <1>10 DEF JoinDetector
<1>11. CASE NewCopy BY <1>11 DEF NewCopy
<1>12. CASE FileCopyReset BY <1>12 DEF FileCopyReset
<1>13. CASE FileCopySource BY <1>13 DEF FileCopySource
<1>14. CASE FileCopyType BY <1>14 DEF FileCopyType
<1>15. CASE CopyFinished BY <1>15 DEF CopyFinished
<1>16. CASE CopyFailedType BY <1>16 DEF CopyFailedType
<1>17. CASE CopyFailedReset BY <1>17 DEF CopyFailedReset
<1>18. CASE PostProcess BY <1>18 DEF PostProcess
<1>19. CASE ErrorPage BY <1>19 DEF ErrorPage
<1>20. ASSUME NEW t \in Thr, CopyThread(t) PROVE WatchInv'
  BY <1>20 DEF CopyThread, PickJob, FileFails, AuthFails, CopyDone, ForgetType, OnExit, ThreadEnds
<1>21. ASSUME NEW d \in Det, DetectorStep(d) PROVE WatchInv'
  BY <1>21 DEF DetectorStep
<1>22. CASE UNCHANGED vars BY <1>22 DEF vars
<1>23. QED
  BY <1>1, <1>2, <1>3, <1>4, <1>5, <1>6, <1>7, <1>8, <1>9, <1>10, <1>11, <1>12,
     <1>13, <1>14, <1>15, <1>16, <1>17, <1>18, <1>19, <1>20, <1>21, <1>22
     DEF Next, UserStep, MainStep

-----------------------------------------------------------------------------
(* Every variable keeps its type, p_fcopy is there whenever the main loop  *)
(* uses it and every thread has its object, errors or not.                 *)
THEOREM TypeCorrect == Spec => []TypeOK
<1>1. TypeInv => TypeOK BY DEF TypeInv
<1>2. QED BY <1>1, TypeInvInit, TypeInvNext, PTL DEF Spec

LEMMA PlainInit == NoErrors /\ Init => PlainInv /\ CopyInv /\ DetectorInv
BY WizardAssumption
   DEF NoErrors, Init, PlainInv, CopyInv, DetectorInv, Busy, UsesCopy, CopyScreens

LEMMA InvariantHolds == ASSUME NoErrors PROVE Spec => []IInv
<1>1. Init => IInv BY NoErrors, TypeInvInit, PlainInit DEF IInv
<1>2. IInv /\ [Next]_vars => IInv'
  BY NoErrors, TypeInvNext, PlainInvNext, CopyInvNext DEF IInv
<1>3. QED BY <1>1, <1>2, PTL DEF Spec

(* FileCopy() and CopyFailed() reset b_finished after they have started    *)
(* the thread and without a lock, and still, as long as no error page      *)
(* interrupts a copy, the wizard never starts a thread before the previous *)
(* one has finished.                                                       *)
THEOREM OneCopy == ASSUME NoErrors PROVE Spec => []OneCopyAtATime
<1>1. IInv => OneCopyAtATime BY DEF IInv, CopyInv, OneCopyAtATime
<1>2. QED BY <1>1, NoErrors, InvariantHolds, PTL

(* Nor does it delete the object of a thread that still works.             *)
THEOREM ObjectOutlivesThread == ASSUME NoErrors PROVE Spec => []NoUseAfterDelete
<1>1. IInv => NoUseAfterDelete BY DEF IInv, CopyInv, NoUseAfterDelete, UsesCopy, CopyScreens
<1>2. QED BY <1>1, NoErrors, InvariantHolds, PTL

(* While a copy thread works no tray thread is left, unless the user has   *)
(* changed "detect media" meanwhile.                                       *)
THEOREM QuietDrive == ASSUME NoErrors, ~Toggles PROVE Spec => []DetectorQuiet
<1>1. Init => IInv /\ DetectorInv BY NoErrors, TypeInvInit, PlainInit DEF IInv
<1>2. IInv /\ DetectorInv /\ [Next]_vars => (IInv /\ DetectorInv)'
  BY NoErrors, ~Toggles, TypeInvNext, PlainInvNext, CopyInvNext, DetectorInvNext DEF IInv
<1>3. IInv /\ DetectorInv => DetectorQuiet
  BY WizardAssumption
     DEF IInv, CopyInv, DetectorInv, DetectorQuiet, Busy, UsesCopy, CopyScreens
<1>4. QED BY <1>1, <1>2, <1>3, PTL DEF Spec

(* After a copy without errors detection is back: whenever the main menu   *)
(* is shown with "detect media" on, a tray thread is there, whether case 6 *)
(* or the settings have started it.                                        *)
THEOREM MenuWatched == ASSUME NoErrors PROVE Spec => []MenuHasDetector
<1>1. Init => IInv /\ WatchInv
  BY NoErrors, TypeInvInit, PlainInit DEF IInv, Init, WatchInv
<1>2. IInv /\ WatchInv /\ [Next]_vars => (IInv /\ WatchInv)'
  BY NoErrors, TypeInvNext, PlainInvNext, CopyInvNext, WatchInvNext DEF IInv
<1>3. WatchInv => MenuHasDetector BY DEF WatchInv, BetweenCopies, MenuHasDetector
<1>4. QED BY <1>1, <1>2, <1>3, NoErrors, InvariantHolds, PTL DEF Spec

(* The numbers of the report stand still from the moment the wizard has    *)
(* seen the end of a copy until it sets up the next.                       *)
THEOREM ReportStands == ASSUME NoErrors PROVE Spec => ReportStable
<1>1. ASSUME IInv, [Next]_vars, mCounter \in Reporting, mCounter' \in Reporting
      PROVE  UNCHANGED copy_failed
  <2> USE <1>1 DEF Reporting, wizardVars, reportVars, copyVars
  <2>1. \A t \in Thr : tpc[t] # "copying"
    BY DEF IInv, CopyInv, Busy, CopyScreens, UsesCopy
  <2>2. CASE UserStep
    BY <2>2 DEF UserStep, ChooseCopy, ChooseDest, Confirm, Settings, GiveUp, Retry, Report,
                LeaveError
  <2>3. CASE MainStep
    BY <2>3 DEF MainStep, StopDetector, JoinDetector, NewCopy, FileCopyReset, FileCopySource,
                FileCopyType, CopyFinished, CopyFailedType, CopyFailedReset, PostProcess,
                ErrorPage
  <2>4. ASSUME NEW t \in Thr, CopyThread(t) PROVE UNCHANGED copy_failed
    BY <2>1, <2>4 DEF CopyThread, PickJob, FileFails, AuthFails, CopyDone, ForgetType, OnExit,
                      ThreadEnds
  <2>5. ASSUME NEW d \in Det, DetectorStep(d) PROVE UNCHANGED copy_failed
    BY <2>5 DEF DetectorStep
  <2>6. CASE UNCHANGED vars BY <2>6 DEF vars
  <2>7. QED BY <2>2, <2>3, <2>4, <2>5, <2>6 DEF Next
<1>2. IInv /\ [Next]_vars
        => [(mCounter \in Reporting /\ mCounter' \in Reporting)
              => UNCHANGED copy_failed]_vars
  BY <1>1
<1>3. QED BY <1>2, NoErrors, InvariantHolds, PTL DEF Spec, ReportStable
====
