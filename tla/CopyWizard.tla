----------------------------- MODULE CopyWizard -----------------------------
(***************************************************************************)
(* The copy wizard of dvd2xbox: the main loop (CXBoxSample::FrameMove,     *)
(* one screen per value of mCounter), the copy thread it starts for a disc *)
(* (D2Xfilecopy, a CThread) and the thread that watches the DVD tray       *)
(* (D2Xdstatus, a CThread), which the wizard stops while a copy reads the  *)
(* disc.                                                                   *)
(*                                                                         *)
(* The main loop and the threads share static members with no lock:        *)
(* b_finished, the counters of the copy report, and the members FileCopy() *)
(* fills in AFTER Create() has started the thread that reads them.  Every  *)
(* read or write of those is therefore a step of its own; the rest of a    *)
(* frame is one step.                                                      *)
(*                                                                         *)
(* What the files of a copy do to the report is in CopyJob; here a first   *)
(* pass may count failures and a retry may clear them.  Left out: the      *)
(* remote-control mode, LEDs, log files, thread priorities, gBuffer.       *)
(***************************************************************************)
EXTENDS Naturals, FiniteSets

CONSTANTS
  Thr,             \* copy threads; an ended one stands for a new one
  Obj,             \* D2Xfilecopy objects; a deleted one stands for a new one
  Det,             \* tray threads; an ended one stands for a new one
  NULL,            \* no object, no handle
  Jobs,            \* the <<disc type, target>> pairs the user copies
  AutoCopyRetries, \* g_d2xSettings.autoCopyRetries
  MaxFailed,       \* BOUND on copy_failed
  Toggles          \* whether the user changes "detect media" in the settings

Types   == {"GAME", "ISO", "DVD", "CDDA"}
Targets == {"hdd", "smb"}

ASSUME WizardAssumption ==
  /\ Jobs \subseteq Types \X Targets
  /\ AutoCopyRetries \in Nat
  /\ MaxFailed \in Nat
  /\ Toggles \in BOOLEAN
  /\ NULL \notin Obj \cup Det


VARIABLES
  mCounter,       \* the screen, or the point inside the handler of one
  job,            \* <<type, target>> of the copy being set up
  p_fcopy,        \* the main program's pointer
  retries,        \* current_copy_retries
  generalError, m_Caller,
  b_finished, copy_failed, \* statics of D2Xfilecopy
  live, ftype, fsource,    \* members of each D2Xfilecopy
  tpc, tobj, tjob, tkind,  \* copy threads: where, on what, doing what, for what
  detect, dStop, dHandle, dpc  \* the setting; D2Xdstatus and its threads

reportVars   == <<b_finished, copy_failed>>
objVars      == <<live, ftype, fsource>>
threadVars   == <<tpc, tobj, tjob, tkind>>
detectorVars == <<detect, dStop, dHandle, dpc>>
wizardVars   == <<mCounter, job, p_fcopy, retries, generalError, m_Caller>>
copyVars     == <<reportVars, objVars, threadVars>>
vars == <<wizardVars, copyVars, detectorVars>>

(* "nowhere" is a value of mCounter no case of FrameMove handles.          *)
Screens   == {"mainmenu", "settings", "dest", "confirm", "copying", "post", "report",
              "retry", "error", "off", "nowhere"}
InHandler == {"stop", "join", "create", "fcReset", "fcSource", "fcType",
              "cfType", "cfReset"}
Callers   == {"mainmenu", "confirm", "report", "nowhere"}
ThreadPcs == {"created", "copying", "leaving", "exit", "stopping", "ended"}
JobKinds  == Types \cup {"UNKNOWN_", "COPYFAILED"}
DetPcs    == {"probe", "loop", "ended"}

(* The main loop only asks whether current_copy_retries <= autoCopyRetries, *)
(* so it need not count further than this.                                  *)
RetryCap == AutoCopyRetries + 1

TypeOK ==
  /\ mCounter \in Screens \cup InHandler
  /\ job \in Types \X Targets
  /\ p_fcopy \in Obj \cup {NULL}
  /\ retries \in 0..RetryCap
  /\ m_Caller \in Callers
  /\ generalError \in BOOLEAN /\ b_finished \in BOOLEAN
  /\ detect \in BOOLEAN /\ dStop \in BOOLEAN
  /\ copy_failed \in 0..MaxFailed
  /\ live \in [Obj -> BOOLEAN]
  /\ ftype \in [Obj -> JobKinds]
  /\ fsource \in [Obj -> BOOLEAN]
  /\ tpc \in [Thr -> ThreadPcs]
  /\ tobj \in [Thr -> Obj \cup {NULL}]
  /\ tjob \in [Thr -> JobKinds \cup {"none"}]
  /\ tkind \in [Thr -> {"first", "retry"}]
  /\ dHandle \in Det \cup {NULL}
  /\ dpc \in [Det -> DetPcs]

-----------------------------------------------------------------------------
(* CThread::Create starts a thread on an object and overwrites its handle. *)

CreateCopyThread(o, kind) ==
  \E t \in Thr :
    /\ tpc[t] = "ended"
    /\ tpc' = [tpc EXCEPT ![t] = "created"]
    /\ tobj' = [tobj EXCEPT ![t] = o]
    /\ tjob' = [tjob EXCEPT ![t] = "none"]
    /\ tkind' = [tkind EXCEPT ![t] = kind]

CreateDetector ==
  \E d \in Det :
    /\ dpc[d] = "ended"
    /\ dpc' = [dpc EXCEPT ![d] = "probe"]
    /\ dHandle' = d
    /\ dStop' = FALSE

(* An object no running thread uses: never used, deleted or leaked.        *)
Unused(o) == \A t \in Thr : tpc[t] # "ended" => tobj[t] # o

(* Mutant: a frame ends without looking at the flag.                       *)
Goto_Blind(screen) == mCounter' = screen

(* Every frame ends by diverting to the error page if an error is flagged. *)
Goto(screen) == mCounter' = IF generalError THEN "error" ELSE screen

-----------------------------------------------------------------------------
(* The screens that lead to a copy.                                        *)

(* Cases 0/11, 1 and 500: pick the copy; the disc in the drive gives the   *)
(* type.                                                                   *)
ChooseCopy ==
  /\ mCounter = "mainmenu"
  /\ job' \in Jobs
  /\ Goto("dest")
  /\ UNCHANGED <<p_fcopy, retries, generalError, m_Caller, copyVars,
                 detectorVars>>

(* Cases 13 and 501: accept a destination, or go back.  For a DVD          *)
(* GetNextPath may find that the disc cannot be authenticated; only case   *)
(* 13 then says where the error page returns to.                           *)
ChooseDest ==
  /\ mCounter = "dest"
  /\ \/ (Goto("confirm") \/ Goto("mainmenu")) /\ UNCHANGED <<generalError, m_Caller>>
     \/ /\ job[1] = "DVD"
        /\ generalError' = TRUE
        /\ m_Caller' = IF job[2] = "hdd" THEN "mainmenu" ELSE m_Caller
        /\ mCounter' = "error"
  /\ UNCHANGED <<job, p_fcopy, retries, copyVars, detectorVars>>

(* Cases 3 and 502: start, go back, or edit the name with the keyboard     *)
(* (case 70), which leaves m_Caller behind.                                *)
Confirm ==
  /\ mCounter = "confirm"
  /\ \/ UNCHANGED m_Caller /\ (Goto("stop") \/ Goto("dest"))
     \/ m_Caller' = "confirm" /\ Goto("confirm")
  /\ UNCHANGED <<job, p_fcopy, retries, generalError, copyVars, detectorVars>>

(* Case 1100: the user turns "detect media" on or off; only turning it on  *)
(* does something, D2X_GUI_START_MEDIAD.                                   *)
Settings ==
  /\ \/ mCounter = "mainmenu" /\ Goto("settings") /\ UNCHANGED detectorVars
     \/ mCounter = "settings" /\ Goto("mainmenu") /\ UNCHANGED detectorVars
     \/ /\ Toggles /\ mCounter = "settings" /\ Goto("settings")
        /\ detect' = ~detect
        /\ IF detect' THEN CreateDetector ELSE UNCHANGED <<dStop, dHandle, dpc>>
  /\ UNCHANGED <<job, p_fcopy, retries, generalError, m_Caller, copyVars>>

-----------------------------------------------------------------------------
(* Cases 4 and 510, step by step.                                          *)

(* Mutant: StopThread() waits without having raised m_bStop.               *)
StopDetector_NoStop ==
  /\ mCounter = "stop"
  /\ mCounter' = "join"
  /\ UNCHANGED <<job, p_fcopy, retries, generalError, m_Caller, copyVars, detectorVars>>

(* StopThread() raises m_bStop.  Case 4 asks for the title of a DVD first  *)
(* and goes on when that fails.                                            *)
StopDetector ==
  /\ mCounter = "stop"
  /\ dStop' = TRUE
  /\ mCounter' = "join"
  /\ \/ UNCHANGED generalError
     \/ job = <<"DVD", "hdd">> /\ generalError' = TRUE
  /\ UNCHANGED <<job, p_fcopy, retries, m_Caller, copyVars, detect, dHandle,
                 dpc>>

(* Mutant: it does not wait.                                               *)
Joined_NoWait == TRUE

(* StopThread() waits for the thread behind the handle, if there is one.   *)
Joined == dHandle # NULL => dpc[dHandle] = "ended"

(* On the way to SMB, case 510 then leaves for the error page when the     *)
(* title of a DVD cannot be read and for a CD to be encoded as WAV.        *)
JoinDetector ==
  /\ mCounter = "join"
  /\ Joined
  /\ dHandle' = NULL
  /\ \/ mCounter' = "create" /\ UNCHANGED <<generalError, m_Caller>>
     \/ /\ job \in {<<"DVD", "smb">>, <<"CDDA", "smb">>}
        /\ generalError' = TRUE
        /\ m_Caller' = "mainmenu"
        /\ mCounter' = "error"
  /\ UNCHANGED <<job, p_fcopy, retries, copyVars, detect, dStop, dpc>>

(* p_fcopy = new D2Xfilecopy; p_fcopy->Create();                           *)
NewCopy ==
  /\ mCounter = "create"
  /\ \E o \in Obj :
       /\ Unused(o)
       /\ p_fcopy' = o
       /\ live' = [live EXCEPT ![o] = TRUE]
       /\ ftype' = [ftype EXCEPT ![o] = "UNKNOWN_"]
       /\ fsource' = [fsource EXCEPT ![o] = FALSE]
       /\ CreateCopyThread(o, "first")
  /\ mCounter' = "fcReset"
  /\ UNCHANGED <<job, retries, generalError, m_Caller, reportVars,
                 detectorVars>>

(* Mutant: FileCopy() does not reset b_finished.                           *)
FileCopyReset_Stale ==
  /\ mCounter = "fcReset"
  /\ copy_failed' = 0
  /\ mCounter' = "fcSource"
  /\ UNCHANGED <<job, p_fcopy, retries, generalError, m_Caller, b_finished, objVars,
                 threadVars, detectorVars>>

(* FileCopy(): the statics ...                                             *)
FileCopyReset ==
  /\ mCounter = "fcReset"
  /\ b_finished' = FALSE
  /\ copy_failed' = 0
  /\ mCounter' = "fcSource"
  /\ UNCHANGED <<job, p_fcopy, retries, generalError, m_Caller, objVars,
                 threadVars, detectorVars>>

(* ... then what to copy where ...                                         *)
FileCopySource ==
  /\ mCounter = "fcSource"
  /\ fsource' = [fsource EXCEPT ![p_fcopy] = TRUE]
  /\ mCounter' = "fcType"
  /\ UNCHANGED <<job, p_fcopy, retries, generalError, m_Caller, reportVars,
                 live, ftype, threadVars, detectorVars>>

(* ... then how, and the frame ends.                                       *)
FileCopyType ==
  /\ mCounter = "fcType"
  /\ ftype' = [ftype EXCEPT ![p_fcopy] = job[1]]
  /\ Goto("copying")
  /\ UNCHANGED <<job, p_fcopy, retries, generalError, m_Caller, reportVars,
                 live, fsource, threadVars, detectorVars>>

-----------------------------------------------------------------------------
(* While and after the copy.                                               *)

(* delete p_fcopy; p_fcopy = NULL.                                         *)
DeleteCopy ==
  /\ live' = [live EXCEPT ![p_fcopy] = FALSE]
  /\ ftype' = [ftype EXCEPT ![p_fcopy] = "UNKNOWN_"]
  /\ fsource' = [fsource EXCEPT ![p_fcopy] = FALSE]
  /\ p_fcopy' = NULL

(* Mutant: case 5 does not wait for b_finished.                            *)
CopyFinished_NoWait ==
  /\ mCounter = "copying"
  /\ Goto("post")
  /\ DeleteCopy
  /\ UNCHANGED <<job, retries, generalError, m_Caller, reportVars, threadVars,
                 detectorVars>>

(* Case 5: the copy has finished.  The settings may say not to ask.        *)
CopyFinished ==
  /\ mCounter = "copying"
  /\ b_finished
  /\ \/ copy_failed > 0 /\ job[1] # "CDDA" /\ Goto("retry") /\ UNCHANGED <<p_fcopy, objVars>>
     \/ Goto("post") /\ DeleteCopy
  /\ UNCHANGED <<job, retries, generalError, m_Caller, reportVars, threadVars,
                 detectorVars>>

(* Mutant: giving up takes one retry back instead of all.                  *)
GiveUp_Decrement ==
  /\ mCounter = "retry"
  /\ retries' = retries - 1
  /\ DeleteCopy
  /\ Goto("post")
  /\ UNCHANGED <<job, generalError, m_Caller, reportVars, threadVars, detectorVars>>

(* Case 8, X: give up.                                                     *)
GiveUp ==
  /\ mCounter = "retry"
  /\ retries' = 0
  /\ DeleteCopy
  /\ Goto("post")
  /\ UNCHANGED <<job, generalError, m_Caller, reportVars, threadVars, detectorVars>>

(* Case 8: p_fcopy->Create(), on A or, while automatic retries are left,   *)
(* on no key at all.                                                       *)
AutoRetry == retries <= AutoCopyRetries
Retry ==
  /\ mCounter = "retry"
  /\ CreateCopyThread(p_fcopy, "retry")
  /\ mCounter' = "cfType"
  /\ UNCHANGED <<job, p_fcopy, retries, generalError, m_Caller, reportVars,
                 objVars, detectorVars>>

(* CopyFailed(): what to do ...                                            *)
CopyFailedType ==
  /\ mCounter = "cfType"
  /\ ftype' = [ftype EXCEPT ![p_fcopy] = "COPYFAILED"]
  /\ mCounter' = "cfReset"
  /\ UNCHANGED <<job, p_fcopy, retries, generalError, m_Caller, reportVars,
                 live, fsource, threadVars, detectorVars>>

(* Mutant: CopyFailed() does not reset b_finished.                         *)
CopyFailedReset_Stale ==
  /\ mCounter = "cfReset"
  /\ retries' = IF retries = RetryCap THEN retries ELSE retries + 1
  /\ Goto("copying")
  /\ UNCHANGED <<job, p_fcopy, generalError, m_Caller, reportVars, objVars, threadVars,
                 detectorVars>>

(* ... then the statics, and the frame ends.                               *)
CopyFailedReset ==
  /\ mCounter = "cfReset"
  /\ b_finished' = FALSE
  /\ retries' = IF retries = RetryCap THEN retries ELSE retries + 1
  /\ Goto("copying")
  /\ UNCHANGED <<job, p_fcopy, generalError, m_Caller, copy_failed, objVars,
                 threadVars, detectorVars>>

(* Mutant: case 6 does not start detection again.                          *)
PostProcess_NoDetector ==
  /\ mCounter = "post"
  /\ Goto("report")
  /\ UNCHANGED <<job, p_fcopy, retries, generalError, m_Caller, copyVars, detectorVars>>

(* Case 6: start detection again and show the report, or shut down if the  *)
(* settings say so.                                                        *)
PostProcess ==
  /\ mCounter = "post"
  /\ \/ CreateDetector /\ Goto("report") /\ UNCHANGED detect
     \/ mCounter' = "off" /\ UNCHANGED detectorVars
  /\ UNCHANGED <<job, p_fcopy, retries, generalError, m_Caller, copyVars>>

(* Case 7: leave the report, or look at the log (case 600) and come back.  *)
Report ==
  /\ mCounter = "report"
  /\ \/ Goto("mainmenu") /\ UNCHANGED m_Caller
     \/ Goto("report") /\ m_Caller' = "report"
  /\ UNCHANGED <<job, p_fcopy, retries, generalError, copyVars, detectorVars>>

(* Case 1000: the error page goes to whatever m_Caller was left at.        *)
LeaveError ==
  /\ mCounter = "error"
  /\ generalError' = FALSE
  /\ mCounter' = m_Caller
  /\ UNCHANGED <<job, p_fcopy, retries, m_Caller, copyVars, detectorVars>>

(* A frame in which the screen waits still ends with the check for an      *)
(* error.                                                                  *)
ErrorPage ==
  /\ \/ mCounter \in {"mainmenu", "settings", "dest", "confirm", "copying", "report",
                       "nowhere"}
     \/ mCounter = "retry" /\ retries > AutoCopyRetries
  /\ generalError
  /\ Goto("error")
  /\ UNCHANGED <<job, p_fcopy, retries, generalError, m_Caller, copyVars,
                 detectorVars>>

-----------------------------------------------------------------------------
(* The copy thread: CThread::staticThread over D2Xfilecopy.                *)

(* Process() switches on ftype; UNKNOWN_ is its default branch, FileUDF.   *)
PickJob(t) ==
  /\ tpc[t] = "created"
  /\ tjob' = [tjob EXCEPT ![t] = ftype[tobj[t]]]
  /\ tpc' = [tpc EXCEPT ![t] = "copying"]
  /\ UNCHANGED <<tobj, tkind, reportVars, objVars, wizardVars, detectorVars>>

(* A file of the disc cannot be copied; with no source set there is no     *)
(* file.                                                                   *)
FileFails(t) ==
  /\ tpc[t] = "copying"
  /\ tjob[t] # "COPYFAILED"
  /\ fsource[tobj[t]]
  /\ copy_failed < MaxFailed
  /\ copy_failed' = copy_failed + 1
  /\ UNCHANGED <<b_finished, objVars, threadVars, wizardVars, detectorVars>>

(* D2XfileDVD cannot authenticate the disc and flags the error.            *)
AuthFails(t) ==
  /\ tpc[t] = "copying"
  /\ tjob[t] = "DVD"
  /\ generalError' = TRUE
  /\ UNCHANGED <<mCounter, job, p_fcopy, retries, m_Caller, copyVars,
                 detectorVars>>

(* The end of the work; a retry has recounted what still fails.            *)
CopyDone(t) ==
  /\ tpc[t] = "copying"
  /\ IF tjob[t] = "COPYFAILED" THEN copy_failed' \in 0..copy_failed
                               ELSE UNCHANGED copy_failed
  /\ tpc' = [tpc EXCEPT ![t] = "leaving"]
  /\ UNCHANGED <<b_finished, objVars, tobj, tjob, tkind, wizardVars, detectorVars>>

(* The end of Process().                                                   *)
ForgetType(t) ==
  /\ tpc[t] = "leaving"
  /\ ftype' = [ftype EXCEPT ![tobj[t]] = "UNKNOWN_"]
  /\ tpc' = [tpc EXCEPT ![t] = "exit"]
  /\ UNCHANGED <<reportVars, live, fsource, tobj, tjob, tkind, wizardVars, detectorVars>>

(* Mutant: OnExit() does not report the end.                               *)
OnExit_Silent(t) ==
  /\ tpc[t] = "exit"
  /\ tpc' = [tpc EXCEPT ![t] = "stopping"]
  /\ UNCHANGED <<reportVars, objVars, tobj, tjob, tkind, wizardVars, detectorVars>>

(* OnExit().                                                               *)
OnExit(t) ==
  /\ tpc[t] = "exit"
  /\ b_finished' = TRUE
  /\ tpc' = [tpc EXCEPT ![t] = "stopping"]
  /\ UNCHANGED <<copy_failed, objVars, tobj, tjob, tkind, wizardVars, detectorVars>>

(* pThread->m_bStopped = true and ExitThread: by now the object may have   *)
(* been deleted.                                                           *)
ThreadEnds(t) ==
  /\ tpc[t] = "stopping"
  /\ tpc' = [tpc EXCEPT ![t] = "ended"]
  /\ tobj' = [tobj EXCEPT ![t] = NULL]
  /\ tjob' = [tjob EXCEPT ![t] = "none"]
  /\ tkind' = [tkind EXCEPT ![t] = "first"]
  /\ UNCHANGED <<reportVars, objVars, wizardVars, detectorVars>>

CopyThread(t) ==
  \/ PickJob(t) \/ FileFails(t) \/ AuthFails(t) \/ CopyDone(t)
  \/ ForgetType(t) \/ OnExit(t) \/ ThreadEnds(t)

-----------------------------------------------------------------------------
(* The tray thread: CThread::staticThread over D2Xdstatus.  It remounts D: *)
(* in OnStartup() and reads the drive in Process(), "probe"; between two    *)
(* reads it asks whether to go on, "loop".                                  *)
DetectorStep(d) ==
  /\ \/ dpc[d] = "probe" /\ dpc' = [dpc EXCEPT ![d] = "loop"]
     \/ dpc[d] = "loop" /\ ~dStop /\ detect /\ dpc' = [dpc EXCEPT ![d] = "probe"]
     \/ dpc[d] = "loop" /\ (dStop \/ ~detect) /\ dpc' = [dpc EXCEPT ![d] = "ended"]
  /\ UNCHANGED <<detect, dStop, dHandle, wizardVars, copyVars>>

-----------------------------------------------------------------------------
Init ==
  /\ mCounter = "mainmenu"
  /\ job \in Jobs
  /\ p_fcopy = NULL
  /\ retries = 0
  /\ generalError = FALSE
  /\ m_Caller \in {"mainmenu", "nowhere"}   \* never initialised
  /\ b_finished = FALSE /\ copy_failed = 0
  /\ live = [o \in Obj |-> FALSE]
  /\ ftype = [o \in Obj |-> "UNKNOWN_"]
  /\ fsource = [o \in Obj |-> FALSE]
  /\ tpc = [t \in Thr |-> "ended"]
  /\ tobj = [t \in Thr |-> NULL]
  /\ tjob = [t \in Thr |-> "none"]
  /\ tkind = [t \in Thr |-> "first"]
  /\ detect \in BOOLEAN
  /\ dStop = FALSE
  /\ \E d \in Det :   \* p_dstatus->Create() in Initialize()
       dHandle = d /\ dpc = [e \in Det |-> IF e = d THEN "probe" ELSE "ended"]

(* Frames that need a key, and frames that do not.                         *)
UserStep == ChooseCopy \/ ChooseDest \/ Confirm \/ Settings \/ GiveUp \/ Retry
              \/ Report \/ LeaveError
MainStep ==
  \/ StopDetector \/ JoinDetector \/ NewCopy
  \/ FileCopyReset \/ FileCopySource \/ FileCopyType
  \/ CopyFinished \/ CopyFailedType \/ CopyFailedReset \/ PostProcess \/ ErrorPage

Next ==
  \/ UserStep
  \/ MainStep
  \/ \E t \in Thr : CopyThread(t)
  \/ \E d \in Det : DetectorStep(d)

(* The main loop runs a frame again and again and the kernel schedules     *)
(* both threads; a copy comes to its end (FileFails and AuthFails are not  *)
(* demanded).  Nobody has to press a key.  All fairness is weak: once      *)
(* enabled, each of these steps stays enabled until it is taken.           *)
Fairness ==
  /\ WF_vars(MainStep \/ (AutoRetry /\ Retry))
  /\ \A t \in Thr : WF_vars(PickJob(t) \/ CopyDone(t) \/ ForgetType(t) \/ OnExit(t)
                              \/ ThreadEnds(t))
  /\ \A d \in Det : WF_vars(DetectorStep(d))

Spec == Init /\ [][Next]_vars /\ Fairness
-----------------------------------------------------------------------------
(* Properties.                                                             *)

(* From Create() until OnExit() has set b_finished.                        *)
Busy(t) == tpc[t] \in {"created", "copying", "leaving", "exit"}

(* The statics of D2Xfilecopy serve one copy at a time: no second copy     *)
(* thread runs before the first has finished.                              *)
OneCopyAtATime == \A t, u \in Thr : Busy(t) /\ Busy(u) => t = u

(* Cases 5 and 8 delete p_fcopy, never while its thread still works on it. *)
NoUseAfterDelete == \A t \in Thr : Busy(t) => live[tobj[t]]

(* "stop autodetection" (dvd2xbox.cpp, case 4): while a copy thread reads  *)
(* the disc, no tray thread remounts the drive or probes the disc.         *)
DetectorQuiet ==
  \A t \in Thr, d \in Det : tpc[t] = "copying" => dpc[d] = "ended"

(* From the moment the wizard has seen the end of a copy until the next    *)
(* one is set up, the numbers of the report stay what they were.           *)
Reporting == {"retry", "post", "report", "mainmenu", "dest", "confirm"}
ReportStable ==
  [][(mCounter \in Reporting /\ mCounter' \in Reporting) => UNCHANGED copy_failed]_vars

(* A copy thread that first runs after FileCopy() or CopyFailed() has      *)
(* returned is seen to finish: case 5 is left.                             *)
LateStartFinishes ==
  (mCounter = "copying" /\ \E t \in Thr : tpc[t] = "created" /\ tobj[t] = p_fcopy)
    ~> (mCounter \in {"retry", "post"})

(* An error some thread has flagged gets its page, unless the console is   *)
(* shut down first.                                                        *)
ErrorShown == generalError ~> (mCounter \in {"error", "off"})

(* StopThread() in case 4 or 510 always returns, so the wizard goes on to  *)
(* the copy or to the error page: nothing lowers m_bStop while it waits.   *)
StopReturns == (mCounter = "stop") ~> (mCounter \in {"fcReset", "error"})

(* "start autodetection again" (dvd2xbox.cpp, case 6): whenever the main   *)
(* menu is shown and media detection is on, a tray thread is there to see  *)
(* the next disc.                                                          *)
MenuHasDetector ==
  mCounter = "mainmenu" /\ detect => \E d \in Det : dpc[d] # "ended"

(* "Retry mode to copy failed files without copy the whole disc again"     *)
(* (README.md): a thread the retry dialog started does nothing but retry.  *)
RetryOnlyFailed ==
  \A t \in Thr : tkind[t] = "retry" => tjob[t] \in {"none", "COPYFAILED"}
====
