----------------------------- MODULE DriveStatus -----------------------------
(***************************************************************************)
(* What the program knows of the disc (D2Xdstatus): a thread asks for the  *)
(* state of the tray five times a second, tells the main loop what it is,  *)
(* sets the light, and reads a new disc to tell its type.  The main loop   *)
(* stops the thread for a copy and starts it afterwards, switches it on    *)
(* and off, may read the disc itself while it is off, sets the light, and  *)
(* at last waits for the light before it gives up the console (StopApp).   *)
(*                                                                         *)
(* The tray, moved by eject buttons, by the user and by the program, is    *)
(* the environment.  Left out: the status text and the size of the disc,   *)
(* the two threads there are when detection is switched off and on before  *)
(* the first has seen it, and a main loop that reads the disc before then. *)
(***************************************************************************)
EXTENDS SmartLight

CONSTANTS
  Kinds,      \* kinds of discs: GAME, DVD and so on
  MaxMoves,   \* BOUND on the movements of the tray, without and with the light
  MaxChoices  \* BOUND on the statuses set, discs read and switches of the
              \* detection by the main loop, without and with the light

NoDisc == "none"       \* type = 0, and an empty tray
UNKNOWN_ == "unknown"

ASSUME DriveStatusAssumption ==
  /\ {"main", "drive"} \subseteq Callers
  /\ {"opentray", "shutdown"} \subseteq Statuses
  /\ NoDisc \notin Kinds
  /\ {MaxMoves, MaxChoices} \subseteq [BOOLEAN -> Nat]

VARIABLES
  tray,               \* "open", "moving", "empty", "disc"
  disc,               \* what lies in it
  m_dwLastTrayState,
  type, mediaReady,   \* what the main loop is told
  drive,              \* where the thread is: "off", "head", "asleep", "open", "empty",
                      \* "disc", "light", "light new", "detect", "reading"
  stopDrive,          \* its m_bStop
  detect_media_change,
  main,               \* where the main loop is
  moves, choices,
  touched,            \* the tray moved since the disc began to be read
  unseen,             \* the disc left since the thread saw the tray open or moving
  byHand              \* the main loop read the disc (unseen, byHand: properties only)

trayVars  == <<tray, disc, moves>>
toldVars  == <<m_dwLastTrayState, type, mediaReady>>
checkVars == <<touched, unseen, byHand>>
switches  == <<stopDrive, detect_media_change, choices>>
mainVars  == <<main, switches>>
others    == <<lightVars, trayVars, toldVars>>
vars      == <<others, drive, mainVars, checkVars>>

Trays  == {"open", "moving", "empty", "disc"}
Alive  == main \notin {"stopped", "died"}

DriveTypeOK ==
  /\ tray \in Trays /\ disc \in Kinds \cup {NoDisc}
  /\ m_dwLastTrayState \in Trays \cup {"none"}
  /\ type \in Kinds \cup {NoDisc, UNKNOWN_}
  /\ mediaReady \in {"open", "not ready", "no media", "disc"}
  /\ drive \in {"off", "head", "asleep", "open", "empty", "disc", "light", "light new",
                "detect", "reading"}
  /\ main \in {"idle", "reading", "joining drive", "copying", "shutdown", "waiting",
               "joining light", "stopped", "died"}
  /\ {stopDrive, detect_media_change, touched, unseen, byHand} \subseteq BOOLEAN
  /\ moves \in 0..MaxMoves[enableSmartXXRGB]
  /\ choices \in 0..MaxChoices[enableSmartXXRGB]

TypeOK == LightTypeOK /\ DriveTypeOK

Init ==
  /\ LightInit
  /\ tray \in Trays /\ disc \in Kinds \cup {NoDisc}
  /\ tray = "disc" <=> disc # NoDisc
  /\ m_dwLastTrayState = "none" /\ type = NoDisc /\ mediaReady = "open"
  /\ drive = "head" /\ stopDrive = FALSE /\ detect_media_change \in BOOLEAN
  /\ main = "idle" /\ moves = 0 /\ choices = 0
  /\ touched = FALSE /\ unseen = FALSE /\ byHand = FALSE

-----------------------------------------------------------------------------
(* The tray.                                                               *)

(* It opens or closes; what is in it is changed while it is open.          *)
Follows(from, to) ==
  IF from = "moving" THEN to = "open" \/ to = IF disc = NoDisc THEN "empty" ELSE "disc"
  ELSE to = "moving"

TrayMoves ==
  /\ Alive /\ moves < MaxMoves[enableSmartXXRGB]
  /\ tray' \in Trays /\ Follows(tray, tray')
  /\ IF tray = "open" THEN disc' \in Kinds \cup {NoDisc} ELSE UNCHANGED disc
  /\ moves' = moves + 1
  /\ touched' = TRUE
  /\ unseen' = (unseen \/ tray = "disc")
  /\ UNCHANGED <<lightVars, toldVars, drive, mainVars, byHand>>

-----------------------------------------------------------------------------
(* The thread.                                                             *)

DriveLoops ==
  /\ Alive /\ drive = "head"
  /\ drive' = IF ~stopDrive /\ detect_media_change THEN "asleep" ELSE "off"
  /\ UNCHANGED <<others, mainVars, checkVars>>

(* Mutant: a moving tray is not remembered.                                *)
GetTrayState_NotMoving(state, last) ==
  IF state = "moving" THEN [answer |-> "not ready", last |-> last]
  ELSE IF state = last \/ (state = "empty" /\ last = "disc")
       THEN [answer |-> "ready", last |-> last]
       ELSE [answer |-> state, last |-> state]

(* Mutant: a tray that opens is remembered, and taken as ready.            *)
GetTrayState_OpenIsReady(state, last) ==
  IF state = "moving" THEN [answer |-> "not ready", last |-> state]
  ELSE IF state = last \/ (state = "empty" /\ last = "disc")
       THEN [answer |-> "ready", last |-> last]
       ELSE [answer |-> IF state = "open" THEN "ready" ELSE state, last |-> state]

(* A state is answered once; a tray found empty that held a disc, never.   *)
GetTrayState(state, last) ==
  IF state = "moving" THEN [answer |-> "not ready", last |-> state]
  ELSE IF state = last \/ (state = "empty" /\ last = "disc")
       THEN [answer |-> "ready", last |-> last]
       ELSE [answer |-> state, last |-> state]

(* What GetDriveState tells the main loop of an answer; it has no type for *)
(* a disc before it is read.                                               *)
Told(answer) ==
  [mediaReady |-> CASE answer = "empty" -> "no media"
                    [] answer = "disc"  -> "not ready"
                    [] answer = "ready" -> mediaReady
                    [] OTHER -> answer,
   type |-> IF answer \in {"open", "not ready"} THEN NoDisc ELSE type]

(* GetDriveState, up to the light.                                         *)
Poll ==
  LET got == GetTrayState(tray, m_dwLastTrayState)
  IN  /\ Alive /\ drive = "asleep"
      /\ m_dwLastTrayState' = got.last
      /\ mediaReady' = Told(got.answer).mediaReady /\ type' = Told(got.answer).type
      /\ drive' = IF got.answer \in {"open", "empty", "disc"} THEN got.answer ELSE "head"
      /\ unseen' = (unseen /\ tray \notin {"open", "moving"})
      /\ byHand' = (byHand /\ got.answer \in {"ready", "empty"})
      /\ UNCHANGED <<lightVars, trayVars, mainVars, touched>>

(* SetRGBStatus("opentray") or SetLastRGBStatus.                           *)
DriveAsks ==
  /\ Alive
  /\ \/ drive = "open" /\ Asks("drive", "opentray") /\ drive' = "light"
     \/ drive = "empty" /\ Asks("drive", strLastStatus) /\ drive' = "light"
     \/ drive = "disc" /\ Asks("drive", strLastStatus) /\ drive' = "light new"
  /\ UNCHANGED <<frame, m_bStop, trayVars, toldVars, mainVars, checkVars>>

DriveAsked ==
  /\ Alive /\ call["drive"] = Idle
  /\ \/ drive = "light" /\ drive' = "head"
     \/ drive = "light new" /\ drive' = "detect"
  /\ UNCHANGED <<others, mainVars, checkVars>>

(* DetectMedia; a disc that goes away while it is read may be anything, or *)
(* nothing that GetCdInfo() finds, and then the program dies.              *)
DetectBegins ==
  /\ Alive /\ drive = "detect" /\ drive' = "reading"
  /\ touched' = FALSE
  /\ UNCHANGED <<others, mainVars, unseen, byHand>>

Steady == tray = "disc" /\ ~touched

Detected ==
  /\ type' \in IF Steady THEN {disc} ELSE Kinds \cup {UNKNOWN_}
  /\ mediaReady' = "disc"

Dies == ~Steady /\ main' = "died"

DetectEnds ==
  /\ Alive /\ drive = "reading" /\ drive' = "head"
  /\ \/ Detected /\ UNCHANGED main
     \/ Dies /\ UNCHANGED <<type, mediaReady>>
  /\ UNCHANGED <<lightVars, trayVars, m_dwLastTrayState, switches, checkVars>>

-----------------------------------------------------------------------------
(* The main loop.                                                          *)

Chooses == choices < MaxChoices[enableSmartXXRGB] /\ choices' = choices + 1

(* BACK in the main menu, while detection is off (case 10).                *)
ReadBegins ==
  /\ main = "idle" /\ call["main"] = Idle /\ main' = "reading"
  /\ ~detect_media_change /\ drive = "off" /\ Chooses
  /\ touched' = FALSE
  /\ UNCHANGED <<others, drive, stopDrive, detect_media_change, unseen, byHand>>

ReadEnds ==
  /\ main = "reading"
  /\ \/ Detected /\ byHand' = TRUE /\ main' = "idle"
     \/ Dies /\ UNCHANGED <<type, mediaReady, byHand>>
  /\ UNCHANGED <<lightVars, trayVars, m_dwLastTrayState, drive, switches, touched,
                 unseen>>

(* A status of the screens, such as "general".                             *)
StatusSet ==
  /\ main = "idle" /\ Chooses
  /\ \E status \in Statuses \ {"opentray", "shutdown"} : Asks("main", status)
  /\ UNCHANGED <<frame, m_bStop, trayVars, toldVars, drive, main, stopDrive,
                 detect_media_change, checkVars>>

(* The copy of a disc (cases 5 and 510): StopThread() ...                  *)
CopyBegins ==
  /\ main = "idle" /\ call["main"] = Idle /\ mediaReady = "disc"
  /\ main' = "joining drive" /\ stopDrive' = TRUE
  /\ UNCHANGED <<others, drive, detect_media_change, choices, checkVars>>

DriveJoined ==
  /\ main = "joining drive" /\ drive = "off" /\ main' = "copying"
  /\ UNCHANGED <<others, drive, switches, checkVars>>

(* ... and Create(), case 6.                                               *)
CopyEnds ==
  /\ main = "copying" /\ main' = "idle"
  /\ drive' = "head" /\ stopDrive' = FALSE
  /\ UNCHANGED <<others, detect_media_change, choices, checkVars>>

(* The setting; switching it on calls Create().                            *)
SwitchOff ==
  /\ main = "idle" /\ call["main"] = Idle
  /\ detect_media_change /\ detect_media_change' = FALSE
  /\ Chooses
  /\ UNCHANGED <<others, drive, main, stopDrive, checkVars>>

SwitchOn ==
  /\ main = "idle" /\ call["main"] = Idle
  /\ ~detect_media_change /\ detect_media_change' = TRUE
  /\ drive = "off" /\ drive' = "head" /\ stopDrive' = FALSE
  /\ Chooses
  /\ UNCHANGED <<others, main, checkVars>>

(* "Boot to dash", "Shutdown" and the like: the light, then StopApp().     *)
ShutDown ==
  /\ main = "idle" /\ main' = "shutdown"
  /\ Asks("main", "shutdown")
  /\ UNCHANGED <<frame, m_bStop, trayVars, toldVars, drive, stopDrive, detect_media_change,
                 choices, checkVars>>

StopAppBegins ==
  /\ main = "shutdown" /\ call["main"] = Idle /\ main' = "waiting"
  /\ UNCHANGED <<others, drive, switches, checkVars>>

(* IsTransitionDone, if there is a light; then StopThread() of the light.  *)
TransitionDone ==
  /\ main = "waiting"
  /\ enableSmartXXRGB => owner = "free" /\ bTransitionDone
  /\ main' = "joining light" /\ m_bStop' = TRUE
  /\ UNCHANGED <<statusVars, strLastTransition, bTransitionDone, owner, call, frame,
                 colourVars, trayVars, toldVars, drive, switches, checkVars>>

TransitionAwaited ==
  main = "waiting" /\ enableSmartXXRGB /\ ~bTransitionDone /\ UNCHANGED vars

LightJoined ==
  /\ main = "joining light" /\ frame = "off" /\ main' = "stopped"
  /\ UNCHANGED <<others, drive, switches, checkVars>>

-----------------------------------------------------------------------------
rest == <<trayVars, toldVars, drive, mainVars, checkVars>>

LightSteps == Alive /\ LightNext /\ UNCHANGED rest

DriveSteps ==
  DriveLoops \/ Poll \/ DriveAsks \/ DriveAsked \/ DetectBegins \/ DetectEnds

(* What the main loop does without being asked.                            *)
MainSteps == ReadEnds \/ DriveJoined \/ StopAppBegins \/ TransitionDone \/ LightJoined

Choices ==
  \/ ReadBegins \/ StatusSet \/ CopyBegins \/ CopyEnds
  \/ SwitchOff \/ SwitchOn \/ ShutDown

(* The console restarts, or the program died.                              *)
Stopped == ~Alive /\ UNCHANGED vars

Next ==
  \/ TrayMoves \/ LightSteps \/ DriveSteps \/ MainSteps \/ Choices
  \/ TransitionAwaited \/ Stopped

(* Each thread goes on, the light's with the lowest priority only when the *)
(* others sleep, which they all do; nobody has to move the tray, to press  *)
(* a button, or to end a copy.                                             *)
Fairness ==
  /\ WF_vars(Alive /\ (LightStarts \/ LightStarted \/ Frame) /\ UNCHANGED rest)
  /\ \A c \in Callers : WF_vars(Alive /\ Set(c) /\ UNCHANGED rest)
  /\ WF_vars(DriveSteps)
  /\ WF_vars(MainSteps)

Spec == Init /\ [][Next]_vars /\ Fairness

-----------------------------------------------------------------------------
(* Properties.                                                             *)

(* Between two polls the type told is that of the disc in the tray: a game *)
(* is never copied as a film.  Excepted are an exchange the thread slept   *)
(* or read through, and a disc read by hand.                               *)
TypeOfDisc ==
  drive \in {"head", "asleep"} /\ tray = "disc" /\ m_dwLastTrayState = "disc"
    /\ ~unseen /\ ~byHand
  => type = disc /\ mediaReady = "disc"

(* A tray that stays open is told as open in the end, however the thread   *)
(* was stopped and started, unless a disc was read by hand since.          *)
TrayOpeningTold ==
  <>[](Alive /\ drive # "off" /\ tray = "open" /\ ~byHand)
    => <>[](mediaReady = "open" /\ type = NoDisc)

(* Giving up the console does not wait for the light for ever, whatever    *)
(* the drive's thread sets it to meanwhile, unless that is a transition    *)
(* which has no end: "switch", or a misspelt one.                          *)
StopAppReturns ==
  main = "waiting" ~> ~Alive \/ Transition \notin Transitions \ {"switch"}
====
