------------------------------ MODULE SmartLight ------------------------------
(***************************************************************************)
(* The SmartXX RGB light (D2XSmartXXRGB): a thread that shows the          *)
(* transition of the status it was set to, frame by frame, and the calls   *)
(* that set the status from other threads.  A call is three steps, a frame *)
(* two or three, since the thread takes no lock when it reads s_RGBs and   *)
(* strLastTransition.  A colour is how many steps it is away from the last *)
(* one of the transition.                                                  *)
(*                                                                         *)
(* Left out: torn reads of s_RGBs, which is taken as written in one step;  *)
(* transitions without a time; a fade whose two colours are the same,      *)
(* which divides by zero; the replacement of the light by the settings     *)
(* menu; SetRGBState().                                                    *)
(***************************************************************************)
EXTENDS Naturals

CONSTANTS
  Callers,    \* the threads that set the status; "light" is the light's own
  Statuses,   \* the statuses
  Maps,       \* what SmartXXRGB.xml may say: functions from statuses to transitions
  MaxSteps    \* BOUND on the steps of a fade

Transitions == {"none", "switch", "blink", "fade", "fadeloop", "faderepeat"}
NoStatus    == "NULL"
NoMap       == [s \in {} |-> "none"]
Idle        == "idle"

ASSUME SmartLightAssumption ==
  /\ "light" \in Callers /\ "free" \notin Callers
  /\ "general" \in Statuses /\ NoStatus \notin Statuses /\ Idle \notin Statuses
  /\ \A m \in Maps : DOMAIN m \subseteq Statuses /\ \A s \in DOMAIN m : m[s] \in STRING
  /\ MaxSteps \in Nat \ {0}

VARIABLES
  enableSmartXXRGB,  \* the setting: whether there is a light
  map_rgb,
  strCurrentStatus, strLastStatus,
  s_RGBs,            \* the status whose colours and transition they are
  strLastTransition,
  bTransitionDone,
  owner,             \* of m_criticalSection
  call,              \* the status a caller is setting, or Idle
  frame,             \* where the light's thread is: "start", "general", "look", "done",
                     \* "off", or the transition whose frame it is in
  togo,              \* steps from the colour shown to the second one of s_RGBs
  ripe,              \* dwFrameTime has reached the time of a step
  bRepeat,
  m_bStop            \* of the light

statusVars == <<enableSmartXXRGB, map_rgb, strCurrentStatus, strLastStatus, s_RGBs>>
colourVars == <<togo, ripe, bRepeat>>
lightVars  == <<statusVars, strLastTransition, bTransitionDone, owner, call, frame,
                colourVars, m_bStop>>

LightTypeOK ==
  /\ map_rgb \in Maps \cup {NoMap}
  /\ {strCurrentStatus, strLastStatus, s_RGBs} \subseteq Statuses \cup {NoStatus}
  /\ strLastTransition \in Transitions \cup {NoStatus, ""}
  /\ {enableSmartXXRGB, bTransitionDone, ripe, bRepeat, m_bStop} \subseteq BOOLEAN
  /\ owner \in Callers \cup {"free"}
  /\ call \in [Callers -> Statuses \cup {Idle}]
  /\ frame \in Transitions \cup {"start", "general", "look", "done", "off"}
  /\ togo \in 0..MaxSteps

LightInit ==
  /\ enableSmartXXRGB \in BOOLEAN
  /\ IF enableSmartXXRGB THEN map_rgb \in Maps /\ frame = "start"
     ELSE map_rgb = NoMap /\ frame = "off"
  /\ strCurrentStatus = NoStatus /\ strLastStatus = NoStatus
  /\ s_RGBs = NoStatus /\ strLastTransition = NoStatus
  /\ bTransitionDone = TRUE
  /\ owner = "free" /\ call = [c \in Callers |-> Idle]
  /\ togo = 0 /\ ripe = TRUE /\ bRepeat = FALSE
  /\ m_bStop = FALSE

-----------------------------------------------------------------------------
(* SetRGBStatus.                                                           *)

(* The transition is not done; nothing happens for an unknown status.      *)
Asks(c, status) ==
  /\ call[c] = Idle
  /\ IF status \in DOMAIN map_rgb
     THEN /\ owner = "free" /\ bTransitionDone' = FALSE
          /\ call' = [call EXCEPT ![c] = status]
     ELSE UNCHANGED <<bTransitionDone, call>>
  /\ UNCHANGED <<statusVars, strLastTransition, owner, colourVars>>

(* Mutant: the transition shown last is not forgotten.                     *)
Forgotten_Kept == strLastTransition

Forgotten == ""

(* Into the critical section ...                                           *)
SetEnters(c) ==
  /\ call[c] # Idle /\ owner = "free"
  /\ owner' = c
  /\ strLastStatus' = strCurrentStatus
  /\ strCurrentStatus' = call[c]
  /\ strLastTransition' = Forgotten
  /\ UNCHANGED <<enableSmartXXRGB, map_rgb, s_RGBs, bTransitionDone, call, frame,
                 colourVars, m_bStop>>

(* ... and out of it, with other colours and another time; a fade that has *)
(* begun meanwhile goes on from where it is.                               *)
SetLeaves(c) ==
  /\ owner = c
  /\ owner' = "free"
  /\ s_RGBs' = call[c]
  /\ call' = [call EXCEPT ![c] = Idle]
  /\ ripe' \in BOOLEAN
  /\ IF strLastTransition = "" THEN UNCHANGED togo ELSE togo' \in 0..MaxSteps
  /\ UNCHANGED <<enableSmartXXRGB, map_rgb, strCurrentStatus, strLastStatus,
                 strLastTransition, bTransitionDone, frame, bRepeat, m_bStop>>

-----------------------------------------------------------------------------
(* The light's thread.                                                     *)

Transition == IF s_RGBs \in DOMAIN map_rgb THEN map_rgb[s_RGBs] ELSE NoStatus

(* OnStartup.                                                              *)
LightStarts ==
  /\ frame = "start" /\ frame' = "general"
  /\ Asks("light", "general") /\ UNCHANGED m_bStop

LightStarted ==
  /\ frame = "general" /\ call["light"] = Idle
  /\ frame' = "look"
  /\ UNCHANGED <<statusVars, strLastTransition, bTransitionDone, owner, call,
                 colourVars, m_bStop>>

(* A frame: which branch it takes, if any.  "none" and "switch" are not    *)
(* begun twice.                                                            *)
Look ==
  /\ frame = "look" /\ ~m_bStop
  /\ Transition \in Transitions
  /\ Transition \in {"none", "switch"} => strLastTransition # Transition
  /\ frame' = Transition
  /\ UNCHANGED <<statusVars, strLastTransition, bTransitionDone, owner, call,
                 colourVars, m_bStop>>

(* A branch goes on, or has come to SetTransitionDone(true).               *)
Goes(begun, done) ==
  /\ strLastTransition' = begun
  /\ frame' = IF done THEN "done" ELSE "look"
  /\ UNCHANGED <<statusVars, bTransitionDone, owner, call, m_bStop>>

(* A frame that comes too early for a step sleeps until the next is not.   *)
Steps == ripe' = ~ripe

None ==
  /\ frame = "none" /\ Goes("none", TRUE)
  /\ ripe' = TRUE /\ UNCHANGED <<togo, bRepeat>>

(* Done only in a frame that comes before the time has passed.             *)
Switch ==
  /\ frame = "switch" /\ Goes(IF ripe THEN "switch" ELSE strLastTransition, ~ripe)
  /\ ripe' = TRUE /\ UNCHANGED <<togo, bRepeat>>

Blink ==
  /\ frame = "blink" /\ Goes("blink", ripe)
  /\ Steps /\ UNCHANGED <<togo, bRepeat>>

(* Mutant: the colour goes on past the second one.                         *)
Faded_NoEnd ==
  LET from == IF strLastTransition # frame THEN MaxSteps ELSE togo
  IN  IF ripe THEN from - 1 ELSE from

(* Steps to go after a frame of "fade" or "fadeloop".                      *)
Faded ==
  LET from == IF strLastTransition # frame THEN MaxSteps ELSE togo
  IN  IF ripe /\ from > 0 THEN from - 1 ELSE from

(* The loop begins again when it is at its end.                            *)
Fade ==
  /\ frame \in {"fade", "fadeloop"}
  /\ togo' = Faded
  /\ Goes(IF frame = "fadeloop" /\ ripe /\ Faded = 0 THEN "" ELSE frame, Faded = 0)
  /\ Steps /\ UNCHANGED bRepeat

(* Between the colours, there and back; bRepeat is the way to the second.  *)
FadeRepeat ==
  LET from   == IF strLastTransition = "faderepeat" THEN togo
                ELSE IF bRepeat THEN MaxSteps ELSE 0
      target == IF bRepeat THEN 0 ELSE MaxSteps
      to     == IF ~ripe \/ from = target THEN from
                ELSE IF bRepeat THEN from - 1 ELSE from + 1
      turns  == ripe /\ to = target
  IN  /\ frame = "faderepeat"
      /\ togo' = to /\ bRepeat' = (bRepeat # turns)
      /\ Goes(IF turns THEN "" ELSE "faderepeat", to = 0)
      /\ Steps

Done ==
  /\ frame = "done" /\ owner = "free"
  /\ bTransitionDone' = TRUE /\ frame' = "look"
  /\ UNCHANGED <<statusVars, strLastTransition, owner, call, colourVars, m_bStop>>

LightEnds ==
  /\ frame = "look" /\ m_bStop /\ frame' = "off"
  /\ UNCHANGED <<statusVars, strLastTransition, bTransitionDone, owner, call,
                 colourVars, m_bStop>>

Frame     == Look \/ None \/ Switch \/ Blink \/ Fade \/ FadeRepeat \/ Done \/ LightEnds
Set(c)    == SetEnters(c) \/ SetLeaves(c)
LightNext == LightStarts \/ LightStarted \/ Frame \/ \E c \in Callers : Set(c)
====
