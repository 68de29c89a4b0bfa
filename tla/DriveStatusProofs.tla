-------------------------- MODULE DriveStatusProofs --------------------------
(* Proofs about the drive and the light, for any threads, statuses, maps,  *)
(* kinds of discs and bounds.                                              *)
EXTENDS DriveStatus, TLAPS

(* Who is in the critical section is setting a status: what TypeOK needs   *)
(* to be inductive.                                                        *)
OwnerInv == owner \in Callers => call[owner] \in Statuses

TypeInv == TypeOK /\ OwnerInv

-----------------------------------------------------------------------------
(* The disc the thread remembers is there, if none left unseen.            *)
SeenInv == m_dwLastTrayState = "disc" /\ ~unseen => tray = "disc"

(* The answer the thread is acting upon is the one it remembers.           *)
AnswerInv == drive \in {"open", "empty", "light"} => m_dwLastTrayState # "disc"

(* A disc that did not leave was not touched while it is read.             *)
ReadInv ==
  drive = "reading" /\ m_dwLastTrayState = "disc" /\ ~unseen => ~touched

(* TypeOfDisc, wherever the tray is, and while the thread does not run.    *)
ToldInv ==
  drive \in {"off", "head", "asleep"} /\ m_dwLastTrayState = "disc"
    /\ ~unseen /\ ~byHand
  => type = disc /\ mediaReady = "disc"

(* The thread does not run while the main loop copies.                     *)
JoinedInv == main = "copying" => drive = "off"

IInv == SeenInv /\ AnswerInv /\ ReadInv /\ ToldInv /\ JoinedInv

-----------------------------------------------------------------------------
(* Types.                                                                  *)

LEMMA TypeInvInit == Init => TypeInv
<1> SUFFICES ASSUME Init PROVE TypeInv
  OBVIOUS
<1> USE SmartLightAssumption, DriveStatusAssumption
    DEF Init, LightInit, NoStatus, Idle, Trays, Transitions
<1>1. LightTypeOK
  <2>1. map_rgb \in Maps \cup {NoMap}
        /\ frame \in Transitions \cup {"start", "general", "look", "done", "off"}
    OBVIOUS
  <2>2. {strCurrentStatus, strLastStatus, s_RGBs} \subseteq Statuses \cup {NoStatus}
        /\ strLastTransition \in Transitions \cup {NoStatus, ""}
    OBVIOUS
  <2>3. {enableSmartXXRGB, bTransitionDone, ripe, bRepeat, m_bStop} \subseteq BOOLEAN
    OBVIOUS
  <2>4. owner \in Callers \cup {"free"} /\ call \in [Callers -> Statuses \cup {Idle}]
    OBVIOUS
  <2>5. togo \in 0..MaxSteps OBVIOUS
  <2>6. QED BY <2>1, <2>2, <2>3, <2>4, <2>5 DEF LightTypeOK
<1>2. DriveTypeOK
  <2>1. enableSmartXXRGB \in BOOLEAN OBVIOUS
  <2>2. moves \in 0..MaxMoves[enableSmartXXRGB] BY <2>1
  <2>3. choices \in 0..MaxChoices[enableSmartXXRGB] BY <2>1
  <2>4. QED BY <2>2, <2>3 DEF DriveTypeOK
<1>3. OwnerInv BY DEF OwnerInv
<1>4. QED BY <1>1, <1>2, <1>3 DEF TypeInv, TypeOK

(* Asking for a status, and the steps of the light itself.                 *)
LEMMA AsksTypes ==
  ASSUME TypeInv, NEW c \in Callers, NEW status, Asks(c, status),
         UNCHANGED m_bStop, frame' = frame \/ frame' = "general"
  PROVE  LightTypeOK' /\ OwnerInv'
<1>1. CASE status \in DOMAIN map_rgb
  <2>1. status \in Statuses
    BY <1>1, SmartLightAssumption DEF TypeInv, TypeOK, LightTypeOK, NoMap
  <2>2. call' \in [Callers -> Statuses \cup {Idle}]
    BY <1>1, <2>1 DEF TypeInv, TypeOK, LightTypeOK, Asks
  <2>3. owner' \notin Callers
    BY <1>1, SmartLightAssumption DEF Asks
  <2>4. QED
    BY <1>1, <2>2, <2>3
       DEF TypeInv, TypeOK, LightTypeOK, OwnerInv, Asks, statusVars, colourVars
<1>2. CASE status \notin DOMAIN map_rgb
  BY <1>2 DEF TypeInv, TypeOK, LightTypeOK, OwnerInv, Asks, statusVars, colourVars
<1>3. QED BY <1>1, <1>2

(* A step of a fade stays between its colours.                             *)
LEMMA Colours ==
  /\ 0 \in 0..MaxSteps /\ MaxSteps \in 0..MaxSteps
  /\ \A n \in 0..MaxSteps : /\ n > 0 => n - 1 \in 0..MaxSteps
                            /\ n # 0 => n > 0
                            /\ n # MaxSteps => n + 1 \in 0..MaxSteps
<1>1. MaxSteps \in Nat BY SmartLightAssumption
<1>2. QED BY <1>1

LEMMA LightTypes == TypeInv /\ LightNext => LightTypeOK' /\ OwnerInv'
<1> SUFFICES ASSUME TypeInv, LightNext PROVE LightTypeOK' /\ OwnerInv'
  OBVIOUS
<1> USE SmartLightAssumption
    DEF TypeInv, TypeOK, LightTypeOK, OwnerInv, Transitions, statusVars, colourVars
<1>1. CASE LightStarts BY <1>1, AsksTypes DEF LightStarts
<1>2. CASE LightStarted BY <1>2 DEF LightStarted
<1>3. CASE Look BY <1>3 DEF Look
<1>4. CASE None BY <1>4 DEF None, Goes
<1>5. CASE Switch BY <1>5 DEF Switch, Goes
<1>6. CASE Blink BY <1>6 DEF Blink, Goes, Steps
<1>7. CASE Fade
  <2> DEFINE from == IF strLastTransition # frame THEN MaxSteps ELSE togo
  <2>1. from \in 0..MaxSteps BY Colours
  <2> HIDE DEF from
  <2>2. from > 0 => from - 1 \in 0..MaxSteps BY <2>1, Colours
  <2>0. Faded = IF ripe /\ from > 0 THEN from - 1 ELSE from BY DEF Faded, from
  <2>3. Faded \in 0..MaxSteps BY <2>0, <2>1, <2>2
  <2>4. QED BY <1>7, <2>3 DEF Fade, Goes, Steps
<1>8. CASE FadeRepeat
  <2> DEFINE from   == IF strLastTransition = "faderepeat" THEN togo
                       ELSE IF bRepeat THEN MaxSteps ELSE 0
             target == IF bRepeat THEN 0 ELSE MaxSteps
             to     == IF ~ripe \/ from = target THEN from
                       ELSE IF bRepeat THEN from - 1 ELSE from + 1
  <2>0. togo' = to BY <1>8 DEF FadeRepeat
  <2>1. togo' \in 0..MaxSteps
    <3>1. from \in 0..MaxSteps BY Colours
    <3>2. CASE bRepeat
      <4>1. target = 0 BY <3>2
      <4>2. from # 0 => from - 1 \in 0..MaxSteps
        <5> HIDE DEF from
        <5> QED BY <3>1, Colours
      <4>3. to = from \/ (from # 0 /\ to = from - 1) BY <3>2, <4>1
      <4>4. QED BY <2>0, <3>1, <4>2, <4>3
    <3>3. CASE ~bRepeat
      <4>1. target = MaxSteps BY <3>3
      <4>2. from # MaxSteps => from + 1 \in 0..MaxSteps
        <5> HIDE DEF from
        <5> QED BY <3>1, Colours
      <4>3. to = from \/ (from # MaxSteps /\ to = from + 1) BY <3>3, <4>1
      <4>4. QED BY <2>0, <3>1, <4>2, <4>3
    <3>4. QED BY <3>2, <3>3
  <2>2. bRepeat' \in BOOLEAN /\ ripe' \in BOOLEAN BY <1>8 DEF FadeRepeat, Steps
  <2>3. strLastTransition' \in {"", "faderepeat"} /\ frame' \in {"done", "look"}
    BY <1>8 DEF FadeRepeat, Goes
  <2>4. UNCHANGED <<statusVars, bTransitionDone, owner, call, m_bStop>>
    BY <1>8 DEF FadeRepeat, Goes
  <2>5. QED BY <2>1, <2>2, <2>3, <2>4
<1>9. CASE Done BY <1>9 DEF Done
<1>10. CASE LightEnds BY <1>10 DEF LightEnds
<1>11. ASSUME NEW c \in Callers, SetEnters(c) PROVE LightTypeOK' /\ OwnerInv'
  BY <1>11 DEF SetEnters, Forgotten
<1>12. ASSUME NEW c \in Callers, SetLeaves(c) PROVE LightTypeOK' /\ OwnerInv'
  <2>1. call[c] \in Statuses /\ owner' \notin Callers BY <1>12 DEF SetLeaves
  <2>2. call' \in [Callers -> Statuses \cup {Idle}] BY <1>12 DEF SetLeaves
  <2>3. togo' \in 0..MaxSteps BY <1>12 DEF SetLeaves
  <2>4. QED BY <1>12, <2>1, <2>2, <2>3 DEF SetLeaves
<1>13. QED
  BY <1>1, <1>2, <1>3, <1>4, <1>5, <1>6, <1>7, <1>8, <1>9, <1>10, <1>11, <1>12
     DEF LightNext, Frame, Set

LEMMA DetectedTypes == DriveTypeOK /\ Detected =>
                         type' \in Kinds \cup {NoDisc, UNKNOWN_} /\ mediaReady' = "disc"
BY DEF DriveTypeOK, Detected

(* A step that moves neither the light nor the bounds.                     *)
LEMMA DarkTypes == TypeInv /\ UNCHANGED lightVars => LightTypeOK' /\ OwnerInv'
BY DEF TypeInv, TypeOK, LightTypeOK, OwnerInv, lightVars, statusVars, colourVars

LEMMA BoundTypes ==
  ASSUME TypeInv, UNCHANGED enableSmartXXRGB
  PROVE  /\ UNCHANGED moves => moves' \in 0..MaxMoves'[enableSmartXXRGB']
         /\ UNCHANGED choices => choices' \in 0..MaxChoices'[enableSmartXXRGB']
         /\ Chooses => choices' \in 0..MaxChoices'[enableSmartXXRGB']
         /\ moves < MaxMoves[enableSmartXXRGB] /\ moves' = moves + 1
              => moves' \in 0..MaxMoves'[enableSmartXXRGB']
<1>1. MaxMoves[enableSmartXXRGB] \in Nat /\ MaxChoices[enableSmartXXRGB] \in Nat
  BY DriveStatusAssumption DEF TypeInv, TypeOK, LightTypeOK
<1>2. moves \in 0..MaxMoves[enableSmartXXRGB] /\ choices \in 0..MaxChoices[enableSmartXXRGB]
  BY DEF TypeInv, TypeOK, DriveTypeOK
<1>3. QED BY <1>1, <1>2 DEF Chooses

LEMMA TypeInvNext == TypeInv /\ [Next]_vars => TypeInv'
<1> SUFFICES ASSUME TypeInv, [Next]_vars PROVE TypeInv'
  OBVIOUS
<1>a. TypeInv /\ DriveTypeOK BY DEF TypeInv, TypeOK
<1>b. {"main", "drive"} \subseteq Callers BY DriveStatusAssumption
<1>c. LightTypeOK' /\ OwnerInv' /\ DriveTypeOK' => TypeInv' BY DEF TypeInv, TypeOK
<1> DEFINE Dark == UNCHANGED lightVars
           Same == UNCHANGED <<moves, choices>>
<1>d. Dark => LightTypeOK' /\ OwnerInv' BY DarkTypes
<1>e. Dark => UNCHANGED enableSmartXXRGB BY DEF lightVars, statusVars
<1> USE DEF others, trayVars, toldVars, checkVars, switches, mainVars
<1>1. CASE TrayMoves
  <2>1. moves' \in 0..MaxMoves'[enableSmartXXRGB']
        /\ choices' \in 0..MaxChoices'[enableSmartXXRGB']
    BY <1>1, <1>e, BoundTypes DEF TrayMoves
  <2>2. DriveTypeOK' BY <1>1, <1>a, <2>1, ZenonT(30) DEF TrayMoves, DriveTypeOK
  <2>3. QED BY <1>1, <1>c, <1>d, <2>2 DEF TrayMoves
<1>2. CASE LightSteps
  <2>1. UNCHANGED enableSmartXXRGB
    BY <1>2
       DEF LightSteps, LightNext, LightStarts, LightStarted, Frame, Look, None, Switch,
           Blink, Fade, FadeRepeat, Done, LightEnds, Set, SetEnters, SetLeaves, Goes, Asks,
           statusVars
  <2>2. UNCHANGED rest BY <1>2 DEF LightSteps
  <2>3. DriveTypeOK'
    <3>1. UNCHANGED <<trayVars, toldVars, drive, mainVars, checkVars>>
      BY <2>2 DEF rest
    <3>2. moves' \in 0..MaxMoves'[enableSmartXXRGB']
          /\ choices' \in 0..MaxChoices'[enableSmartXXRGB']
      BY <2>1, <3>1, BoundTypes
    <3>3. QED BY <1>a, <3>1, <3>2, ZenonT(30) DEF DriveTypeOK
  <2>4. QED BY <1>2, <1>c, <2>3, LightTypes DEF LightSteps
<1>3. CASE DriveSteps
  <2>1. CASE DriveAsks
    <3>1. LightTypeOK' /\ OwnerInv' BY <2>1, <1>b, AsksTypes DEF DriveAsks
    <3>2. UNCHANGED enableSmartXXRGB BY <2>1 DEF DriveAsks, Asks, statusVars
    <3>3. drive' \in {"light", "light new"} BY <2>1 DEF DriveAsks
    <3>4. UNCHANGED <<trayVars, toldVars, mainVars, checkVars>> BY <2>1 DEF DriveAsks
    <3>5. DriveTypeOK' BY <1>a, <3>2, <3>3, <3>4, BoundTypes DEF DriveTypeOK
    <3>6. QED BY <1>c, <3>1, <3>5
  <2>2. CASE Dark /\ Same /\ DriveTypeOK' BY <2>2, <1>c, <1>d
  <2>3. Dark /\ DriveTypeOK /\ Same => /\ moves' \in 0..MaxMoves'[enableSmartXXRGB']
                                       /\ choices' \in 0..MaxChoices'[enableSmartXXRGB']
    BY <1>e, BoundTypes
  <2>4. CASE DriveLoops BY <2>4, <2>2, <2>3, <1>a DEF DriveLoops, DriveTypeOK
  <2>5. CASE Poll
    <3>1. Dark /\ Same BY <2>5 DEF Poll
    <3>2. m_dwLastTrayState' \in Trays \cup {"none"}
      BY <2>5, <1>a DEF Poll, DriveTypeOK, GetTrayState
    <3>3. GetTrayState(tray, m_dwLastTrayState).answer
            \in {"open", "empty", "disc", "ready", "not ready"}
      BY <1>a DEF DriveTypeOK, GetTrayState, Trays
    <3>4. mediaReady' \in {"open", "not ready", "no media", "disc"}
          /\ type' \in Kinds \cup {NoDisc, UNKNOWN_}
      BY <2>5, <1>a, <3>3 DEF Poll, Told, DriveTypeOK
    <3>5. drive' \in {"open", "empty", "disc", "head"} BY <2>5 DEF Poll
    <3>6. unseen' \in BOOLEAN /\ byHand' \in BOOLEAN BY <2>5 DEF Poll
    <3>7. UNCHANGED <<trayVars, mainVars, touched>> BY <2>5 DEF Poll
    <3>8. DriveTypeOK'
      BY <1>a, <2>3, <3>1, <3>2, <3>4, <3>5, <3>6, <3>7 DEF DriveTypeOK
    <3>9. QED BY <2>2, <3>1, <3>8
  <2>6. CASE DriveAsked BY <2>6, <2>2, <2>3, <1>a, ZenonT(30) DEF DriveAsked, DriveTypeOK
  <2>7. CASE DetectBegins BY <2>7, <2>2, <2>3, <1>a DEF DetectBegins, DriveTypeOK
  <2>8. CASE DetectEnds
    <3>1. Dark /\ Same BY <2>8 DEF DetectEnds
    <3>2. type' \in Kinds \cup {NoDisc, UNKNOWN_}
          /\ mediaReady' \in {"open", "not ready", "no media", "disc"}
      BY <2>8, <1>a, DetectedTypes DEF DetectEnds, DriveTypeOK
    <3>3. main' = main \/ main' = "died" BY <2>8 DEF DetectEnds, Dies
    <3>4. drive' = "head" /\ UNCHANGED <<trayVars, m_dwLastTrayState, switches, checkVars>>
      BY <2>8 DEF DetectEnds
    <3>5. DriveTypeOK' BY <1>a, <2>3, <3>1, <3>2, <3>3, <3>4 DEF DriveTypeOK
    <3>6. QED BY <2>2, <3>1, <3>5
  <2>9. QED BY <1>3, <2>1, <2>4, <2>5, <2>6, <2>7, <2>8 DEF DriveSteps
<1>f. Dark /\ UNCHANGED moves /\ (UNCHANGED choices \/ Chooses)
        => /\ moves' \in 0..MaxMoves'[enableSmartXXRGB']
           /\ choices' \in 0..MaxChoices'[enableSmartXXRGB']
  BY <1>e, BoundTypes
<1>4. CASE MainSteps
  <2>1. CASE ReadEnds
    <3>1. Dark /\ Same BY <2>1 DEF ReadEnds
    <3>2. type' \in Kinds \cup {NoDisc, UNKNOWN_}
          /\ mediaReady' \in {"open", "not ready", "no media", "disc"}
          /\ byHand' \in BOOLEAN
      BY <2>1, <1>a, DetectedTypes DEF ReadEnds, DriveTypeOK
    <3>3. main' \in {"idle", "died"} BY <2>1 DEF ReadEnds, Dies
    <3>4. UNCHANGED <<trayVars, m_dwLastTrayState, drive, switches, touched, unseen>>
      BY <2>1 DEF ReadEnds
    <3>5. DriveTypeOK' BY <1>a, <1>f, <3>1, <3>2, <3>3, <3>4 DEF DriveTypeOK
    <3>6. QED BY <1>c, <1>d, <3>1, <3>5
  <2>2. CASE DriveJoined BY <2>2, <1>a, <1>c, <1>d, <1>f DEF DriveJoined, DriveTypeOK
  <2>3. CASE StopAppBegins BY <2>3, <1>a, <1>c, <1>d, <1>f DEF StopAppBegins, DriveTypeOK
  <2>4. CASE TransitionDone
    <3>1. LightTypeOK' /\ OwnerInv'
      BY <2>4, <1>a DEF TransitionDone, TypeOK, TypeInv, LightTypeOK, OwnerInv, statusVars,
                        colourVars
    <3>2. UNCHANGED enableSmartXXRGB BY <2>4 DEF TransitionDone, statusVars
    <3>3. DriveTypeOK' BY <2>4, <1>a, <3>2, BoundTypes DEF TransitionDone, DriveTypeOK
    <3>4. QED BY <1>c, <3>1, <3>3
  <2>5. CASE LightJoined BY <2>5, <1>a, <1>c, <1>d, <1>f DEF LightJoined, DriveTypeOK
  <2>6. QED BY <1>4, <2>1, <2>2, <2>3, <2>4, <2>5 DEF MainSteps
<1>5. CASE Choices
  <2>1. CASE ReadBegins BY <2>1, <1>a, <1>c, <1>d, <1>f DEF ReadBegins, DriveTypeOK
  <2>2. CASE StatusSet
    <3>1. PICK status \in Statuses : Asks("main", status) BY <2>2 DEF StatusSet
    <3>2. LightTypeOK' /\ OwnerInv' BY <2>2, <3>1, <1>b, AsksTypes DEF StatusSet
    <3>3. UNCHANGED enableSmartXXRGB BY <3>1 DEF Asks, statusVars
    <3>4. DriveTypeOK' BY <2>2, <1>a, <3>3, BoundTypes DEF StatusSet, DriveTypeOK
    <3>5. QED BY <1>c, <3>2, <3>4
  <2>3. CASE CopyBegins BY <2>3, <1>a, <1>c, <1>d, <1>f DEF CopyBegins, DriveTypeOK
  <2>4. CASE CopyEnds BY <2>4, <1>a, <1>c, <1>d, <1>f DEF CopyEnds, DriveTypeOK
  <2>5. CASE SwitchOff BY <2>5, <1>a, <1>c, <1>d, <1>f DEF SwitchOff, DriveTypeOK
  <2>6. CASE SwitchOn BY <2>6, <1>a, <1>c, <1>d, <1>f DEF SwitchOn, DriveTypeOK
  <2>7. CASE ShutDown
    <3>1. LightTypeOK' /\ OwnerInv' BY <2>7, <1>b, AsksTypes DEF ShutDown
    <3>2. UNCHANGED enableSmartXXRGB BY <2>7 DEF ShutDown, Asks, statusVars
    <3>3. DriveTypeOK' BY <2>7, <1>a, <3>2, BoundTypes DEF ShutDown, DriveTypeOK
    <3>4. QED BY <1>c, <3>1, <3>3
  <2>8. QED BY <1>5, <2>1, <2>2, <2>3, <2>4, <2>5, <2>6, <2>7 DEF Choices
<1>6. CASE UNCHANGED vars
  <2>1. Dark /\ UNCHANGED rest /\ Same BY <1>6 DEF vars, rest
  <2>2. DriveTypeOK' BY <1>a, <1>f, <2>1, ZenonT(30) DEF rest, DriveTypeOK
  <2>3. QED BY <1>c, <1>d, <2>1, <2>2
<1>7. QED
  BY <1>1, <1>2, <1>3, <1>4, <1>5, <1>6 DEF Next, TransitionAwaited, Stopped

(* Every variable keeps its type: no fade leaves its colours, and whoever  *)
(* is in the critical section is setting a status.                         *)
THEOREM TypeCorrect == Spec => []TypeOK
<1>1. TypeInv => TypeOK BY DEF TypeInv
<1>2. QED BY <1>1, TypeInvInit, TypeInvNext, PTL DEF Spec

-----------------------------------------------------------------------------
(* The type of the disc.                                                   *)

LEMMA IInvInit == Init => IInv
BY DEF Init, IInv, SeenInv, AnswerInv, ReadInv, ToldInv, JoinedInv

(* Only these variables matter.                                            *)
discVars == <<tray, disc, m_dwLastTrayState, type, mediaReady, drive, main, checkVars>>

LEMMA SameDisc == IInv /\ UNCHANGED discVars => IInv'
BY DEF IInv, SeenInv, AnswerInv, ReadInv, ToldInv, JoinedInv, discVars, checkVars

LEMMA PollKeeps == IInv /\ Poll => IInv'
<1> SUFFICES ASSUME IInv, Poll PROVE IInv'
  OBVIOUS
<1> DEFINE got == GetTrayState(tray, m_dwLastTrayState)
<1>1. /\ m_dwLastTrayState' = got.last
      /\ drive' = IF got.answer \in {"open", "empty", "disc"} THEN got.answer ELSE "head"
      /\ unseen' = (unseen /\ tray \notin {"open", "moving"})
      /\ byHand' = (byHand /\ got.answer \in {"ready", "empty"})
      /\ UNCHANGED <<tray, disc, main, touched>>
      /\ drive = "asleep"
  BY DEF Poll, trayVars, mainVars
<1>2. JoinedInv' BY <1>1 DEF IInv, JoinedInv
<1>3. ReadInv'
  <2>1. got.answer # "reading" \/ drive' = "head" BY <1>1
  <2>2. QED BY <1>1, <2>1 DEF ReadInv
<1>4. CASE tray = "moving"
  <2>1. got = [answer |-> "not ready", last |-> "moving"] BY <1>4 DEF GetTrayState
  <2>2. m_dwLastTrayState' = "moving" /\ drive' = "head"
    <3> HIDE DEF got
    <3> QED BY <1>1, <2>1
  <2>3. QED BY <1>2, <1>3, <2>2 DEF IInv, SeenInv, AnswerInv, ToldInv
<1>5. CASE tray # "moving" /\ tray = m_dwLastTrayState
  <2>1. got = [answer |-> "ready", last |-> m_dwLastTrayState]
    BY <1>5 DEF GetTrayState
  <2>2. UNCHANGED <<m_dwLastTrayState, type, mediaReady>> /\ drive' = "head"
    BY <1>1, <2>1 DEF Poll, Told
  <2>3. tray = "disc" => (unseen => unseen') /\ (byHand => byHand')
    <3> HIDE DEF got
    <3> QED BY <1>1, <2>1
  <2>4. QED BY <1>1, <1>2, <1>3, <1>5, <2>2, <2>3 DEF IInv, SeenInv, AnswerInv, ToldInv
<1>6. CASE tray = "empty" /\ m_dwLastTrayState = "disc"
  <2>1. got = [answer |-> "ready", last |-> "disc"] BY <1>6 DEF GetTrayState
  <2>2. unseen /\ unseen' BY <1>1, <1>6 DEF IInv, SeenInv
  <2>3. drive' = "head" BY <1>1, <2>1
  <2>4. QED BY <1>2, <1>3, <2>2, <2>3 DEF IInv, SeenInv, AnswerInv, ToldInv
<1>7. CASE /\ tray # "moving" /\ tray # m_dwLastTrayState
           /\ ~(tray = "empty" /\ m_dwLastTrayState = "disc")
  <2>1. got = [answer |-> tray, last |-> tray] BY <1>7 DEF GetTrayState
  <2>2. m_dwLastTrayState' = tray /\ tray' = tray BY <1>1, <2>1
  <2>3. drive' = IF tray \in {"open", "empty", "disc"} THEN tray ELSE "head"
    BY <1>1, <2>1
  <2>4. SeenInv' /\ AnswerInv' BY <2>2, <2>3 DEF SeenInv, AnswerInv
  <2>5. ToldInv' BY <2>2, <2>3 DEF ToldInv
  <2>6. QED BY <1>2, <1>3, <2>4, <2>5 DEF IInv
<1>8. QED BY <1>4, <1>5, <1>6, <1>7

LEMMA IInvNext == IInv /\ [Next]_vars => IInv'
<1> SUFFICES ASSUME IInv, [Next]_vars PROVE IInv'
  OBVIOUS
<1> USE DEF IInv, SeenInv, AnswerInv, ReadInv, ToldInv, JoinedInv,
            others, trayVars, toldVars, checkVars, switches, mainVars
<1>1. CASE TrayMoves BY <1>1 DEF TrayMoves
<1>2. CASE LightSteps BY <1>2, SameDisc DEF LightSteps, rest, discVars
<1>3. CASE DriveSteps
  <2>1. CASE DriveLoops BY <2>1 DEF DriveLoops
  <2>2. CASE Poll BY <2>2, PollKeeps
  <2>3. CASE DriveAsks BY <2>3 DEF DriveAsks
  <2>4. CASE DriveAsked BY <2>4 DEF DriveAsked
  <2>5. CASE DetectBegins BY <2>5 DEF DetectBegins
  <2>6. CASE DetectEnds BY <2>6 DEF DetectEnds, Detected, Dies, Steady
  <2>7. QED BY <1>3, <2>1, <2>2, <2>3, <2>4, <2>5, <2>6 DEF DriveSteps
<1>4. CASE MainSteps
  <2>1. CASE ReadEnds BY <2>1 DEF ReadEnds, Detected, Dies
  <2>2. CASE DriveJoined BY <2>2 DEF DriveJoined
  <2>3. CASE StopAppBegins BY <2>3 DEF StopAppBegins
  <2>4. CASE TransitionDone BY <2>4 DEF TransitionDone
  <2>5. CASE LightJoined BY <2>5 DEF LightJoined
  <2>6. QED BY <1>4, <2>1, <2>2, <2>3, <2>4, <2>5 DEF MainSteps
<1>5. CASE Choices
  <2>1. CASE ReadBegins BY <2>1 DEF ReadBegins
  <2>2. CASE StatusSet BY <2>2 DEF StatusSet
  <2>3. CASE CopyBegins BY <2>3 DEF CopyBegins
  <2>4. CASE CopyEnds BY <2>4 DEF CopyEnds
  <2>5. CASE SwitchOff BY <2>5 DEF SwitchOff
  <2>6. CASE SwitchOn BY <2>6 DEF SwitchOn
  <2>7. CASE ShutDown BY <2>7 DEF ShutDown
  <2>8. QED BY <1>5, <2>1, <2>2, <2>3, <2>4, <2>5, <2>6, <2>7 DEF Choices
<1>6. CASE UNCHANGED vars BY <1>6 DEF vars
<1>7. QED
  BY <1>1, <1>2, <1>3, <1>4, <1>5, <1>6 DEF Next, TransitionAwaited, Stopped

(* Whatever the user does with the tray and the settings, a disc that did  *)
(* not leave unseen and was not read by hand has the type it is told to    *)
(* have: no game is copied as a film.                                      *)
THEOREM TypeIsThatOfTheDisc == Spec => []TypeOfDisc
<1>1. IInv => TypeOfDisc BY DEF IInv, ToldInv, TypeOfDisc
<1>2. QED BY <1>1, IInvInit, IInvNext, PTL DEF Spec
====
