------------------------- MODULE WebTerminalProofs -------------------------
(***************************************************************************)
(* Proofs about WebTerminal, for any number of sockets, tokens, attempts   *)
(* and other tabs.                                                         *)
(***************************************************************************)
EXTENDS WebTerminal, FiniteSetTheorems, TLAPS

-----------------------------------------------------------------------------
(* What every action that connects does to the line. *)
LEMMA SavableScreens ==
  /\ Absent \in Savable
  /\ \A v \in SUBSET Outputs : v \in Savable /\ v # Absent
  /\ {} \in SUBSET Outputs /\ {0} \in SUBSET Outputs /\ 0 \in Outputs
  BY TerminalAssumption DEF Savable, Outputs

LEMMA RunsAreNumbers == 1 \in Runs /\ NoTimer \notin Runs
  BY TerminalAssumption DEF Runs, NoTimer

LEMMA HangUpType ==
  ASSUME TypeOK
  PROVE  /\ HangUp \in [Sockets -> [state : Phases, run : Runs \cup {0}]]
         /\ \A s \in Sockets :
              /\ HangUp[s].run = socket[s].run
              /\ s # wsRef => HangUp[s] = socket[s]
              /\ HangUp[s].state \in {"connecting", "open"} =>
                   s # wsRef /\ Live(s)
              /\ HangUp[s].state = "closed" <=> socket[s].state = "closed"
  <1>1. ASSUME NEW k \in [state : Phases, run : Runs \cup {0}]
        PROVE  /\ HungUp(k) \in [state : Phases, run : Runs \cup {0}]
               /\ HungUp(k).run = k.run
               /\ HungUp(k).state \notin {"connecting", "open"}
               /\ HungUp(k).state = "closed" <=> k.state = "closed"
    BY DEF HungUp, Phases
  <1> QED BY <1>1 DEF HangUp, TypeOK, Live

(* A new socket of run r, or an error and the old socket hung up. *)
LEMMA ConnectLine ==
  ASSUME TypeOK, NEW r \in Runs, ConnectWebSocket(r)
  PROVE  /\ reconnectTimer' = NoTimer
         /\ socket' \in [Sockets -> [state : Phases, run : Runs \cup {0}]]
         /\ wsRef' \in Sockets \cup {NoSocket}
         /\ \/ /\ wsRef' \in Sockets
               /\ status' = "connecting"
               /\ socket'[wsRef'].state = "connecting"
               /\ socket'[wsRef'].run = r
               /\ \A s \in Sockets :
                    s # wsRef' => /\ s # wsRef => socket'[s] = socket[s]
                                  /\ s = wsRef => socket'[s] = HangUp[s]
            \/ /\ wsRef' = wsRef
               /\ status' = "error"
               /\ socket' = HangUp
  <1> DEFINE Dialled(t) ==
        /\ socket' = [HangUp EXCEPT ![t] = [state |-> "connecting", run |-> r]]
        /\ wsRef' = t
        /\ status' = "connecting"
  <1>1. CASE \E t \in Unused : Dialled(t)
    <2>1. PICK t \in Unused : Dialled(t)
      BY <1>1
    <2>2. t \in Sockets /\ t # wsRef
      BY DEF Unused
    <2>3. [state |-> "connecting", run |-> r] \in [state : Phases, run : Runs \cup {0}]
      BY DEF Phases
    <2>4. socket' \in [Sockets -> [state : Phases, run : Runs \cup {0}]]
      BY <2>1, <2>3, HangUpType
    <2>5. \A s \in Sockets : s # t => socket'[s] = HangUp[s]
      BY <2>1, HangUpType
    <2>6. socket'[t] = [state |-> "connecting", run |-> r]
      BY <2>1, <2>2, HangUpType
    <2> QED BY <2>1, <2>2, <2>4, <2>5, <2>6, HangUpType DEF ConnectWebSocket
  <1>2. CASE socket' = HangUp /\ status' = "error" /\ UNCHANGED wsRef
    BY <1>2, HangUpType DEF ConnectWebSocket, TypeOK
  <1> QED BY <1>1, <1>2 DEF ConnectWebSocket

(* The line is in order whoever connects. *)
LEMMA ConnectInOrder ==
  ASSUME TypeOK, OneLine, NEW r \in Runs, ConnectWebSocket(r), isMounted'
  PROVE  OneLine' /\ LineTruth'
  <1> USE TerminalAssumption DEF TypeOK, OneLine, LineTruth, Live
  <1>1. CASE wsRef' = wsRef /\ status' = "error" /\ socket' = HangUp
    BY <1>1, ConnectLine, HangUpType
  <1>2. CASE ~(wsRef' = wsRef /\ status' = "error" /\ socket' = HangUp)
    BY <1>2, ConnectLine, HangUpType
  <1> QED BY <1>1, <1>2

-----------------------------------------------------------------------------
(* What a save leaves of the screens. *)
LEMMA ScreensType ==
  ASSUME TypeOK, NEW k \in Keys, NEW v \in Savable
  PROVE  /\ Screens(k, v) \in [Keys -> Savable]
         /\ Screens(k, v)[k] = v
         /\ \A e \in Keys \ {k} : Screens(k, v)[e] \in {Absent, store[e]}
  BY SavableScreens DEF Screens, TypeOK

LEMMA SaveStore ==
  ASSUME TypeOK, NEW k \in Keys, NEW v \in SUBSET Outputs,
         SaveTerminalBuffer(k, v)
  PROVE  /\ store' \in [Keys -> Savable]
         /\ \A e \in Keys \ {k} : store'[e] \in {Absent, store[e]}
         /\ k \in tombstonedKeys => store' = store
  <1>1. CASE store' = store
    BY <1>1 DEF TypeOK
  <1>2. CASE k \notin tombstonedKeys /\ \E w \in {v, Absent} : store' = Screens(k, w)
    <2>1. PICK w \in {v, Absent} : store' = Screens(k, w)
      BY <1>2
    <2> QED BY <1>2, <2>1, ScreensType, SavableScreens
  <1> QED
    BY <1>1, <1>2 DEF SaveTerminalBuffer, Write, WriteUnindexed, WriteRefused,
                      WriteTooLarge

LEMMA ClearStore ==
  ASSUME TypeOK, NEW k \in Keys, ClearTerminalBuffer(k)
  PROVE  /\ store' \in [Keys -> Savable]
         /\ store'[k] = Absent
  BY SavableScreens DEF ClearTerminalBuffer, TypeOK

-----------------------------------------------------------------------------
LEMMA InitTypeOK == Init => TypeOK
  <1> SUFFICES ASSUME Init PROVE TypeOK
    OBVIOUS
  <1> USE RunsAreNumbers, SavableScreens DEF Init, PoolInit
  <1>1. socket \in [Sockets -> [state : Phases, run : Runs \cup {0}]]
    BY DEF Free, Phases
  <1>2. store \in [Keys -> Savable]
    OBVIOUS
  <1>3. reconnectAttempts \in 0 .. MaxAttempts
    BY TerminalAssumption
  <1>4. run \in Runs /\ restoring \subseteq Runs /\ output \in Outputs
    OBVIOUS
  <1>5. screen \in SUBSET Outputs /\ queue \in SUBSET Outputs /\ shown \in SUBSET Outputs
    OBVIOUS
  <1> QED BY <1>1, <1>2, <1>3, <1>4, <1>5 DEF TypeOK

LEMMA SaveScreenType ==
  ASSUME TypeOK, SaveScreen
  PROVE  /\ store' \in [Keys -> Savable]
         /\ shown' \in SUBSET Outputs
         /\ output' \in Outputs
         /\ cut' \in BOOLEAN
  BY SaveStore, TerminalAssumption, SavableScreens DEF SaveScreen, TypeOK

LEMMA BeginType ==
  ASSUME TypeOK, NEW r \in Runs, NEW pending \in SUBSET Runs,
         NEW saved \in Savable,
         Begin(r, saved, pending)
  PROVE  /\ run' \in Runs /\ isMounted' \in BOOLEAN
         /\ wsRef' \in Sockets \cup {NoSocket}
         /\ socket' \in [Sockets -> [state : Phases, run : Runs \cup {0}]]
         /\ reconnectTimer' = NoTimer
         /\ status' \in {"connecting", "connected", "disconnected", "error"}
         /\ restoring' \subseteq Runs
         /\ screen' \in SUBSET Outputs
         /\ queue' \in SUBSET Outputs
         /\ stray' \in BOOLEAN
  <1>1. CASE saved \in {Absent, {}}
    BY <1>1, ConnectLine, SavableScreens DEF Begin, Astray, TypeOK
  <1>2. CASE saved \notin {Absent, {}}
    BY <1>2, HangUpType, SavableScreens DEF Begin, Savable, Astray, TypeOK
  <1> QED BY <1>1, <1>2

LEMMA WriteTermType ==
  ASSUME TypeOK, NEW r, NEW c \in Outputs, WriteTerm(r, c)
  PROVE  /\ screen' \in SUBSET Outputs
         /\ queue' \in SUBSET Outputs
         /\ shown' \in SUBSET Outputs
  BY DEF WriteTerm, TypeOK

LEMMA DeadType ==
  ASSUME Dead
  PROVE  /\ run' \in Runs /\ isMounted' \in BOOLEAN /\ stray' \in BOOLEAN
         /\ wsRef' \in Sockets \cup {NoSocket}
         /\ reconnectTimer' \in Runs \cup {NoTimer}
         /\ reconnectAttempts' \in 0 .. MaxAttempts
         /\ status' \in {"connecting", "connected", "disconnected", "error"}
         /\ screen' \in SUBSET Outputs /\ queue' \in SUBSET Outputs
  <1>1. reconnectAttempts' \in 0 .. MaxAttempts
    BY TerminalAssumption DEF Dead
  <1> QED BY <1>1, RunsAreNumbers, SavableScreens DEF Dead

LEMMA StepTypeOK == TypeOK /\ [Next]_vars => TypeOK'
  <1> SUFFICES ASSUME TypeOK, [Next]_vars PROVE TypeOK'
    OBVIOUS
  <1> USE TerminalAssumption, RunsAreNumbers, SavableScreens
      DEF poolVars, lineVars, termVars, seenVars
  <1>1. ASSUME NEW s \in Sockets, OnOpen(s) PROVE TypeOK'
    BY <1>1 DEF OnOpen, TypeOK, Phases
  <1>2. ASSUME NEW s \in Sockets, OnMessage(s) PROVE TypeOK'
    <2>1. output' \in Outputs
      BY <1>2 DEF OnMessage, TypeOK, Outputs
    <2>2. /\ screen' \in SUBSET Outputs
          /\ queue' \in SUBSET Outputs
          /\ shown' \in SUBSET Outputs
      BY <1>2, <2>1, WriteTermType DEF OnMessage, TypeOK
    <2> QED BY <1>2, <2>1, <2>2 DEF OnMessage, TypeOK
  <1>3. ASSUME NEW s \in Sockets, OnClose(s) PROVE TypeOK'
    <2>1. PICK code \in CloseCodes(s) :
            /\ socket' = [socket EXCEPT ![s].state = "closed"]
            /\ IF wsRef = s
               THEN /\ WriteTerm(socket[s].run, 0)
                    /\ status' = "disconnected"
                    /\ ScheduleReconnect(s, code)
               ELSE UNCHANGED <<screen, queue, shown, status, reconnectTimer,
                                reconnectAttempts>>
      BY <1>3 DEF OnClose
    <2>2. /\ screen' \in SUBSET Outputs
          /\ queue' \in SUBSET Outputs
          /\ shown' \in SUBSET Outputs
      <3>1. 0 \in Outputs
        OBVIOUS
      <3> QED BY <2>1, <3>1, WriteTermType DEF TypeOK
    <2>3. /\ reconnectTimer' \in Runs \cup {NoTimer}
          /\ reconnectAttempts' \in 0 .. MaxAttempts
      BY <2>1 DEF ScheduleReconnect, TypeOK, NoTimer
    <2>4. /\ socket' \in [Sockets -> [state : Phases, run : Runs \cup {0}]]
          /\ status' \in {"connecting", "connected", "disconnected", "error"}
      BY <2>1 DEF TypeOK, Phases
    <2>5. UNCHANGED <<poolVars, tab, isMounted, run, wsRef, restoring, output,
                      stray, cut>>
      BY <1>3 DEF OnClose
    <2> QED BY <2>2, <2>3, <2>4, <2>5 DEF TypeOK
  <1>4. CASE Reconnect
    <2>1. reconnectTimer \in Runs
      BY <1>4 DEF Reconnect, TypeOK
    <2> QED BY <1>4, <2>1, ConnectLine DEF Reconnect, Astray, TypeOK
  <1>5. CASE Mount
    <2>1. store[Tab] \in Savable
      BY DEF TypeOK
    <2> QED BY <1>5, <2>1, BeginType DEF Mount, TypeOK
  <1>6. CASE NewToken
    <2>1. run + 1 \in Runs
      BY <1>6 DEF NewToken, TypeOK, Runs
    <2>2. store'[Tab] \in Savable
      BY <1>6, SaveScreenType DEF NewToken
    <2> QED BY <1>6, <2>1, <2>2, SaveScreenType, BeginType DEF NewToken, TypeOK
  <1>7. ASSUME NEW r \in Runs, Restored(r) PROVE TypeOK'
    BY <1>7, ConnectLine DEF Restored, Astray, TypeOK
  <1>8. CASE Unmount
    BY <1>8, SaveScreenType, HangUpType, DeadType DEF Unmount, TypeOK
  <1>9. CASE UserReconnect
    BY <1>9, ConnectLine DEF UserReconnect, Astray, TypeOK
  <1>10. CASE ClearScrollback
    BY <1>10, ClearStore DEF ClearScrollback, TypeOK
  <1>11. CASE CloseWithButton \/ CloseWithKey
    BY <1>11, ClearStore DEF CloseWithButton, CloseWithKey, CloseTerminalBuffer,
                             TypeOK
  <1>12. CASE Reload
    <2>1. /\ store' \in [Keys -> Savable]
          /\ shown' \in SUBSET Outputs
          /\ output' \in Outputs
          /\ cut' \in BOOLEAN
      BY <1>12, SaveScreenType DEF Reload, TypeOK
    <2>2. socket' \in [Sockets -> [state : Phases, run : Runs \cup {0}]]
      BY <1>12 DEF Reload, Free, Phases
    <2> QED BY <1>12, <2>1, <2>2, DeadType DEF Reload, TypeOK
  <1>13. ASSUME NEW k \in Keys \ {Tab}, OtherSaves(k) PROVE TypeOK'
    <2>1. {0} \in SUBSET Outputs
      OBVIOUS
    <2> QED BY <1>13, <2>1, SaveStore DEF OtherSaves, TypeOK
  <1>14. CASE UNCHANGED vars
    BY <1>14 DEF vars, TypeOK
  <1> QED
    BY <1>1, <1>2, <1>3, <1>4, <1>5, <1>6, <1>7, <1>8, <1>9, <1>10, <1>11,
       <1>12, <1>13, <1>14 DEF Next, SocketStep, EffectStep, UserStep

-----------------------------------------------------------------------------
(* The line is in order, and the status tells the truth of it, after every
   step: a lemma for what the actions share, then one step per action. *)
LEMMA HungUpInOrder ==
  ASSUME TypeOK, OneLine
  PROVE  \A s \in Sockets : HangUp[s].state \notin {"connecting", "open"}
  BY HangUpType DEF OneLine

LEMMA BeginInOrder ==
  ASSUME TypeOK, OneLine, NEW r \in Runs, NEW pending \in SUBSET Runs,
         NEW saved \in Savable, Begin(r, saved, pending)
  PROVE  OneLine' /\ StatusHonest'
  <1>1. CASE saved \in {Absent, {}}
    <2>1. ConnectWebSocket(r) /\ isMounted'
      BY <1>1 DEF Begin
    <2> QED BY <2>1, ConnectInOrder DEF StatusHonest
  <1>2. CASE saved \notin {Absent, {}}
    <2>1. /\ socket' = HangUp /\ reconnectTimer' = NoTimer
          /\ run' = r /\ r \in restoring'
      BY <1>2 DEF Begin
    <2> QED BY <2>1, HungUpInOrder DEF OneLine, StatusHonest, Live
  <1> QED BY <1>1, <1>2

LEMMA StepLine == TypeOK /\ OneLine /\ StatusHonest /\ [Next]_vars
                  => OneLine' /\ StatusHonest'
  <1> SUFFICES ASSUME TypeOK, OneLine, StatusHonest, [Next]_vars
               PROVE  OneLine' /\ StatusHonest'
    OBVIOUS
  <1> USE TerminalAssumption DEF lineVars, termVars, seenVars
  <1>1. ASSUME NEW s \in Sockets, OnOpen(s) PROVE OneLine' /\ StatusHonest'
    <2>1. wsRef = s /\ isMounted /\ reconnectTimer = NoTimer
      BY <1>1 DEF OnOpen, OneLine, Live
    <2>2. /\ socket' = [socket EXCEPT ![s].state = "open"]
          /\ status' = "connected"
          /\ UNCHANGED <<isMounted, run, wsRef, reconnectTimer, restoring>>
      BY <1>1, <2>1 DEF OnOpen
    <2>3. socket'[s].state = "open" /\ \A t \in Sockets : t # s => socket'[t] = socket[t]
      BY <2>2 DEF TypeOK
    <2> QED BY <2>1, <2>2, <2>3 DEF OneLine, StatusHonest, LineTruth, Live
  <1>2. ASSUME NEW s \in Sockets, OnMessage(s) PROVE OneLine' /\ StatusHonest'
    BY <1>2 DEF OnMessage, OneLine, StatusHonest, LineTruth, Live
  <1>3. ASSUME NEW s \in Sockets, OnClose(s) PROVE OneLine' /\ StatusHonest'
    <2>1. PICK code \in CloseCodes(s) :
            /\ socket' = [socket EXCEPT ![s].state = "closed"]
            /\ IF wsRef = s
               THEN /\ WriteTerm(socket[s].run, 0)
                    /\ status' = "disconnected"
                    /\ ScheduleReconnect(s, code)
               ELSE UNCHANGED <<screen, queue, shown, status, reconnectTimer,
                                reconnectAttempts>>
            /\ UNCHANGED <<poolVars, tab, isMounted, run, wsRef, restoring,
                           output, stray, cut>>
      BY <1>3 DEF OnClose
    <2>2. socket'[s].state = "closed" /\ \A t \in Sockets : t # s => socket'[t] = socket[t]
      BY <2>1 DEF TypeOK
    <2>3. CASE wsRef = s
      <3>1. reconnectTimer' # NoTimer => isMounted
        BY <2>1, <2>3 DEF ScheduleReconnect, OneLine
      <3> QED BY <2>1, <2>2, <2>3, <3>1 DEF OneLine, StatusHonest, LineTruth, Live
    <2>4. CASE wsRef # s
      BY <2>1, <2>2, <2>4 DEF OneLine, StatusHonest, LineTruth, Live, TypeOK
    <2> QED BY <2>3, <2>4
  <1>4. CASE Reconnect
    <2>1. reconnectTimer \in Runs /\ isMounted /\ isMounted'
      BY <1>4 DEF Reconnect, OneLine, TypeOK
    <2>2. ConnectWebSocket(reconnectTimer)
      BY <1>4, <2>1 DEF Reconnect
    <2> QED BY <2>1, <2>2, ConnectInOrder DEF StatusHonest
  <1>5. CASE Mount
    <2>1. 1 \in Runs /\ {} \in SUBSET Runs /\ store[Tab] \in Savable
      BY RunsAreNumbers DEF TypeOK
    <2> QED BY <1>5, <2>1, BeginInOrder DEF Mount
  <1>6. CASE NewToken
    <2>1. run + 1 \in Runs /\ restoring \in SUBSET Runs
      BY <1>6 DEF NewToken, TypeOK, Runs
    <2>2. store'[Tab] \in Savable
      BY <1>6, SaveScreenType DEF NewToken
    <2> QED BY <1>6, <2>1, <2>2, BeginInOrder DEF NewToken
  <1>7. ASSUME NEW r \in Runs, Restored(r) PROVE OneLine' /\ StatusHonest'
    <2>1. CASE isMounted
      <3>1. ConnectWebSocket(r) /\ isMounted'
        BY <1>7, <2>1 DEF Restored
      <3> QED BY <3>1, ConnectInOrder DEF StatusHonest
    <2>2. CASE ~isMounted
      BY <1>7, <2>2 DEF Restored, OneLine, StatusHonest, Live
    <2> QED BY <2>1, <2>2
  <1>8. CASE Unmount
    BY <1>8, HungUpInOrder DEF Unmount, Dead, OneLine, StatusHonest, Live
  <1>9. CASE UserReconnect
    <2>1. ConnectWebSocket(run) /\ isMounted' /\ run \in Runs
      BY <1>9 DEF UserReconnect, TypeOK
    <2> QED BY <2>1, ConnectInOrder DEF StatusHonest
  <1>10. CASE ClearScrollback \/ CloseWithButton \/ CloseWithKey
    BY <1>10 DEF ClearScrollback, CloseWithButton, CloseWithKey, OneLine,
                 StatusHonest, LineTruth, Live
  <1>11. CASE Reload
    BY <1>11 DEF Reload, Dead, Free, OneLine, StatusHonest, Live
  <1>12. ASSUME NEW k \in Keys \ {Tab}, OtherSaves(k) PROVE OneLine' /\ StatusHonest'
    BY <1>12 DEF OtherSaves, OneLine, StatusHonest, LineTruth, Live
  <1>13. CASE UNCHANGED vars
    BY <1>13 DEF vars, OneLine, StatusHonest, LineTruth, Live
  <1> QED
    BY <1>1, <1>2, <1>3, <1>4, <1>5, <1>6, <1>7, <1>8, <1>9, <1>10, <1>11,
       <1>12, <1>13 DEF Next, SocketStep, EffectStep, UserStep

-----------------------------------------------------------------------------
(* The strengthening of CurrentLine: the socket the line hangs on is of the
   current run whatever its state, for its close sets the timer. *)
CurrentInv ==
  (isMounted /\ run \notin restoring /\ ~stray) =>
    /\ wsRef # NoSocket => socket[wsRef].run = run
    /\ reconnectTimer # NoTimer => reconnectTimer = run

LEMMA ConnectCurrent ==
  ASSUME TypeOK, NEW r \in Runs, ConnectWebSocket(r), NEW past \in BOOLEAN,
         Astray(past), run' = r \/ past
  PROVE  CurrentInv'
  BY ConnectLine DEF Astray, CurrentInv, TypeOK

LEMMA BeginCurrent ==
  ASSUME TypeOK, NEW r \in Runs, NEW pending \in SUBSET Runs,
         NEW saved \in Savable, Begin(r, saved, pending)
  PROVE  CurrentInv'
  <1>1. CASE saved \in {Absent, {}}
    BY <1>1, ConnectCurrent DEF Begin
  <1>2. CASE saved \notin {Absent, {}}
    BY <1>2 DEF Begin, CurrentInv
  <1> QED BY <1>1, <1>2

LEMMA StepCurrent == TypeOK /\ CurrentInv /\ [Next]_vars => CurrentInv'
  <1> SUFFICES ASSUME TypeOK, CurrentInv, [Next]_vars PROVE CurrentInv'
    OBVIOUS
  <1> USE TerminalAssumption DEF lineVars, termVars, seenVars
  <1>1. ASSUME NEW s \in Sockets, OnOpen(s) PROVE CurrentInv'
    BY <1>1 DEF OnOpen, CurrentInv, TypeOK
  <1>2. ASSUME NEW s \in Sockets, OnMessage(s) PROVE CurrentInv'
    BY <1>2 DEF OnMessage, CurrentInv
  <1>3. ASSUME NEW s \in Sockets, OnClose(s) PROVE CurrentInv'
    <2>1. PICK code \in CloseCodes(s) :
            /\ socket' = [socket EXCEPT ![s].state = "closed"]
            /\ IF wsRef = s
               THEN /\ WriteTerm(socket[s].run, 0)
                    /\ status' = "disconnected"
                    /\ ScheduleReconnect(s, code)
               ELSE UNCHANGED <<screen, queue, shown, status, reconnectTimer,
                                reconnectAttempts>>
            /\ UNCHANGED <<poolVars, tab, isMounted, run, wsRef, restoring,
                           output, stray, cut>>
      BY <1>3 DEF OnClose
    <2>2. \A t \in Sockets : socket'[t].run = socket[t].run
      BY <2>1 DEF TypeOK
    <2>3. reconnectTimer' \in {reconnectTimer, socket[s].run}
      BY <2>1 DEF ScheduleReconnect
    <2>4. wsRef # s => reconnectTimer' = reconnectTimer
      BY <2>1
    <2> QED BY <2>1, <2>2, <2>3, <2>4 DEF CurrentInv, TypeOK
  <1>4. CASE Reconnect
    <2>1. reconnectTimer \in Runs
      BY <1>4 DEF Reconnect, TypeOK
    <2>2. CASE ~isMounted
      BY <1>4, <2>2 DEF Reconnect, CurrentInv
    <2>3. CASE isMounted
      <3>1. ConnectWebSocket(reconnectTimer) /\ Astray(FALSE)
        BY <1>4, <2>3 DEF Reconnect
      <3>2. CASE run = reconnectTimer
        BY <1>4, <2>1, <3>1, <3>2, ConnectCurrent DEF Reconnect
      <3>3. CASE run # reconnectTimer
        BY <1>4, <2>3, <3>1, <3>3 DEF Reconnect, Astray, CurrentInv
      <3> QED BY <3>2, <3>3
    <2> QED BY <2>2, <2>3
  <1>5. CASE Mount
    <2>1. 1 \in Runs /\ {} \in SUBSET Runs /\ store[Tab] \in Savable
      BY RunsAreNumbers DEF TypeOK
    <2> QED BY <1>5, <2>1, BeginCurrent DEF Mount
  <1>6. CASE NewToken
    <2>1. run + 1 \in Runs /\ restoring \in SUBSET Runs
      BY <1>6 DEF NewToken, TypeOK, Runs
    <2>2. store'[Tab] \in Savable
      BY <1>6, SaveScreenType DEF NewToken
    <2> QED BY <1>6, <2>1, <2>2, BeginCurrent DEF NewToken
  <1>7. ASSUME NEW r \in Runs, Restored(r) PROVE CurrentInv'
    <2>1. CASE ~isMounted
      BY <1>7, <2>1 DEF Restored, CurrentInv
    <2>2. CASE isMounted
      <3>1. /\ ConnectWebSocket(r) /\ Astray(r # run)
            /\ run' = r \/ r # run
        BY <1>7, <2>2 DEF Restored
      <3> QED BY <3>1, ConnectCurrent
    <2> QED BY <2>1, <2>2
  <1>8. CASE Unmount \/ Reload
    BY <1>8 DEF Unmount, Reload, Dead, CurrentInv
  <1>9. CASE UserReconnect
    BY <1>9, ConnectCurrent DEF UserReconnect, TypeOK
  <1>10. CASE ClearScrollback \/ CloseWithButton \/ CloseWithKey
    <2>1. UNCHANGED <<isMounted, run, wsRef, socket, reconnectTimer, restoring, stray>>
      BY <1>10 DEF ClearScrollback, CloseWithButton, CloseWithKey
    <2> QED BY <2>1 DEF CurrentInv
  <1>11. ASSUME NEW k \in Keys \ {Tab}, OtherSaves(k) PROVE CurrentInv'
    BY <1>11 DEF OtherSaves, CurrentInv
  <1>12. CASE UNCHANGED vars
    BY <1>12 DEF vars, CurrentInv
  <1> QED
    BY <1>1, <1>2, <1>3, <1>4, <1>5, <1>6, <1>7, <1>8, <1>9, <1>10, <1>11,
       <1>12 DEF Next, SocketStep, EffectStep, UserStep

-----------------------------------------------------------------------------
(* The strengthening of ClosedIsGone: as long as a save of the closed tab may
   still come, its key is among the tombstones. *)
ClosedInv ==
  tab = "closed" =>
    /\ store[Tab] = Absent
    /\ isMounted => Tab \in tombstonedKeys

LEMMA StepClosed == TypeOK /\ ClosedInv /\ [Next]_vars => ClosedInv'
  <1> SUFFICES ASSUME TypeOK, ClosedInv, [Next]_vars PROVE ClosedInv'
    OBVIOUS
  <1> USE TerminalAssumption DEF poolVars, lineVars, termVars, seenVars
  <1>1. ASSUME NEW s \in Sockets, SocketStep(s) PROVE ClosedInv'
    BY <1>1 DEF SocketStep, OnOpen, OnMessage, OnClose, ClosedInv
  <1>2. CASE Reconnect \/ UserReconnect \/ CloseWithKey
    BY <1>2 DEF Reconnect, UserReconnect, CloseWithKey, ClosedInv
  <1>3. CASE Mount
    BY <1>3 DEF Mount, ClosedInv
  <1>4. CASE NewToken \/ Unmount
    <2>1. SaveTerminalBuffer(Tab, screen) /\ screen \in SUBSET Outputs
      BY <1>4 DEF NewToken, Unmount, SaveScreen, TypeOK
    <2>2. isMounted /\ UNCHANGED <<tab, tombstonedKeys>>
      BY <1>4 DEF NewToken, Unmount
    <2> QED BY <2>1, <2>2, SaveStore DEF ClosedInv
  <1>5. ASSUME NEW r \in Runs, Restored(r) PROVE ClosedInv'
    BY <1>5 DEF Restored, ClosedInv
  <1>6. CASE ClearScrollback
    BY <1>6, ClearStore DEF ClearScrollback, ClosedInv
  <1>7. CASE CloseWithButton
    BY <1>7, ClearStore DEF CloseWithButton, CloseTerminalBuffer, ClosedInv
  <1>8. CASE Reload
    BY <1>8 DEF Reload, Dead, ClosedInv
  <1>9. ASSUME NEW k \in Keys \ {Tab}, OtherSaves(k) PROVE ClosedInv'
    <2>1. {0} \in SUBSET Outputs
      BY SavableScreens
    <2>2. store'[Tab] \in {Absent, store[Tab]}
      BY <1>9, <2>1, SaveStore DEF OtherSaves
    <2> QED BY <1>9, <2>2 DEF OtherSaves, ClosedInv
  <1>10. CASE UNCHANGED vars
    BY <1>10 DEF vars, ClosedInv
  <1> QED
    BY <1>1, <1>2, <1>3, <1>4, <1>5, <1>6, <1>7, <1>8, <1>9, <1>10
    DEF Next, EffectStep, UserStep

-----------------------------------------------------------------------------
(* The strengthening of UncutContextKept: where what the user has seen is while
   the terminal restores, and while there is none. *)
ContextInv ==
  /\ isMounted \/ wsRef = NoSocket
  /\ ~cut =>
       /\ isMounted /\ run \notin restoring => shown \subseteq screen
       /\ isMounted /\ run \in restoring => shown \subseteq queue \cup screen
       /\ ~isMounted /\ tab = "open" =>
            shown = {} \/ (store[Tab] # Absent /\ shown \subseteq store[Tab])

(* What a save of the screen leaves to the next run, or to the next page. *)
LEMMA SaveKeeps ==
  ASSUME TypeOK, ContextInv, isMounted, SaveScreen
  PROVE  /\ cut => cut'
         /\ ~cut' => shown' = {} \/ (store'[Tab] # Absent /\ shown' \subseteq store'[Tab])
  <1>1. screen # Absent
    BY SavableScreens DEF TypeOK
  <1> QED BY <1>1 DEF SaveScreen, ContextInv

(* The next run shows what it finds. *)
LEMMA BeginKeeps ==
  ASSUME NEW r, NEW saved, NEW pending, Begin(r, saved, pending),
         shown' = {} \/ (saved # Absent /\ shown' \subseteq saved)
  PROVE  shown' \subseteq queue' /\ (shown' = {} \/ r \in restoring')
  BY DEF Begin

LEMMA StepContext == TypeOK /\ OneLine /\ ContextInv /\ [Next]_vars => ContextInv'
  <1> SUFFICES ASSUME TypeOK, OneLine, ContextInv, [Next]_vars PROVE ContextInv'
    OBVIOUS
  <1> USE TerminalAssumption DEF poolVars, lineVars, termVars, seenVars
  <1>1. ASSUME NEW s \in Sockets, OnOpen(s) PROVE ContextInv'
    BY <1>1 DEF OnOpen, ContextInv
  <1>2. ASSUME NEW s \in Sockets, OnMessage(s) PROVE ContextInv'
    <2>1. isMounted
      BY <1>2 DEF OnMessage, OneLine, Live
    <2> QED BY <1>2, <2>1 DEF OnMessage, WriteTerm, ContextInv
  <1>3. ASSUME NEW s \in Sockets, OnClose(s) PROVE ContextInv'
    <2>1. UNCHANGED <<poolVars, tab, isMounted, run, wsRef, restoring, cut>>
      BY <1>3 DEF OnClose
    <2>2. (WriteTerm(socket[s].run, 0) /\ wsRef = s) \/ UNCHANGED <<screen, queue, shown>>
      BY <1>3 DEF OnClose
    <2>3. wsRef = s => isMounted
      BY DEF ContextInv
    <2> QED BY <2>1, <2>2, <2>3 DEF WriteTerm, ContextInv
  <1>4. CASE Reconnect
    <2>1. isMounted
      BY <1>4 DEF Reconnect, OneLine
    <2> QED BY <1>4, <2>1 DEF Reconnect, ContextInv
  <1>5. CASE Mount
    <2>1. isMounted' /\ run' = 1 /\ Begin(1, store[Tab], {})
      BY <1>5 DEF Mount, Begin
    <2>2. ~cut => shown = {} \/ (store[Tab] # Absent /\ shown \subseteq store[Tab])
      BY <1>5 DEF Mount, ContextInv
    <2>3. shown' = shown /\ cut' = cut
      BY <1>5 DEF Mount
    <2>4. ~cut' => shown' \subseteq queue' /\ (shown' = {} \/ 1 \in restoring')
      BY <2>1, <2>2, <2>3, BeginKeeps
    <2> QED BY <2>1, <2>4 DEF ContextInv
  <1>6. CASE NewToken
    <2>1. isMounted' /\ run' = run + 1 /\ Begin(run + 1, store'[Tab], restoring)
      BY <1>6 DEF NewToken, Begin
    <2>2. ~cut' => shown' = {} \/ (store'[Tab] # Absent /\ shown' \subseteq store'[Tab])
      BY <1>6, SaveKeeps DEF NewToken
    <2>3. ~cut' => shown' \subseteq queue' /\ (shown' = {} \/ run' \in restoring')
      BY <2>1, <2>2, BeginKeeps
    <2> QED BY <2>1, <2>3 DEF ContextInv
  <1>7. ASSUME NEW r \in Runs, Restored(r) PROVE ContextInv'
    <2>1. CASE isMounted
      BY <1>7, <2>1 DEF Restored, ContextInv
    <2>2. CASE ~isMounted
      BY <1>7, <2>2 DEF Restored, ContextInv
    <2> QED BY <2>1, <2>2
  <1>8. CASE Unmount
    BY <1>8, SaveKeeps DEF Unmount, Dead, ContextInv
  <1>9. CASE Reload
    <2>1. CASE isMounted
      BY <1>9, <2>1, SaveKeeps DEF Reload, Dead, ContextInv
    <2>2. CASE ~isMounted
      BY <1>9, <2>2 DEF Reload, Dead, ContextInv
    <2> QED BY <2>1, <2>2
  <1>10. CASE UserReconnect
    BY <1>10 DEF UserReconnect, ContextInv
  <1>11. CASE ClearScrollback \/ CloseWithButton \/ CloseWithKey
    BY <1>11 DEF ClearScrollback, CloseWithButton, CloseWithKey, ContextInv
  <1>12. ASSUME NEW k \in Keys \ {Tab}, OtherSaves(k) PROVE ContextInv'
    <2>1. {0} \in SUBSET Outputs
      BY SavableScreens
    <2>2. store'[Tab] \in {Absent, store[Tab]}
      BY <1>12, <2>1, SaveStore DEF OtherSaves
    <2> QED BY <1>12, <2>2 DEF OtherSaves, ContextInv
  <1>13. CASE UNCHANGED vars
    BY <1>13 DEF vars, ContextInv
  <1> QED
    BY <1>1, <1>2, <1>3, <1>4, <1>5, <1>6, <1>7, <1>8, <1>9, <1>10, <1>11,
       <1>12, <1>13 DEF Next, SocketStep, EffectStep, UserStep

-----------------------------------------------------------------------------
(* The pool.  The index without one of its entries, and the rest of it      *)
(* after the oldest, as facts about sequences.                              *)
Unique(s) == \A i, j \in 1 .. Len(s) : s[i] = s[j] => i = j
Elems(s) == {s[i] : i \in 1 .. Len(s)}
Oldest(s, n) == {s[i] : i \in 1 .. n}

LEMMA Removed ==
  ASSUME NEW S, NEW s \in Seq(S), NEW i \in 1 .. Len(s)
  PROVE  /\ RemoveAt(s, i) \in Seq(S)
         /\ Len(RemoveAt(s, i)) = Len(s) - 1
         /\ \A j \in 1 .. Len(s) - 1 :
              RemoveAt(s, i)[j] = IF j < i THEN s[j] ELSE s[j + 1]
  <1> DEFINE front == SubSeq(s, 1, i - 1)
             back == SubSeq(s, i + 1, Len(s))
  <1>1. i \in Nat /\ Len(s) \in Nat /\ 1 <= i /\ i <= Len(s)
    OBVIOUS
  <1>2. /\ front \in Seq(S) /\ Len(front) = i - 1
        /\ \A j \in 1 .. i - 1 : front[j] = s[j]
    BY <1>1
  <1>3. /\ back \in Seq(S) /\ Len(back) = Len(s) - i
        /\ \A j \in 1 .. Len(s) - i : back[j] = s[i + j]
    BY <1>1
  <1>4. RemoveAt(s, i) = front \o back
    BY DEF RemoveAt
  <1> HIDE DEF front, back
  <1>5. Len(front \o back) = Len(s) - 1 /\ front \o back \in Seq(S)
    <2>1. front \o back \in Seq(S) /\ Len(front \o back) = Len(front) + Len(back)
      BY <1>2, <1>3
    <2> QED BY <1>1, <1>2, <1>3, <2>1
  <1>6. ASSUME NEW j \in 1 .. Len(s) - 1
        PROVE  (front \o back)[j] = IF j < i THEN s[j] ELSE s[j + 1]
    <2>1. CASE j < i
      BY <1>1, <1>2, <1>3, <2>1
    <2>2. CASE ~(j < i)
      <3>1. j - (i - 1) \in 1 .. Len(s) - i /\ i + (j - (i - 1)) = j + 1
        BY <1>1, <2>2
      <3>2. (front \o back)[j] = back[j - (i - 1)]
        BY <1>1, <1>2, <1>3, <2>2
      <3> QED BY <1>3, <2>2, <3>1, <3>2
    <2> QED BY <2>1, <2>2
  <1> QED BY <1>4, <1>5, <1>6

LEMMA RemovedUnique ==
  ASSUME NEW S, NEW s \in Seq(S), Unique(s), NEW i \in 1 .. Len(s)
  PROVE  /\ Unique(RemoveAt(s, i))
         /\ Elems(RemoveAt(s, i)) = Elems(s) \ {s[i]}
  <1> DEFINE r == RemoveAt(s, i)
  <1>1. /\ Len(r) = Len(s) - 1 /\ Len(s) \in Nat
        /\ \A j \in 1 .. Len(s) - 1 : r[j] = IF j < i THEN s[j] ELSE s[j + 1]
    <2>1. Len(s) \in Nat
      OBVIOUS
    <2> QED BY <2>1, Removed
  <1> HIDE DEF r
  <1>2. ASSUME NEW j \in 1 .. Len(r)
        PROVE  \E m \in 1 .. Len(s) : r[j] = s[m] /\ m # i /\ m = IF j < i THEN j ELSE j + 1
    <2>1. CASE j < i
      BY <1>1, <2>1
    <2>2. CASE ~(j < i)
      <3>1. j + 1 \in 1 .. Len(s) /\ j + 1 # i
        BY <1>1, <2>2
      <3> QED BY <1>1, <2>2, <3>1
    <2> QED BY <2>1, <2>2
  <1>3. ASSUME NEW j \in 1 .. Len(r), NEW l \in 1 .. Len(r), r[j] = r[l]
        PROVE  j = l
    <2>1. PICK m \in 1 .. Len(s) : r[j] = s[m] /\ m = IF j < i THEN j ELSE j + 1
      BY <1>2
    <2>2. PICK p \in 1 .. Len(s) : r[l] = s[p] /\ p = IF l < i THEN l ELSE l + 1
      BY <1>2
    <2>3. m = p
      BY <1>3, <2>1, <2>2 DEF Unique
    <2> QED BY <2>1, <2>2, <2>3
  <1>4. ASSUME NEW j \in 1 .. Len(r) PROVE r[j] \in Elems(s) \ {s[i]}
    BY <1>2 DEF Elems, Unique
  <1>5. ASSUME NEW m \in 1 .. Len(s), s[m] # s[i] PROVE s[m] \in Elems(r)
    <2>1. CASE m < i
      <3>1. m \in 1 .. Len(r) /\ r[m] = s[m]
        BY <1>1, <2>1
      <3> QED BY <3>1 DEF Elems
    <2>2. CASE m > i
      <3>1. m - 1 \in 1 .. Len(s) - 1 /\ ~(m - 1 < i) /\ (m - 1) + 1 = m
        BY <1>1, <2>2
      <3>2. r[m - 1] = s[m] /\ m - 1 \in 1 .. Len(r)
        BY <1>1, <3>1
      <3> QED BY <3>2 DEF Elems
    <2>3. m # i
      BY <1>5
    <2> QED BY <2>1, <2>2, <2>3
  <1>6. Elems(r) = Elems(s) \ {s[i]}
    BY <1>4, <1>5 DEF Elems
  <1> QED BY <1>3, <1>6 DEF Unique, r

(* The oldest n entries go, and a key that has none is the newest.           *)
LEMMA Renewed ==
  ASSUME NEW w \in Seq(Keys), Unique(w), NEW k \in Keys, k \notin Elems(w),
         NEW n \in 0 .. Len(w), NEW e, e = Append(SubSeq(w, n + 1, Len(w)), k)
  PROVE  /\ e \in Seq(Keys) /\ Len(e) = Len(w) - n + 1 /\ Unique(e)
         /\ Elems(e) = (Elems(w) \ Oldest(w, n)) \cup {k}
  <1> DEFINE rest == SubSeq(w, n + 1, Len(w))
  <1>1. /\ rest \in Seq(Keys) /\ Len(rest) = Len(w) - n /\ Len(w) \in Nat
        /\ \A i \in 1 .. Len(w) - n : rest[i] = w[n + i] /\ n + i \in 1 .. Len(w)
    OBVIOUS
  <1>0. e = Append(rest, k)
    OBVIOUS
  <1> HIDE DEF rest
  <1>2. /\ e \in Seq(Keys) /\ Len(e) = Len(w) - n + 1 /\ e[Len(w) - n + 1] = k
        /\ \A i \in 1 .. Len(w) - n : e[i] = rest[i]
    BY <1>0, <1>1
  <1>3. \A i \in 1 .. Len(w) - n : e[i] = w[n + i] /\ n + i \in 1 .. Len(w)
    BY <1>1, <1>2
  <1>4. \A i \in 1 .. Len(e) : i \in 1 .. Len(w) - n \/ i = Len(w) - n + 1
    <2>1. Len(e) = Len(w) - n + 1 /\ Len(w) - n \in Nat
      BY <1>1, <1>2
    <2> QED BY <2>1
  <1>5. \A i \in 1 .. Len(w) - n : e[i] # k
    BY <1>3 DEF Elems
  <1>6. Unique(e)
    <2> SUFFICES ASSUME NEW i \in 1 .. Len(e), NEW j \in 1 .. Len(e), e[i] = e[j]
                 PROVE  i = j
      BY DEF Unique
    <2>1. CASE i \in 1 .. Len(w) - n /\ j \in 1 .. Len(w) - n
      <3>1. w[n + i] = w[n + j] /\ n + i \in 1 .. Len(w) /\ n + j \in 1 .. Len(w)
        BY <1>3, <2>1
      <3>2. n + i = n + j
        BY <3>1 DEF Unique
      <3> QED BY <3>2
    <2>2. CASE ~(i \in 1 .. Len(w) - n /\ j \in 1 .. Len(w) - n)
      BY <1>2, <1>4, <1>5, <2>2
    <2> QED BY <2>1, <2>2
  <1>7. ASSUME NEW i \in 1 .. Len(w) - n
        PROVE  w[n + i] \in Elems(w) /\ w[n + i] \notin Oldest(w, n)
    <2>1. n + i \in 1 .. Len(w)
      BY <1>3
    <2>2. ASSUME NEW j \in 1 .. n PROVE w[j] # w[n + i]
      <3>1. j \in 1 .. Len(w) /\ j # n + i
        BY <1>1
      <3> QED BY <2>1, <3>1 DEF Unique
    <2> QED BY <2>1, <2>2 DEF Elems, Oldest
  <1>8. ASSUME NEW m \in 1 .. Len(w), w[m] \notin Oldest(w, n)
        PROVE  w[m] \in Elems(e)
    <2>1. m \notin 1 .. n
      BY <1>8 DEF Oldest
    <2>2. m - n \in 1 .. Len(w) - n /\ n + (m - n) = m
      BY <1>1, <2>1
    <2>3. m - n \in 1 .. Len(e)
      BY <1>1, <1>2, <2>2
    <2>4. e[m - n] = w[m]
      BY <1>3, <2>2
    <2> QED BY <2>3, <2>4 DEF Elems
  <1>9. k \in Elems(e)
    <2>1. Len(w) - n + 1 \in 1 .. Len(e)
      BY <1>1, <1>2
    <2> QED BY <1>2, <2>1 DEF Elems
  <1>10. Elems(e) \subseteq (Elems(w) \ Oldest(w, n)) \cup {k}
    <2> SUFFICES ASSUME NEW i \in 1 .. Len(e)
                 PROVE  e[i] \in (Elems(w) \ Oldest(w, n)) \cup {k}
      BY DEF Elems
    <2> QED BY <1>2, <1>3, <1>4, <1>7
  <1>11. (Elems(w) \ Oldest(w, n)) \cup {k} \subseteq Elems(e)
    BY <1>8, <1>9 DEF Elems
  <1> QED BY <1>2, <1>6, <1>10, <1>11

(* No more members than writes were refused.                                 *)
AsFew(S, n) == IsFiniteSet(S) /\ Cardinality(S) <= n

(* Each key has one entry, and the screens without an entry, as the entries  *)
(* without a screen, are as few as the writes that were refused.             *)
PoolInv ==
  /\ index \in Seq(Keys) /\ Unique(index) /\ Len(index) <= MaxBuffers
  /\ troubles \in Nat
  /\ AsFew(Stored \ Indexed, troubles)
  /\ AsFew(Indexed \ Stored, troubles)

LEMMA WithoutOne ==
  ASSUME PoolInv, NEW k \in Keys
  PROVE  /\ Without(k) \in Seq(Keys) /\ Unique(Without(k))
         /\ Elems(Without(k)) = Indexed \ {k}
         /\ Len(Without(k)) <= Len(index)
  <1> USE DEF PoolInv
  <1>1. Elems(index) = Indexed
    BY DEF Elems, Indexed
  <1>2. CASE k \in Indexed
    <2> DEFINE i == CHOOSE j \in 1 .. Len(index) : index[j] = k
    <2>1. i \in 1 .. Len(index) /\ index[i] = k
      BY <1>2 DEF Indexed
    <2>2. Without(k) = RemoveAt(index, i)
      BY <1>2 DEF Without
    <2> HIDE DEF i
    <2>3. Len(index) \in Nat
      OBVIOUS
    <2> QED BY <1>1, <2>1, <2>2, <2>3, Removed, RemovedUnique
  <1>3. CASE k \notin Indexed
    BY <1>1, <1>3 DEF Without
  <1> QED BY <1>2, <1>3

LEMMA EntriesOf ==
  ASSUME PoolInv, NEW k \in Keys
  PROVE  /\ Entries(k) \in Seq(Keys) /\ Unique(Entries(k)) /\ Len(Entries(k)) <= MaxBuffers
         /\ Elems(Entries(k)) = (Indexed \ Evicted(k)) \cup {k}
         /\ k \notin Evicted(k)
  <1> DEFINE w == Without(k)
             n == Surplus(k)
  <1>1. w \in Seq(Keys) /\ Unique(w) /\ Elems(w) = Indexed \ {k} /\ Len(w) \in Nat
    BY WithoutOne
  <1>2. n \in 0 .. Len(w) /\ Len(w) - n + 1 <= MaxBuffers
    BY <1>1, PoolAssumption DEF Surplus
  <1>3. Evicted(k) = Oldest(w, n)
    BY DEF Evicted, Oldest
  <1>4. Entries(k) = Append(SubSeq(w, n + 1, Len(w)), k)
    BY DEF Entries
  <1> HIDE DEF w, n
  <1>5. /\ Entries(k) \in Seq(Keys) /\ Len(Entries(k)) = Len(w) - n + 1 /\ Unique(Entries(k))
        /\ Elems(Entries(k)) = (Elems(w) \ Oldest(w, n)) \cup {k}
    <2>1. k \notin Elems(w)
      BY <1>1
    <2>2. w \in Seq(Keys) /\ Unique(w) /\ n \in 0 .. Len(w)
      BY <1>1, <1>2
    <2> QED BY <1>4, <2>1, <2>2, Renewed
  <1>6. k \notin Evicted(k)
    <2>1. \A i \in 1 .. n : w[i] \in Elems(w)
      BY <1>1, <1>2 DEF Elems
    <2> QED BY <1>1, <1>3, <2>1 DEF Oldest
  <1> QED BY <1>1, <1>2, <1>3, <1>5, <1>6

LEMMA NoMore ==
  ASSUME NEW S, NEW n \in Nat, AsFew(S, n), NEW T \in SUBSET S
  PROVE  AsFew(T, n)
  <1>1. IsFiniteSet(T) /\ Cardinality(T) <= Cardinality(S)
    BY FS_Subset DEF AsFew
  <1>2. Cardinality(S) \in Nat /\ Cardinality(T) \in Nat
    BY <1>1, FS_CardinalityType DEF AsFew
  <1> QED BY <1>1, <1>2 DEF AsFew

LEMMA OneMore ==
  ASSUME NEW S, NEW n \in Nat, AsFew(S, n), NEW x, NEW T \in SUBSET (S \cup {x})
  PROVE  AsFew(T, n + 1)
  <1>1. /\ IsFiniteSet(S \cup {x})
        /\ Cardinality(S \cup {x}) = IF x \in S THEN Cardinality(S) ELSE Cardinality(S) + 1
    BY FS_AddElement DEF AsFew
  <1>2. Cardinality(S) \in Nat
    BY FS_CardinalityType DEF AsFew
  <1>3. AsFew(S \cup {x}, n + 1)
    BY <1>1, <1>2 DEF AsFew
  <1> QED BY <1>3, NoMore

(* A refused write makes room for one entry at most, and for none when its   *)
(* key has one: there is one key at most whose screen goes and whose entry   *)
(* stays.                                                                    *)
LEMMA OneEvicted ==
  ASSUME PoolInv, NEW k \in Keys
  PROVE  \E e : Evicted(k) \cup (Indexed \cap {k}) \subseteq {e}
  <1> DEFINE w == Without(k)
  <1>1. Len(w) \in Nat /\ Len(index) \in Nat /\ Len(w) <= Len(index)
    BY WithoutOne DEF PoolInv
  <1>2. CASE k \in Indexed
    <2> DEFINE i == CHOOSE j \in 1 .. Len(index) : index[j] = k
    <2>1. i \in 1 .. Len(index) /\ w = RemoveAt(index, i)
      BY <1>2 DEF Indexed, Without
    <2> HIDE DEF i, w
    <2>2. Len(w) = Len(index) - 1
      BY <1>1, <2>1, Removed DEF PoolInv
    <2>3. Len(w) < MaxBuffers
      BY <1>1, <2>2, PoolAssumption DEF PoolInv
    <2>4. Surplus(k) = 0
      BY <1>1, <2>3, PoolAssumption DEF Surplus, w
    <2>5. Evicted(k) = {}
      BY <2>4 DEF Evicted
    <2> QED BY <2>5
  <1>3. CASE k \notin Indexed
    <2>1. Surplus(k) \in {0, 1}
      BY <1>1, PoolAssumption DEF Surplus, PoolInv
    <2>2. Evicted(k) \subseteq {w[1]}
      BY <2>1 DEF Evicted
    <2> QED BY <1>3, <2>2
  <1> QED BY <1>2, <1>3

(* What a save leaves under each key.                                        *)
LEMMA ScreensOf ==
  ASSUME TypeOK, NEW k \in Keys, NEW v, store' = Screens(k, v)
  PROVE  Stored' = {e \in Keys : IF e = k THEN v # Absent
                                 ELSE e \in Stored /\ e \notin Evicted(k)}
  BY DEF Stored, Screens

LEMMA SavePool ==
  ASSUME TypeOK, PoolInv, NEW k \in Keys, NEW v \in SUBSET Outputs, SaveTerminalBuffer(k, v)
  PROVE  PoolInv'
  <1>1. CASE UNCHANGED <<index, store, troubles>>
    BY <1>1 DEF PoolInv, Stored, Indexed
  <1>2. CASE Write(k, v)
    <2>1. Stored' = (Stored \ Evicted(k)) \cup {k}
      BY <1>2, ScreensOf, SavableScreens, EntriesOf DEF Write, Stored
    <2>2. Indexed' = (Indexed \ Evicted(k)) \cup {k}
      BY <1>2, EntriesOf DEF Write, Elems, Indexed
    <2>3. /\ index' \in Seq(Keys) /\ Unique(index') /\ Len(index') <= MaxBuffers
          /\ troubles' = troubles /\ troubles' \in Nat
      BY <1>2, EntriesOf DEF Write, PoolInv
    <2>4. Stored' \ Indexed' \subseteq Stored \ Indexed /\ Indexed' \ Stored' \subseteq Indexed \ Stored
      BY <2>1, <2>2
    <2> QED BY <2>3, <2>4, NoMore DEF PoolInv
  <1>3. CASE WriteUnindexed(k, v) \/ WriteRefused(k) \/ WriteTooLarge
    <2>1. index' = index /\ troubles' = troubles + 1 /\ Indexed' = Indexed
      BY <1>3 DEF WriteUnindexed, WriteRefused, WriteTooLarge, Trouble, Indexed
    <2>2. PICK e : Evicted(k) \cup (Indexed \cap {k}) \subseteq {e}
      BY OneEvicted
    <2>3. /\ Stored' \subseteq Stored \cup {k}
          /\ Stored \subseteq Stored' \cup Evicted(k) \cup {k}
      <3>1. CASE store' = store
        BY <3>1 DEF Stored
      <3>2. CASE store' = Screens(k, v) \/ store' = Screens(k, Absent)
        BY <3>2, ScreensOf DEF Stored
      <3> QED BY <1>3, <3>1, <3>2 DEF WriteUnindexed, WriteRefused, WriteTooLarge
    <2>4. /\ Stored' \ Indexed' \subseteq (Stored \ Indexed) \cup {k}
          /\ Indexed' \ Stored' \subseteq (Indexed \ Stored) \cup {e}
      BY <2>1, <2>2, <2>3
    <2>5. AsFew(Stored' \ Indexed', troubles + 1)
      BY <2>4, OneMore DEF PoolInv
    <2>6. AsFew(Indexed' \ Stored', troubles + 1)
      BY <2>4, OneMore DEF PoolInv
    <2> QED BY <2>1, <2>5, <2>6 DEF PoolInv
  <1> QED BY <1>1, <1>2, <1>3 DEF SaveTerminalBuffer

LEMMA ClearPool ==
  ASSUME TypeOK, PoolInv, NEW k \in Keys, ClearTerminalBuffer(k)
  PROVE  PoolInv'
  <1>1. Stored' = Stored \ {k}
    BY SavableScreens DEF ClearTerminalBuffer, Stored, TypeOK
  <1>2. Indexed' = Indexed \ {k}
    BY WithoutOne DEF ClearTerminalBuffer, Indexed, Elems
  <1>3. /\ index' \in Seq(Keys) /\ Unique(index') /\ Len(index') <= Len(index)
        /\ troubles' = troubles
    BY WithoutOne DEF ClearTerminalBuffer
  <1>4. Len(index') <= MaxBuffers /\ troubles' \in Nat
    <2>1. Len(index') \in Nat /\ Len(index) \in Nat /\ MaxBuffers \in Nat
      BY <1>3, PoolAssumption DEF PoolInv
    <2> QED BY <1>3, <2>1 DEF PoolInv
  <1>5. Stored' \ Indexed' \subseteq Stored \ Indexed /\ Indexed' \ Stored' \subseteq Indexed \ Stored
    BY <1>1, <1>2
  <1> QED BY <1>3, <1>4, <1>5, NoMore DEF PoolInv

LEMMA StepPool ==
  ASSUME TypeOK, PoolInv, [Next]_vars
  PROVE  PoolInv'
  <1> DEFINE pool == <<index, store, troubles>>
  <1>1. CASE UNCHANGED pool
    BY <1>1 DEF PoolInv, Stored, Indexed
  <1>2. CASE \E k \in Keys, v \in SUBSET Outputs : SaveTerminalBuffer(k, v)
    BY <1>2, SavePool
  <1>3. CASE \E k \in Keys : ClearTerminalBuffer(k)
    BY <1>3, ClearPool
  <1>4. ASSUME NEW s \in Sockets, SocketStep(s) PROVE UNCHANGED pool
    BY <1>4 DEF SocketStep, OnOpen, OnMessage, OnClose, poolVars
  <1>5. CASE Reconnect \/ Mount \/ UserReconnect \/ CloseWithKey \/ UNCHANGED vars
             \/ \E r \in Runs : Restored(r)
    BY <1>1, <1>5 DEF Reconnect, Mount, UserReconnect, CloseWithKey, vars, Restored, poolVars
  <1>6. Tab \in Keys /\ screen \in SUBSET Outputs /\ {0} \in SUBSET Outputs
    BY TerminalAssumption, SavableScreens DEF TypeOK
  <1>7. CASE NewToken \/ Unmount \/ Reload
    BY <1>1, <1>2, <1>6, <1>7 DEF NewToken, Unmount, Reload, SaveScreen
  <1>8. CASE ClearScrollback \/ CloseWithButton
    BY <1>3, <1>6, <1>8 DEF ClearScrollback, CloseWithButton, CloseTerminalBuffer
  <1>9. ASSUME NEW k \in Keys \ {Tab}, OtherSaves(k) PROVE PoolInv'
    BY <1>2, <1>6, <1>9 DEF OtherSaves
  <1> QED
    BY <1>1, <1>4, <1>5, <1>7, <1>8, <1>9 DEF Next, EffectStep, UserStep

LEMMA InitPool == Init => PoolInv
  <1> SUFFICES ASSUME Init PROVE PoolInv
    OBVIOUS
  <1>1. index = <<>> /\ troubles = 0 /\ Stored = {}
    BY DEF Init, PoolInit, Stored
  <1>2. index \in Seq(Keys) /\ Len(index) = 0 /\ Unique(index) /\ Indexed = {}
    BY <1>1 DEF Unique, Indexed
  <1> QED BY <1>1, <1>2, FS_EmptySet, PoolAssumption DEF PoolInv, AsFew

-----------------------------------------------------------------------------
LEMMA InitInvariants ==
  Init => OneLine /\ StatusHonest /\ CurrentInv /\ ClosedInv /\ ContextInv
  BY DEF Init, PoolInit, Free, OneLine, StatusHonest, CurrentInv, ClosedInv,
         ContextInv, Live

(* Every reachable state is well typed. *)
THEOREM TypeCorrect == Spec => []TypeOK
  BY InitTypeOK, StepTypeOK, PTL DEF Spec

(* A tab never holds two lines, a line without its component, or a reconnect
   that would cut a session. *)
THEOREM AlwaysOneLine == Spec => []OneLine
  BY InitInvariants, StepLine, TypeCorrect, PTL DEF Spec

(* The status tells the truth of the line, whatever older sockets do. *)
THEOREM AlwaysStatusHonest == Spec => []StatusHonest
  BY InitInvariants, StepLine, TypeCorrect, PTL DEF Spec

(* The line, and the reconnect waited for, are of the current token. *)
THEOREM AlwaysCurrentLine == Spec => []CurrentLine
  <1>1. CurrentInv => CurrentLine
    BY DEF CurrentInv, CurrentLine
  <1> QED BY <1>1, InitInvariants, StepCurrent, TypeCorrect, PTL DEF Spec

(* A screen closed with its button never comes back. *)
THEOREM AlwaysClosedIsGone == Spec => []ClosedIsGone
  <1>1. ClosedInv => ClosedIsGone
    BY DEF ClosedInv, ClosedIsGone
  <1> QED BY <1>1, InitInvariants, StepClosed, TypeCorrect, PTL DEF Spec

(* A context that was not cut short by a terminal's going while it restored is
   on the screen again. *)
THEOREM AlwaysUncutContextKept == Spec => []UncutContextKept
  <1>1. ContextInv => UncutContextKept
    BY DEF ContextInv, UncutContextKept, ContextKept
  <1> QED
    BY <1>1, InitInvariants, StepContext, TypeCorrect, AlwaysOneLine, PTL DEF Spec

(* However the tabs save, clear and close, the index holds MaxBuffers entries
   at most, one for each key, and every screen it does not know of was left by
   a write that was refused. *)
THEOREM AlwaysPoolBounded == Spec => []PoolBounded
  <1>1. PoolInv => PoolBounded
    BY DEF PoolInv, PoolBounded, AsFew
  <1> QED BY <1>1, InitPool, StepPool, TypeCorrect, PTL DEF Spec
=============================================================================
