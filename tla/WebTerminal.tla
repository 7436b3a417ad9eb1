---------------------------- MODULE WebTerminal ----------------------------
(***************************************************************************)
(* One tab of the console's web terminal                                   *)
(* (apps/console/src/components/sandboxes/terminal.tsx): its WebSocket,    *)
(* the reconnection after an abnormal close, and the screen it saves when  *)
(* it goes and restores when it comes.  The other tabs only save theirs.   *)
(*                                                                         *)
(* The component's effect runs again with every access token, on the same  *)
(* refs: the closures of a run (its token, its xterm) may be called in a   *)
(* later one.  A run is named by its number; sockets, the timer and the    *)
(* restore callbacks remember the run whose closure they are.              *)
(***************************************************************************)
EXTENDS TerminalBuffers

CONSTANTS
  Tab,           \* the key of this tab
  Sockets,       \* bound: sockets the browser holds for the tab at a time
  NoSocket,      \* wsRef.current = null
  MaxAttempts,   \* RECONNECT_MAX_ATTEMPTS
  MaxRuns,       \* bound: access tokens during one life of the component
  MaxOutput      \* bound: things written by the shell

ASSUME TerminalAssumption ==
  /\ Tab \in Keys
  /\ NoSocket \notin Sockets
  /\ MaxAttempts \in Nat
  /\ MaxRuns \in Nat \ {0}
  /\ MaxOutput \in Nat
  /\ \A v \in SUBSET (0 .. MaxOutput) : v # Absent

Runs == 1 .. MaxRuns
NoTimer == 0

(* What may be on a screen: notices (0), and what the shell has written. *)
Outputs == 0 .. MaxOutput
Savable == {Absent} \cup SUBSET Outputs

VARIABLES
  tab,                \* open, or closed with its button or with the keyboard
  isMounted,          \* isMountedRef
  run,                \* the current run of the effect
  wsRef,              \* wsRef.current
  socket,             \* the sockets the browser still knows of
  reconnectTimer,     \* reconnectTimerRef: the run of its closure, or NoTimer
  reconnectAttempts,  \* reconnectAttemptsRef
  status,             \* the status the user sees
  screen,             \* what the current xterm shows
  queue,              \* what it has been given and has not parsed yet
  restoring,          \* the runs whose restore has not called back yet
  output,             \* how much the shell has written
  shown,              \* what the user has seen on this tab and not lost since
  stray,              \* the closure of a past run, or a failed one, took the line
  cut                 \* the terminal went while it was restoring

lineVars == <<wsRef, socket, reconnectTimer, reconnectAttempts, status>>
termVars == <<screen, queue, restoring>>
seenVars == <<output, shown, stray, cut>>
vars == <<poolVars, tab, isMounted, run, lineVars, termVars, seenVars>>

Free == [state |-> "free", run |-> 0]
Phases == {"free", "connecting", "open", "aborting", "closing", "closed"}
Live(s) == socket[s].state \in {"connecting", "open"}

(* close(1000): a handshake still under way is aborted. *)
HungUp(k) == CASE k.state = "connecting" -> [k EXCEPT !.state = "aborting"]
               [] k.state = "open" -> [k EXCEPT !.state = "closing"]
               [] OTHER -> k
HangUp == [s \in Sockets |-> IF s = wsRef THEN HungUp(socket[s]) ELSE socket[s]]

(* A superseded socket that has ended is forgotten. *)
Unused == {s \in Sockets : socket[s].state \in {"free", "closed"} /\ s # wsRef}

Init ==
  /\ PoolInit
  /\ tab = "open"
  /\ isMounted = FALSE
  /\ run = 1
  /\ wsRef = NoSocket
  /\ socket = [s \in Sockets |-> Free]
  /\ reconnectTimer = NoTimer
  /\ reconnectAttempts = 0
  /\ status = "connecting"
  /\ screen = {} /\ queue = {} /\ restoring = {}
  /\ output = 0 /\ shown = {} /\ stray = FALSE /\ cut = FALSE

-----------------------------------------------------------------------------
(* connectWebSocket *)

(* Mutant: the timer is left running. *)
ConnectKeepsTimer(r) ==
  /\ UNCHANGED reconnectTimer
  /\ \E s \in Unused :
       /\ socket' = [HangUp EXCEPT ![s] = [state |-> "connecting", run |-> r]]
       /\ wsRef' = s
       /\ status' = "connecting"

(* With the closure of run r.  The constructor may throw: wsRef stays.  (The
   notice of it on the screen is left out.) *)
ConnectWebSocket(r) ==
  /\ reconnectTimer' = NoTimer
  /\ \/ \E s \in Unused :
          /\ socket' = [HangUp EXCEPT ![s] = [state |-> "connecting", run |-> r]]
          /\ wsRef' = s
          /\ status' = "connecting"
     \/ /\ socket' = HangUp
        /\ status' = "error"
        /\ UNCHANGED wsRef

(* The line is lost to the closure of a past run, or to a failed one. *)
Astray(past) == stray' = (stray \/ past \/ status' = "error")

(* term.write of run r; an xterm that is still restoring parses it later. *)
WriteTerm(r, c) ==
  IF r # run THEN UNCHANGED <<screen, queue, shown>>
  ELSE IF r \in restoring
       THEN queue' = queue \cup {c} /\ UNCHANGED <<screen, shown>>
       ELSE /\ screen' = screen \cup {c}
            /\ shown' = shown \cup {c}
            /\ UNCHANGED queue

OnOpen(s) ==
  /\ socket[s].state = "connecting"
  /\ socket' = [socket EXCEPT ![s].state = "open"]
  /\ IF wsRef = s THEN status' = "connected" /\ reconnectAttempts' = 0
                  ELSE UNCHANGED <<status, reconnectAttempts>>
  /\ UNCHANGED <<poolVars, tab, isMounted, run, wsRef, reconnectTimer, termVars,
                 seenVars>>

OnMessage(s) ==
  /\ socket[s].state = "open"
  /\ output < MaxOutput
  /\ output' = output + 1
  /\ IF wsRef = s THEN WriteTerm(socket[s].run, output')
                  ELSE UNCHANGED <<screen, queue, shown>>
  /\ UNCHANGED <<poolVars, tab, isMounted, run, lineVars, restoring, stray, cut>>

(* The codes a socket can end with. *)
CloseCodes(s) == CASE socket[s].state = "open" -> {1000, 1001, 1006, 1011}
                   [] socket[s].state = "closing" -> {1000, 1006}
                   [] socket[s].state \in {"connecting", "aborting"} -> {1006}
                   [] OTHER -> {}

(* Mutant: the attempts are not counted. *)
ScheduleForEver(s, code) ==
  IF isMounted /\ code \notin {1000, 1001}
  THEN reconnectTimer' = socket[s].run /\ UNCHANGED reconnectAttempts
  ELSE UNCHANGED <<reconnectTimer, reconnectAttempts>>

(* An abnormal close is retried with a delay, MaxAttempts times in a row. *)
ScheduleReconnect(s, code) ==
  IF isMounted /\ code \notin {1000, 1001} /\ reconnectAttempts < MaxAttempts
  THEN /\ reconnectTimer' = socket[s].run
       /\ reconnectAttempts' = reconnectAttempts + 1
  ELSE UNCHANGED <<reconnectTimer, reconnectAttempts>>

(* Mutant: the end of a superseded socket is taken for the end of the line. *)
OnCloseOfAny(s) ==
  \E code \in CloseCodes(s) :
    /\ socket' = [socket EXCEPT ![s].state = "closed"]
    /\ WriteTerm(socket[s].run, 0)
    /\ status' = "disconnected"
    /\ ScheduleReconnect(s, code)
    /\ UNCHANGED <<poolVars, tab, isMounted, run, wsRef, restoring, output, stray,
                   cut>>

(* onclose, and the onerror that precedes it in the same task: a notice on the
   screen, and perhaps another attempt. *)
OnClose(s) ==
  \E code \in CloseCodes(s) :
    /\ socket' = [socket EXCEPT ![s].state = "closed"]
    /\ IF wsRef = s
       THEN /\ WriteTerm(socket[s].run, 0)
            /\ status' = "disconnected"
            /\ ScheduleReconnect(s, code)
       ELSE UNCHANGED <<screen, queue, shown, status, reconnectTimer,
                        reconnectAttempts>>
    /\ UNCHANGED <<poolVars, tab, isMounted, run, wsRef, restoring, output, stray,
                   cut>>

Reconnect ==
  /\ reconnectTimer # NoTimer
  /\ IF isMounted THEN ConnectWebSocket(reconnectTimer)
     ELSE reconnectTimer' = NoTimer /\ UNCHANGED <<wsRef, socket, status>>
  /\ Astray(FALSE)
  /\ UNCHANGED <<poolVars, tab, isMounted, run, reconnectAttempts, termVars,
                 output, shown, cut>>

-----------------------------------------------------------------------------
(* The effect: a run begins with the screen it finds; without one it connects
   at once, else when the restore calls back. *)
Begin(r, saved, pending) ==
  /\ run' = r
  /\ isMounted' = TRUE
  /\ screen' = {}
  /\ IF saved \in {Absent, {}}
     THEN /\ queue' = {} /\ restoring' = pending
          /\ ConnectWebSocket(r)
     ELSE /\ queue' = saved /\ restoring' = pending \cup {r}
          /\ socket' = HangUp /\ reconnectTimer' = NoTimer
          /\ UNCHANGED <<wsRef, status>>
  /\ Astray(FALSE)

Mount ==
  /\ tab = "open" /\ ~isMounted
  /\ Begin(1, store[Tab], {})
  /\ UNCHANGED <<poolVars, tab, reconnectAttempts, output, shown, cut>>

(* What the user has seen is kept if it is what has been saved. *)
SaveScreen ==
  /\ SaveTerminalBuffer(Tab, screen)
  /\ shown' = IF store'[Tab] = screen THEN shown ELSE {}
  /\ cut' = (cut \/ run \in restoring)
  /\ UNCHANGED output

(* A new access token: the cleanup of one run and the next one. *)
NewToken ==
  /\ isMounted /\ run < MaxRuns
  /\ SaveScreen
  /\ Begin(run + 1, store'[Tab], restoring)
  /\ UNCHANGED <<tombstonedKeys, tab, reconnectAttempts>>

(* Mutant: the callback does not ask whether the terminal is still there. *)
RestoredAnyway(r) ==
  /\ r \in restoring
  /\ restoring' = restoring \ {r}
  /\ ConnectWebSocket(r)
  /\ Astray(FALSE)
  /\ UNCHANGED <<poolVars, tab, isMounted, run, reconnectAttempts, screen, queue,
                 output, shown, cut>>

(***************************************************************************)
(* The saved screen is on the terminal: connect.  The callback of an       *)
(* earlier run comes from an xterm disposed since, if it comes at all.     *)
(***************************************************************************)
Restored(r) ==
  /\ r \in restoring
  /\ restoring' = restoring \ {r}
  /\ IF r = run /\ isMounted
     THEN /\ screen' = screen \cup queue /\ queue' = {}
          /\ shown' = shown \cup queue
     ELSE UNCHANGED <<screen, queue, shown>>
  /\ IF isMounted THEN ConnectWebSocket(r) /\ Astray(r # run)
     ELSE UNCHANGED <<wsRef, socket, reconnectTimer, status, stray>>
  /\ UNCHANGED <<poolVars, tab, isMounted, run, reconnectAttempts, output, cut>>

(* The refs go with the instance; the sockets stay with the browser. *)
Dead ==
  /\ isMounted' = FALSE
  /\ wsRef' = NoSocket
  /\ reconnectTimer' = NoTimer
  /\ reconnectAttempts' = 0
  /\ status' = "connecting"
  /\ screen' = {} /\ queue' = {}
  /\ run' = 1
  /\ stray' = FALSE

(* The cleanup when the component goes: the tab is closed, or the user leaves
   the page of this sandbox. *)
Unmount ==
  /\ isMounted
  /\ SaveScreen
  /\ Dead
  /\ socket' = HangUp
  /\ UNCHANGED <<tombstonedKeys, tab, restoring>>

-----------------------------------------------------------------------------
(* The user *)

(* handleReconnect: the button is there once the line is down. *)
UserReconnect ==
  /\ isMounted /\ status \in {"disconnected", "error"}
  /\ reconnectAttempts' = 0
  /\ ConnectWebSocket(run)
  /\ Astray(FALSE)
  /\ UNCHANGED <<poolVars, tab, isMounted, run, termVars, output, shown, cut>>

ClearScrollback ==
  /\ isMounted /\ status \in {"disconnected", "error"}
  /\ ClearTerminalBuffer(Tab)
  /\ screen' = {} /\ shown' = {}
  /\ UNCHANGED <<tombstonedKeys, tab, isMounted, run, lineVars, queue, restoring,
                 output, stray, cut>>

(* handleClose: the tab goes with its buffer; its unmounting follows. *)
CloseWithButton ==
  /\ isMounted /\ tab = "open"
  /\ tab' = "closed"
  /\ CloseTerminalBuffer(Tab)
  /\ UNCHANGED <<isMounted, run, lineVars, termVars, seenVars>>

(* The shortcut closes the tab and leaves its buffer. *)
CloseWithKey ==
  /\ isMounted /\ tab = "open"
  /\ tab' = "left"
  /\ UNCHANGED <<poolVars, isMounted, run, lineVars, termVars, seenVars>>

(* Mutant: only the cleanup saves, which a reload does not run. *)
ReloadUnsaved ==
  /\ isMounted => tab = "open"
  /\ UNCHANGED <<index, store, troubles, output, shown, cut>>
  /\ tombstonedKeys' = {}
  /\ Dead
  /\ socket' = [s \in Sockets |-> Free]
  /\ restoring' = {}
  /\ UNCHANGED tab

(* pagehide saves the screen; the next page knows nothing of this one.  (The
   closing of a tab and its unmounting are one task.) *)
Reload ==
  /\ isMounted => tab = "open"
  /\ IF isMounted THEN SaveScreen
     ELSE UNCHANGED <<index, store, troubles, output, shown, cut>>
  /\ tombstonedKeys' = {}
  /\ Dead
  /\ socket' = [s \in Sockets |-> Free]
  /\ restoring' = {}
  /\ UNCHANGED tab

(* Another tab saves its screen, and may push this one's out. *)
OtherSaves(k) ==
  /\ SaveTerminalBuffer(k, {0})
  /\ shown' = IF ~isMounted /\ store'[Tab] = Absent THEN {} ELSE shown
  /\ UNCHANGED <<tombstonedKeys, tab, isMounted, run, lineVars, termVars, output,
                 stray, cut>>

-----------------------------------------------------------------------------
SocketStep(s) == OnOpen(s) \/ OnMessage(s) \/ OnClose(s)
EffectStep == Mount \/ NewToken \/ Unmount \/ \E r \in Runs : Restored(r)
UserStep == UserReconnect \/ ClearScrollback \/ CloseWithButton \/ CloseWithKey
            \/ Reload

Next ==
  \/ \E s \in Sockets : SocketStep(s)
  \/ Reconnect
  \/ EffectStep
  \/ UserStep
  \/ \E k \in Keys \ {Tab} : OtherSaves(k)

Spec == Init /\ [][Next]_vars

(* The browser ends every handshake and every closing, runs its timers, and
   xterm parses what it is given. *)
Fairness ==
  /\ \A s \in Sockets : WF_vars(OnOpen(s) \/ (~Live(s) /\ OnClose(s)))
  /\ WF_vars(Reconnect)
  /\ WF_vars(Restored(run))

FairSpec == Spec /\ Fairness

-----------------------------------------------------------------------------
(* Properties *)

TypeOK ==
  /\ tab \in {"open", "closed", "left"}
  /\ isMounted \in BOOLEAN
  /\ run \in Runs
  /\ wsRef \in Sockets \cup {NoSocket}
  /\ socket \in [Sockets -> [state : Phases, run : Runs \cup {0}]]
  /\ reconnectTimer \in Runs \cup {NoTimer}
  /\ reconnectAttempts \in 0 .. MaxAttempts
  /\ status \in {"connecting", "connected", "disconnected", "error"}
  /\ restoring \subseteq Runs
  /\ output \in Outputs
  /\ screen \in SUBSET Outputs
  /\ queue \in SUBSET Outputs
  /\ shown \in SUBSET Outputs
  /\ store \in [Keys -> Savable]
  /\ stray \in BOOLEAN /\ cut \in BOOLEAN

(***************************************************************************)
(* A tab holds one line at most: a socket that has been superseded, or     *)
(* whose component has gone, is closed (terminal.tsx:185, 522), and a      *)
(* reconnect only waits for a line that is down, so it never cuts a        *)
(* session the user has got back meanwhile.                                *)
(***************************************************************************)
OneLine ==
  /\ \A s \in Sockets : Live(s) => s = wsRef /\ isMounted
  /\ reconnectTimer # NoTimer =>
       isMounted /\ wsRef # NoSocket /\ socket[wsRef].state = "closed"

(***************************************************************************)
(* The line of a terminal that has restored its screen, and the reconnect  *)
(* it waits for, are of the current token and write on the xterm the user  *)
(* sees, although the refs outlive the closures (terminal.tsx:182-267) --  *)
(* unless a restore of an earlier run called back late, or the constructor *)
(* of the new socket threw and left the old one in its place.              *)
(***************************************************************************)
CurrentLine ==
  (isMounted /\ run \notin restoring /\ ~stray) =>
    /\ wsRef # NoSocket /\ Live(wsRef) => socket[wsRef].run = run
    /\ reconnectTimer # NoTimer => reconnectTimer = run

LineTruth ==
  /\ status = "connecting" <=>
       wsRef # NoSocket /\ socket[wsRef].state = "connecting"
  /\ status = "connected" <=> wsRef # NoSocket /\ socket[wsRef].state = "open"

(***************************************************************************)
(* The status, and with it the Reconnect button (terminal.tsx:695), tells  *)
(* the truth of the line whatever events of older sockets arrive: a user   *)
(* whose line is down is never shown a spinner or a live terminal.         *)
(***************************************************************************)
StatusHonest == isMounted /\ run \notin restoring => LineTruth

(***************************************************************************)
(* A screen the user closed with its button is gone, although the cleanup  *)
(* that follows saves again (terminal-tabs-storage.ts:112-117).            *)
(***************************************************************************)
ClosedIsGone == tab = "closed" => store[Tab] = Absent

(***************************************************************************)
(* "users keep their context across reloads"                               *)
(* (terminal-tabs-storage.ts:102-103): what the user has seen on a tab is  *)
(* on it again after a reload, a new token or a return to the page, unless *)
(* it was cleared, evicted or refused for quota.                           *)
(***************************************************************************)
ContextKept == isMounted /\ run \notin restoring => shown \subseteq screen

(***************************************************************************)
(* The context is kept when no terminal goes while it is still restoring:  *)
(* the save of a run is what the next one shows, whatever happened to the  *)
(* line, the tokens and the other tabs between (terminal.tsx:409-416, 500- *)
(* 512, 525-535).                                                          *)
(***************************************************************************)
UncutContextKept == ~cut => ContextKept

(***************************************************************************)
(* The retries of a line that cannot be had come to an end                 *)
(* (terminal.tsx:246): again and again the terminal is connected, gone, or *)
(* waits for the user, unless the user reconnects for ever.                *)
(***************************************************************************)
Settled ==
  \/ ~isMounted
  \/ status \in {"connected", "error"}
  \/ status = "disconnected" /\ reconnectTimer = NoTimer

RetriesEnd == []<>Settled \/ []<><<UserReconnect>>_vars
=============================================================================
