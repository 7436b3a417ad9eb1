---------------------------- MODULE TeamDirectory ----------------------------
(***************************************************************************)
(* The teams of a user in the databases of all cells, and the directory    *)
(* that reads them through the cache of a server process                   *)
(* (apps/console/src/lib/api/team-directory.ts:32-170).  Requests of the   *)
(* user read it and make teams; a team has the name of its request, Old is *)
(* one he may have had before.                                             *)
(***************************************************************************)
EXTENDS Naturals

CONSTANTS
  Requests,  \* requests that reach the server
  Cells,     \* configuredRegions()
  Default,   \* DEFAULT_REGION
  Old,       \* the team from before
  Nobody     \* no request

ASSUME DirectoryAssumption ==
  /\ Default \in Cells
  /\ Old \notin Requests /\ Nobody \notin Requests

Teams == Requests \cup {Old}

(* The tables that hold a team, in the order a team is written. *)
Tables == {"team", "team_member", "team_memberships", "user_role_assignments"}

VARIABLES
  rows,      \* the tables with a row of each team
  cell,      \* the cell of each team
  entry,     \* the user's entry of directoryCache, 0 if there is none
  entries,   \* entries made so far
  promise,   \* entry.promise: the request whose fan-out it is, or Nobody
  held,      \* what it was resolved to
  healthy,   \* entries whose lastResult is complete and empty
  fetch,     \* the fan-out of each request
  waits,     \* the request on whose fan-out each request waits
  seen       \* what it was answered

cacheVars == <<entry, entries, promise, held, healthy>>
readVars == <<fetch, waits, seen>>
dirVars == <<rows, cell, cacheVars, readVars>>

NoFetch == [entry |-> 0, todo |-> {}, found |-> {}, degraded |-> {},
            concurrent |-> FALSE]

(* A MembershipDirectory.  One that misses the default cell is a rejection. *)
Directory(found, degraded) == [found |-> found, degraded |-> degraded]
Nothing == Directory({}, {})
Rejected(d) == Default \in d.degraded

(* A row of either table lists a team: the console revokes no membership. *)
Listed(t) == rows[t] \cap {"team_member", "team_memberships"} # {}

DirInit ==
  /\ rows \in [Teams -> {{}, Tables}] /\ \A r \in Requests : rows[r] = {}
  /\ cell \in [Teams -> Cells] /\ \A r \in Requests : cell[r] = Default
  /\ entry = 0 /\ entries = 0
  /\ promise = Nobody /\ held = Nothing
  /\ healthy = {}
  /\ fetch = [r \in Requests |-> NoFetch]
  /\ waits = [r \in Requests |-> Nobody]
  /\ seen = [r \in Requests |-> Nothing]

-----------------------------------------------------------------------------
(* The entry is made or used again, and gets a new promise. *)
StartFetch(r) ==
  /\ entries' = IF entry = 0 THEN entries + 1 ELSE entries
  /\ entry' = IF entry = 0 THEN entries + 1 ELSE entry
  /\ fetch' = [fetch EXCEPT ![r] =
                 [NoFetch EXCEPT !.entry = entry', !.todo = Cells,
                    !.concurrent = \E q \in Requests : fetch[q].entry = entry']]
  /\ promise' = r
  /\ held' = Nothing
  /\ waits' = [waits EXCEPT ![r] = r]
  /\ seen' = [seen EXCEPT ![r] = Nothing]
  /\ UNCHANGED healthy

Hit(r) ==
  /\ entry # 0
  /\ IF promise = Nobody
     THEN seen' = [seen EXCEPT ![r] = held] /\ UNCHANGED waits
     ELSE waits' = [waits EXCEPT ![r] = promise] /\ UNCHANGED seen
  /\ UNCHANGED <<cacheVars, fetch>>

(* listTeamMembershipsForUserDetailed: a read that must be fresh has a fan-out
   of its own; another one may find the entry younger than a minute. *)
Lookup(r, fresh) == StartFetch(r) \/ (~fresh /\ Hit(r))

(* membershipTeamIdsInCell *)
CellAnswers(r, c) ==
  /\ c \in fetch[r].todo
  /\ fetch' = [fetch EXCEPT
       ![r].todo = @ \ {c},
       ![r].found = @ \cup {t \in Teams : cell[t] = c /\ Listed(t)}]
  /\ UNCHANGED <<rows, cell, cacheVars, waits, seen>>

CellFails(r, c) ==
  /\ c \in fetch[r].todo
  /\ fetch' = [fetch EXCEPT ![r].todo = @ \ {c}, ![r].degraded = @ \cup {c}]
  /\ UNCHANGED <<rows, cell, cacheVars, waits, seen>>

(* A degraded empty answer gives way to the last one, if that was empty and
   complete and another fan-out ran when this one began. *)
GivesWay(f) == /\ f.concurrent /\ f.entry \in healthy
               /\ f.found = {} /\ f.degraded # {} /\ ~Rejected(f)

Result(f) == IF GivesWay(f) THEN Nothing ELSE Directory(f.found, f.degraded)

(* The request has read its answer. *)
Read(r) ==
  /\ seen' = [seen EXCEPT ![r] = Nothing]
  /\ UNCHANGED <<cacheVars, fetch, waits>>

(* Everybody who waits is answered with d. *)
Deliver(r, d) ==
  /\ seen' = [q \in Requests |-> IF waits[q] = r THEN d ELSE seen[q]]
  /\ waits' = [q \in Requests |-> IF waits[q] = r THEN Nobody ELSE waits[q]]
  /\ fetch' = [fetch EXCEPT ![r] = NoFetch]

LastResult(f) ==
  healthy' = CASE Rejected(f) \/ GivesWay(f) -> healthy
               [] f.found = {} /\ f.degraded = {} -> healthy \cup {f.entry}
               [] OTHER -> healthy \ {f.entry}

(* Mutant: the cache is filled when the fan-out ends, whatever was evicted. *)
FetchEndsFills(r) ==
  LET f == fetch[r] IN
  /\ f.entry # 0 /\ f.todo = {}
  /\ Deliver(r, Result(f))
  /\ LastResult(f)
  /\ IF Rejected(f) THEN UNCHANGED <<entry, promise, held>>
     ELSE entry' = f.entry /\ promise' = Nobody /\ held' = Result(f)
  /\ UNCHANGED <<rows, cell, entries>>

(* A rejected promise is evicted, if it is still the entry's. *)
FetchEnds(r) ==
  LET f == fetch[r] IN
  /\ f.entry # 0 /\ f.todo = {}
  /\ Deliver(r, Result(f))
  /\ LastResult(f)
  /\ IF promise # r THEN UNCHANGED <<entry, promise, held>>
     ELSE IF Rejected(f) THEN entry' = 0 /\ promise' = Nobody /\ held' = Nothing
     ELSE promise' = Nobody /\ held' = Result(f) /\ UNCHANGED entry
  /\ UNCHANGED <<rows, cell, entries>>

(* invalidateMembershipDirectory; a fan-out under way goes on for those who
   wait, and is nobody's promise. *)
Invalidate ==
  /\ entry' = 0 /\ promise' = Nobody /\ held' = Nothing
  /\ UNCHANGED <<entries, healthy>>

(* The process is gone, with its cache and its fan-outs. *)
Restart ==
  /\ entry' = 0 /\ promise' = Nobody /\ held' = Nothing
  /\ healthy' = {}
  /\ fetch' = [r \in Requests |-> NoFetch]
  /\ waits' = [r \in Requests |-> Nobody]
  /\ seen' = [r \in Requests |-> Nothing]
  /\ UNCHANGED <<rows, cell, entries>>
=============================================================================
