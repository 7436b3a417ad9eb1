----------------------------- MODULE QueryCache -----------------------------
(***************************************************************************)
(* A list of the console in TanStack Query's cache while its user creates, *)
(* deletes, pauses and resumes rows of it (apps/console/src/hooks/         *)
(* use-sandboxes.ts, use-templates.ts, use-secrets.ts, use-api-keys.ts).   *)
(*                                                                         *)
(* A mutation patches the list before its request is sent (onMutate),      *)
(* restores the snapshot it took when the request fails (onError), and     *)
(* has the list fetched again at the end (onSettled).  Mutations overlap,  *)
(* and so do the fetches of the poll, of the window's focus and of each    *)
(* mutation.  The list is on the screen; its pages and filters are one.    *)
(***************************************************************************)
EXTENDS Naturals, FiniteSets

CONSTANTS
  Old,          \* the rows there are at the beginning
  Paused,       \* those of them that are paused, if they are sandboxes
  Fresh,        \* the rows the user may create
  MaxMutations, \* bound: calls of mutate()
  Absent,       \* no data in the cache
  MaxTroubles   \* bound: failures, lost answers and changes made elsewhere

Rows == Old \cup Fresh
Mutations == 1 .. MaxMutations
Statuses == {"none", "active", "paused", "resuming", "twice"}

ASSUME CacheAssumption ==
  /\ Old \cap Fresh = {} /\ Paused \subseteq Old
  /\ MaxMutations \in Nat /\ MaxTroubles \in Nat
  /\ \A v \in [Rows -> Statuses] : v # Absent

(* The lists and their mutations.  Only the first two are polled; a mutation
   other than a create ends with a fetch of the list. *)
Hooks == {"sandboxes", "templates", "secrets", "apiKeys"}
Polled(h) == h \in {"sandboxes", "templates"}
Kinds(h) == {"create", "delete"}
            \cup (IF h \in {"sandboxes", "apiKeys"} THEN {"bulk"} ELSE {})
            \cup (IF h = "sandboxes" THEN {"pause", "resume"} ELSE {})

VARIABLES
  hooks,      \* which list it is
  server,     \* the status of every row in the database
  data,       \* query.state.data, or Absent; an active row may be listed twice
  invalid,    \* query.state.isInvalidated
  failed,     \* query.state.status is "error"
  fetch,      \* the fetch in flight: none, sent, or answered (read)
  answer,     \* what it read
  pc,         \* where each mutation is
  kind,       \* what it does
  target,     \* the rows it does it to
  snapshot,   \* context.snapshots
  request,    \* its request for each row
  unseen,     \* rows that changed and that no fetch in flight will tell of
  troubles    \* troubles so far

queryVars == <<data, invalid, failed>>
fetchVars == <<fetch, answer>>
mutVars == <<pc, kind, target, snapshot, request>>
vars == <<hooks, server, queryVars, fetchVars, mutVars, unseen, troubles>>

Init ==
  /\ hooks \in Hooks
  /\ server = [r \in Rows |->
                 IF r \in Fresh THEN "none"
                 ELSE IF hooks = "sandboxes" /\ r \in Paused THEN "paused"
                 ELSE "active"]
  /\ data = Absent /\ invalid = FALSE /\ failed = FALSE
  /\ fetch = "sent"
  /\ answer = Absent
  /\ pc = [m \in Mutations |-> "idle"]
  /\ kind = [m \in Mutations |-> "create"]
  /\ target = [m \in Mutations |-> {}]
  /\ snapshot = [m \in Mutations |-> Absent]
  /\ request = [m \in Mutations |-> [r \in Rows |-> "none"]]
  /\ unseen = {}
  /\ troubles = 0

Trouble == troubles < MaxTroubles /\ troubles' = troubles + 1

(* The rows R have changed: a fetch that has not been answered yet tells. *)
Unseen(R) == IF fetch = "sent" THEN unseen ELSE unseen \cup R

-----------------------------------------------------------------------------
(* The query *)

(* setQueryData *)
SetData(v) == data' = v /\ invalid' = FALSE /\ failed' = FALSE

StartFetch == fetch' = "sent" /\ answer' = Absent /\ unseen' = {}
EndFetch == fetch' = "none" /\ answer' = Absent

(* invalidateQueries: a fetch in flight is dropped and begun again, but the
   first one, when there are no data, is joined. *)
InvalidateQueries ==
  /\ invalid' = TRUE
  /\ ~(fetch # "none" /\ data' = Absent)
  /\ StartFetch

InvalidateJoins(R) ==
  /\ invalid' = TRUE
  /\ fetch # "none" /\ data' = Absent
  /\ unseen' = Unseen(R)
  /\ UNCHANGED fetchVars

(* Mutant: an error stops the poll. *)
RefetchUnlessFailed ==
  /\ fetch = "none" /\ ~failed
  /\ StartFetch
  /\ UNCHANGED <<hooks, server, queryVars, mutVars, troubles>>

(* The poll, or the window gets the focus. *)
Refetch ==
  /\ fetch = "none"
  /\ StartFetch
  /\ UNCHANGED <<hooks, server, queryVars, mutVars, troubles>>

ServerReads ==
  /\ fetch = "sent"
  /\ fetch' = "read" /\ answer' = server
  /\ UNCHANGED <<hooks, server, queryVars, mutVars, unseen, troubles>>

Arrives ==
  /\ fetch = "read"
  /\ SetData(answer)
  /\ EndFetch
  /\ UNCHANGED <<hooks, server, mutVars, unseen, troubles>>

(* The last retry of the fetch has failed. *)
FetchFails ==
  /\ fetch # "none" /\ Trouble
  /\ EndFetch
  /\ failed' = TRUE /\ UNCHANGED <<data, invalid>>
  /\ UNCHANGED <<hooks, server, mutVars, unseen>>

-----------------------------------------------------------------------------
(* The mutations, numbered in the order they are called. *)

Running(m) == pc[m] \in {"cancelled", "sent", "ended"}
IsNext(m) == /\ pc[m] = "idle"
             /\ \A n \in Mutations : n < m => pc[n] # "idle"
Goto(m, p) == pc' = [pc EXCEPT ![m] = p]

(* What the user can do to a row he sees. *)
Offered(k, r) ==
  CASE k \in {"delete", "bulk"} -> data[r] # "none"
    [] k = "pause" -> data[r] = "active"
    [] k = "resume" -> data[r] = "paused"
    [] OTHER -> FALSE

Send(m, R) == request' = [request EXCEPT ![m] = [r \in Rows |->
                            IF r \in R THEN "waiting" ELSE "none"]]

Create(m, r) ==
  /\ IsNext(m)
  /\ \A n \in Mutations : r \notin target[n]
  /\ server[r] = "none"
  /\ Goto(m, "sent")
  /\ kind' = [kind EXCEPT ![m] = "create"]
  /\ target' = [target EXCEPT ![m] = {r}]
  /\ Send(m, {r})
  /\ UNCHANGED <<hooks, server, queryVars, fetchVars, snapshot, unseen, troubles>>

(* mutate(): onMutate cancels the fetch in flight and awaits that. *)
Mutate(m, k, R) ==
  /\ IsNext(m)
  /\ data # Absent
  /\ \A r \in R : Offered(k, r)
  /\ Goto(m, "cancelled")
  /\ kind' = [kind EXCEPT ![m] = k]
  /\ target' = [target EXCEPT ![m] = R]
  /\ EndFetch
  /\ UNCHANGED <<hooks, server, queryVars, snapshot, request, unseen, troubles>>

(* The rows R of the list get the status s, if they are on it. *)
Patched(R, s) ==
  [r \in Rows |-> IF r \in R /\ data[r] # "none" THEN s ELSE data[r]]

Optimistic(k) == CASE k \in {"delete", "bulk"} -> "none"
                   [] k = "pause" -> "paused"
                   [] OTHER -> "resuming"

(* The rest of onMutate, and the requests. *)
OnMutate(m) ==
  /\ pc[m] = "cancelled"
  /\ snapshot' = [snapshot EXCEPT ![m] = data]
  /\ SetData(Patched(target[m], Optimistic(kind[m])))
  /\ Goto(m, "sent")
  /\ Send(m, target[m])
  /\ UNCHANGED <<hooks, server, fetchVars, kind, target, unseen, troubles>>

(* What a request makes of a row, or the row as it is if it is refused. *)
Done(k, s) ==
  CASE k = "create" -> "active"
    [] k \in {"delete", "bulk"} -> "none"
    [] k = "pause" /\ s = "active" -> "paused"
    [] k = "resume" /\ s = "paused" -> "active"
    [] OTHER -> s

Answered(m, r, result) == request' = [request EXCEPT ![m][r] = result]

CarriedOut(m, r, result) ==
  /\ Done(kind[m], server[r]) # server[r]
  /\ server' = [server EXCEPT ![r] = Done(kind[m], server[r])]
  /\ unseen' = IF pc[m] = "done" THEN Unseen({r}) ELSE unseen
  /\ Answered(m, r, result)

Refused(m, r) == Answered(m, r, "failed") /\ UNCHANGED <<server, unseen>>

(* The request of m for r is carried out or refused, or its answer is lost.  A
   mutation may be over by then: Promise.all waits for no request after one
   that failed. *)
Serve(m, r) ==
  /\ request[m][r] = "waiting"
  /\ \/ CarriedOut(m, r, "ok") /\ UNCHANGED troubles
     \/ CarriedOut(m, r, "failed") /\ Trouble
     \/ /\ Done(kind[m], server[r]) = server[r]
        /\ Refused(m, r) /\ UNCHANGED troubles
     \/ Refused(m, r) /\ Trouble
  /\ UNCHANGED <<hooks, queryVars, fetchVars, pc, kind, target, snapshot>>

(* A mutation that is over keeps only the requests nobody waits for. *)
Forget(m) ==
  /\ snapshot' = [snapshot EXCEPT ![m] = Absent]
  /\ request' = [request EXCEPT ![m] = [r \in Rows |->
                    IF request[m][r] = "waiting" THEN "waiting" ELSE "none"]]

Succeeded(m) == \A r \in target[m] : request[m][r] = "ok"
Failed(m) == \E r \in target[m] : request[m][r] = "failed"

(* The created row before the list, which may have it already; without data
   a list of it alone. *)
Prepended(r) ==
  IF data = Absent THEN [s \in Rows |-> IF s = r THEN "active" ELSE "none"]
  ELSE [data EXCEPT ![r] = IF @ = "none" THEN "active" ELSE "twice"]

(* What the list will say of the created row if nothing else is fetched. *)
Told(r) == IF fetch = "read" THEN answer[r] ELSE "active"

(***************************************************************************)
(* A create patches the list of secrets and of API keys, and has the list  *)
(* fetched but for the API keys.  These are wrong from then on about a row *)
(* that is not as it was created any more or that an answer under way      *)
(* misses, and about everything if the patch makes a list look fresh that  *)
(* had not been loaded, had failed or was invalid.                         *)
(***************************************************************************)
OnCreated(m, r) ==
  /\ pc[m] = "sent" /\ kind[m] = "create" /\ target[m] = {r} /\ Succeeded(m)
  /\ Goto(m, "done")
  /\ CASE hooks = "apiKeys" ->
            /\ SetData(Prepended(r))
            /\ unseen' = IF fetch = "none" /\ (data = Absent \/ failed \/ invalid)
                         THEN Rows
                         ELSE IF fetch = "sent" \/ server[r] = Told(r) THEN unseen
                         ELSE unseen \cup {r}
            /\ UNCHANGED fetchVars
       [] hooks = "secrets" ->
            /\ data' = Prepended(r) /\ failed' = FALSE
            /\ InvalidateQueries
       [] OTHER ->
            /\ UNCHANGED <<data, failed>>
            /\ InvalidateQueries \/ InvalidateJoins({r})
  /\ Forget(m)
  /\ UNCHANGED <<hooks, server, kind, target, troubles>>

(* A create that failed does nothing, although it may have been carried out. *)
CreateFails(m) ==
  /\ pc[m] = "sent" /\ kind[m] = "create" /\ Failed(m)
  /\ Goto(m, "done")
  /\ unseen' = Unseen(target[m])
  /\ Forget(m)
  /\ UNCHANGED <<hooks, server, queryVars, fetchVars, kind, target, troubles>>

(* Only a resume() has an onSuccess that touches the list. *)
OnSuccess(m) ==
  /\ pc[m] = "sent" /\ kind[m] # "create" /\ Succeeded(m)
  /\ Goto(m, "ended")
  /\ IF kind[m] = "resume" THEN SetData(Patched(target[m], "active"))
                           ELSE UNCHANGED queryVars
  /\ Forget(m)
  /\ UNCHANGED <<hooks, server, fetchVars, kind, target, unseen, troubles>>

(* Mutant: the rollback is the end of it. *)
OnErrorOnlyRestores(m) ==
  /\ pc[m] = "sent" /\ kind[m] # "create" /\ Failed(m)
  /\ Goto(m, "done")
  /\ SetData(snapshot[m])
  /\ Forget(m)
  /\ UNCHANGED <<hooks, server, fetchVars, kind, target, unseen, troubles>>

OnError(m) ==
  /\ pc[m] = "sent" /\ kind[m] # "create" /\ Failed(m)
  /\ Goto(m, "ended")
  /\ SetData(snapshot[m])
  /\ Forget(m)
  /\ UNCHANGED <<hooks, server, fetchVars, kind, target, unseen, troubles>>

OnSettled(m) ==
  /\ pc[m] = "ended"
  /\ Goto(m, "done")
  /\ UNCHANGED <<data, failed>>
  /\ InvalidateQueries
  /\ UNCHANGED <<hooks, server, kind, target, snapshot, request, troubles>>

(* Another user, or a timeout of the sandbox. *)
Elsewhere(r) ==
  /\ Trouble
  /\ \E s \in {"none", "paused"} :
       /\ server[r] = "active" /\ (s = "paused" => hooks = "sandboxes")
       /\ server' = [server EXCEPT ![r] = s]
  /\ unseen' = Unseen({r})
  /\ UNCHANGED <<hooks, queryVars, fetchVars, mutVars>>

-----------------------------------------------------------------------------
QueryStep == Refetch \/ ServerReads \/ Arrives \/ FetchFails
Handler(m) == OnMutate(m) \/ (\E r \in Fresh : OnCreated(m, r)) \/ CreateFails(m)
              \/ OnSuccess(m) \/ OnError(m) \/ OnSettled(m)

UserStep(m) ==
  \/ \E r \in Fresh : Create(m, r)
  \/ \E k \in Kinds(hooks) \ {"create", "bulk"}, r \in Rows : Mutate(m, k, {r})
  \/ \E R \in SUBSET Rows : /\ "bulk" \in Kinds(hooks) /\ Cardinality(R) > 1
                            /\ Mutate(m, "bulk", R)

Next ==
  \/ QueryStep
  \/ \E m \in Mutations : UserStep(m) \/ Handler(m) \/ \E r \in Rows : Serve(m, r)
  \/ \E r \in Old : Elsewhere(r)

Spec == Init /\ [][Next]_vars

(* Requests are answered, promises run, and a polled list is polled. *)
Fairness ==
  /\ WF_vars(Refetch /\ Polled(hooks))
  /\ WF_vars(ServerReads) /\ WF_vars(Arrives)
  /\ \A m \in Mutations : /\ WF_vars(Handler(m))
                          /\ \A r \in Rows : WF_vars(Serve(m, r))

FairSpec == Spec /\ Fairness

-----------------------------------------------------------------------------
(* Properties *)

Lists == [Rows -> Statuses]

TypeOK ==
  /\ hooks \in Hooks
  /\ server \in Lists
  /\ data \in Lists \cup {Absent}
  /\ invalid \in BOOLEAN /\ failed \in BOOLEAN
  /\ fetch \in {"none", "sent", "read"}
  /\ answer \in Lists \cup {Absent}
  /\ pc \in [Mutations -> {"idle", "cancelled", "sent", "ended", "done"}]
  /\ kind \in [Mutations -> {"create", "delete", "bulk", "pause", "resume"}]
  /\ target \in [Mutations -> SUBSET Rows]
  /\ snapshot \in [Mutations -> Lists \cup {Absent}]
  /\ request \in [Mutations -> [Rows -> {"none", "waiting", "ok", "failed"}]]
  /\ unseen \in SUBSET Rows

(* Nothing is under way that would still change the list. *)
Quiet ==
  /\ \A m \in Mutations : ~Running(m)
  /\ fetch = "none"
  /\ ~invalid /\ ~failed /\ data # Absent

(* useCreateApiKey does not look whether the list has the key already, and
   fetches nothing: what a fetch brought before the answer is listed twice. *)
KeyListedTwice(r) == hooks = "apiKeys" /\ data[r] = "twice" /\ server[r] = "active"

(***************************************************************************)
(* However patches, rollbacks of older snapshots and answers of older      *)
(* fetches overlap (use-sandboxes.ts:46-58, 115-205), the list agrees with *)
(* the database once everything has settled ("the onSettled invalidation   *)
(* refetches the authoritative count", use-sandboxes.ts:43-44).  `unseen`  *)
(* excepts a row that changed elsewhere, that a request of a bulk delete   *)
(* deleted after the bulk had failed, or that was created by a request     *)
(* that failed or while the first load was being answered; and what the    *)
(* create of an API key, which has nothing fetched, leaves wrong           *)
(* (OnCreated).  A key in the list twice is the other thing it leaves.     *)
(***************************************************************************)
CacheAgrees ==
  Quiet => \A r \in Rows \ unseen : data[r] = server[r] \/ KeyListedTwice(r)

(***************************************************************************)
(* A polled list shows in the end what the database has, whatever failed   *)
(* and whatever changed elsewhere (use-sandboxes.ts:72, use-templates.ts:  *)
(* 44).                                                                    *)
(***************************************************************************)
PolledConverges == hooks \in {"sandboxes", "templates"} => <>[](data = server)
=============================================================================
