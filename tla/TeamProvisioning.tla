-------------------------- MODULE TeamProvisioning --------------------------
(***************************************************************************)
(* Requests of one user to the console's server that give him a team when  *)
(* he has none, or one more (apps/console/src/lib/api/team-provisioning.ts *)
(* and its three callers).  A team is a row in each of four tables, and    *)
(* nothing makes the writes atomic: a failure is unwound table by table,   *)
(* and a restart is not.  Who signed up with Google gets his first team    *)
(* only for the proof that the sign-up page left in his cookies            *)
(* (lib/auth/google-signup-proof.ts).                                      *)
(***************************************************************************)
EXTENDS TeamDirectory

CONSTANT MaxTroubles  \* bound: failed or lost calls, degraded cells, restarts

ASSUME TroublesAssumption == MaxTroubles \in Nat

VARIABLES
  google,    \* the user signed up with Google
  jar,       \* his browser's cookies: the proof, an attempt that left none
  expired,   \* the proof is older than its five minutes
  pc,        \* where each request is
  cookie,    \* the cookies that came with the request
  owes,      \* the request has to consume the proof
  entitled,  \* since it began there was a proof, or a team the user was in
  stuck,     \* the tables that keep a row of its team after an accident
  troubles   \* troubles so far

cookieVars == <<google, jar, expired, cookie, owes>>
vars == <<dirVars, cookieVars, pc, entitled, stuck, troubles>>

Valid(cookies) == "proof" \in cookies /\ ~expired
Member == \E t \in Teams : Listed(t)

Init ==
  /\ DirInit
  /\ google \in BOOLEAN
  /\ jar \in SUBSET {"proof", "abandoned"} /\ (google \/ jar = {})
  /\ expired = FALSE
  /\ pc = [r \in Requests |-> "idle"]
  /\ cookie = [r \in Requests |-> {}]
  /\ owes = [r \in Requests |-> FALSE]
  /\ entitled = [r \in Requests |-> FALSE]
  /\ stuck = [r \in Requests |-> {}]
  /\ troubles = 0

Trouble == troubles < MaxTroubles /\ troubles' = troubles + 1
Goto(r, p) == pc' = [pc EXCEPT ![r] = p]

-----------------------------------------------------------------------------
(* Before the team is made *)

(* provisionTeam begins: a Google user's first team is guarded. *)
Provision(r) ==
  IF google THEN Goto(r, "guarding") /\ Lookup(r, TRUE)
  ELSE Goto(r, "profile") /\ Read(r)

(* createTeamAction provisions at once; getTeamForUser ("listing") and
   getOrCreateTeamForUser ("resolving") look for a team first. *)
Start(r, c) ==
  /\ pc[r] = "idle"
  /\ \/ Provision(r)
     \/ c = Default /\ Goto(r, "listing") /\ Lookup(r, FALSE)
     \/ c = Default /\ Goto(r, "resolving") /\ Lookup(r, FALSE)
  /\ cell' = [cell EXCEPT ![r] = c]
  /\ cookie' = [cookie EXCEPT ![r] = jar]
  /\ entitled' = [entitled EXCEPT ![r] = Member \/ Valid(jar)]
  /\ UNCHANGED <<rows, google, jar, expired, owes, stuck, troubles>>

(* The directory has answered a request that is at p. *)
Answered(r, p) == pc[r] = p /\ waits[r] = Nobody

(* A rejected read fails the request, a membership is its team. *)
FailsOrReturns(r) ==
  /\ Rejected(seen[r]) \/ seen[r].found # {}
  /\ Goto(r, IF Rejected(seen[r]) THEN "failed" ELSE "member")
  /\ Read(r)

Empty(d) == ~Rejected(d) /\ d.found = {}

(* No membership: only getTeamForUser looks again for a Google user. *)
AfterList(r) ==
  /\ Answered(r, "listing") \/ Answered(r, "resolving")
  /\ \/ FailsOrReturns(r)
     \/ /\ Empty(seen[r])
        /\ IF google /\ pc[r] = "listing"
           THEN Goto(r, "detailing") /\ Lookup(r, TRUE)
           ELSE Provision(r)
  /\ UNCHANGED <<rows, cell, cookieVars, entitled, stuck, troubles>>

(* classifyGoogleMembershipState in getTeamForUser *)
AfterDetailedList(r) ==
  /\ Answered(r, "detailing")
  /\ \/ FailsOrReturns(r)
     \/ /\ Empty(seen[r])
        /\ IF seen[r].degraded = {} THEN Provision(r)
           ELSE Goto(r, "failed") /\ Read(r)
  /\ UNCHANGED <<rows, cell, cookieVars, entitled, stuck, troubles>>

(* requireGoogleSignupProof: an attempt that is pending needs its own proof,
   and is forgotten when it has none. *)
RequireProof(r) ==
  LET proven == Valid(cookie[r]) /\ "abandoned" \notin cookie[r] IN
  /\ Goto(r, IF proven THEN "profile" ELSE "failed")
  /\ owes' = [owes EXCEPT ![r] = proven]
  /\ jar' = jar \ (IF "abandoned" \in cookie[r] THEN {"abandoned"} ELSE {})

(* Mutant: whoever is not known to come for the first time is let through. *)
AfterGuardLenient(r) ==
  /\ Answered(r, "guarding")
  /\ \/ /\ ~Rejected(seen[r]) /\ seen[r] # Nothing
        /\ Goto(r, "profile") /\ UNCHANGED <<owes, jar>>
     \/ seen[r] = Nothing /\ RequireProof(r)
     \/ Rejected(seen[r]) /\ Goto(r, "failed") /\ UNCHANGED <<owes, jar>>
  /\ Read(r)
  /\ cookie' = [cookie EXCEPT ![r] = {}]
  /\ UNCHANGED <<rows, cell, google, expired, entitled, stuck, troubles>>

(* guardFirstGoogleTeam: a member needs no proof, and a degraded directory
   that lists no team is taken for no answer. *)
AfterGuard(r) ==
  /\ Answered(r, "guarding")
  /\ \/ /\ ~Rejected(seen[r]) /\ seen[r].found # {}
        /\ Goto(r, "profile") /\ UNCHANGED <<owes, jar>>
     \/ /\ Empty(seen[r]) /\ seen[r].degraded = {}
        /\ RequireProof(r)
     \/ /\ Rejected(seen[r]) \/ (Empty(seen[r]) /\ seen[r].degraded # {})
        /\ Goto(r, "failed") /\ UNCHANGED <<owes, jar>>
  /\ Read(r)
  /\ cookie' = [cookie EXCEPT ![r] = {}]
  /\ UNCHANGED <<rows, cell, google, expired, entitled, stuck, troubles>>

-----------------------------------------------------------------------------
(* The writes.  The step of a request is the name of its table; the profile
   is there for good, and the role is only looked up. *)

Steps == {"profile", "team", "team_member", "team_memberships", "roles",
          "user_role_assignments"}

Following(p) == CASE p = "profile" -> "team"
                  [] p = "team" -> "team_member"
                  [] p = "team_member" -> "team_memberships"
                  [] p = "team_memberships" -> "roles"
                  [] p = "roles" -> "user_role_assignments"
                  [] p = "user_role_assignments" -> "consume"

(* A row of r is written, and with it the user may become a member. *)
Insert(r) ==
  /\ rows' = [rows EXCEPT ![r] = @ \cup ({pc[r]} \cap Tables)]
  /\ entitled' = [q \in Requests |->
                    entitled[q] \/ (pc[q] # "idle" /\ pc[r] = "team_member")]

Writes(r) ==
  /\ pc[r] \in Steps
  /\ Goto(r, Following(pc[r]))
  /\ Insert(r)
  /\ UNCHANGED <<cell, cacheVars, readVars, cookieVars, stuck, troubles>>

(* The call fails, or its answer is lost.  Without a team there is nothing to
   unwind, or nothing that is known. *)
WriteFails(r) ==
  /\ pc[r] \in Steps /\ Trouble
  /\ \/ UNCHANGED <<rows, entitled, stuck>>
     \/ /\ Insert(r)
        /\ stuck' = [stuck EXCEPT ![r] = @ \cup ({pc[r]} \cap {"team"})]
  /\ Goto(r, IF pc[r] \in {"profile", "team"} THEN "failed"
             ELSE "-user_role_assignments")
  /\ UNCHANGED <<cell, cacheVars, readVars, cookieVars>>

(* The deletes of the unwinding, and the table of each. *)
Deletes == {"-user_role_assignments", "-team_memberships", "-team_member", "-team"}

TableOf(u) == CASE u = "-user_role_assignments" -> "user_role_assignments"
                [] u = "-team_memberships" -> "team_memberships"
                [] u = "-team_member" -> "team_member"
                [] u = "-team" -> "team"

After(u) == CASE u = "-user_role_assignments" -> "-team_memberships"
              [] u = "-team_memberships" -> "-team_member"
              [] u = "-team_member" -> "-team"
              [] u = "-team" -> "failed"

(* The database deletes no team that other rows refer to. *)
Deletable(r, t) == t = "team" => rows[r] \subseteq {"team"}

(* Mutant: the unwinding ends with the first delete that fails. *)
UnwindUntilFailure(r) ==
  /\ pc[r] \in Deletes
  /\ LET t == TableOf(pc[r]) IN
     \/ /\ rows' = [rows EXCEPT ![r] = IF Deletable(r, t) THEN @ \ {t} ELSE @]
        /\ Goto(r, After(pc[r]))
        /\ UNCHANGED <<stuck, troubles>>
     \/ /\ Trouble
        /\ stuck' = [stuck EXCEPT ![r] = @ \cup {t}]
        /\ Goto(r, "failed")
        /\ UNCHANGED rows
  /\ UNCHANGED <<cell, cacheVars, readVars, cookieVars, entitled>>

(* A delete that fails is logged, and the next one follows. *)
Unwind(r) ==
  /\ pc[r] \in Deletes
  /\ LET t == TableOf(pc[r]) IN
     \/ /\ rows' = [rows EXCEPT ![r] = IF Deletable(r, t) THEN @ \ {t} ELSE @]
        /\ UNCHANGED <<stuck, troubles>>
     \/ /\ Trouble
        /\ stuck' = [stuck EXCEPT ![r] = @ \cup {t}]
        /\ UNCHANGED rows
  /\ Goto(r, After(pc[r]))
  /\ UNCHANGED <<cell, cacheVars, readVars, cookieVars, entitled>>

(* consumeGoogleSignupProof comes last; when it throws the team stays. *)
Consume(r) ==
  /\ pc[r] = "consume"
  /\ IF ~owes[r] THEN Goto(r, "made") /\ UNCHANGED <<jar, troubles>>
     ELSE \/ Goto(r, "made") /\ jar' = jar \ {"proof"} /\ UNCHANGED troubles
          \/ Goto(r, "unpaid") /\ UNCHANGED jar /\ Trouble
  /\ UNCHANGED <<dirVars, google, expired, cookie, owes, entitled, stuck>>

(* The caller has the team, and drops the directory it may have read. *)
Return(r) ==
  /\ pc[r] = "made"
  /\ Goto(r, "done")
  /\ Invalidate
  /\ UNCHANGED <<rows, cell, readVars, cookieVars, entitled, stuck, troubles>>

-----------------------------------------------------------------------------
DirectoryStep(r) ==
  /\ \/ \E c \in Cells : CellAnswers(r, c) /\ UNCHANGED troubles
     \/ \E c \in Cells : CellFails(r, c) /\ Trouble
     \/ FetchEnds(r) /\ UNCHANGED troubles
  /\ UNCHANGED <<cookieVars, pc, entitled, stuck>>

(* A proof, and the cookie that holds it, live for five minutes. *)
ProofExpires ==
  /\ google /\ ~expired
  /\ expired' = TRUE /\ jar' = {}
  /\ UNCHANGED <<dirVars, google, cookie, owes, pc, entitled, stuck, troubles>>

Over == {"idle", "done", "member", "failed", "unpaid", "cut"}

(* The server process stops, and every request in it. *)
Crash ==
  /\ Trouble
  /\ \E r \in Requests : pc[r] \notin Over
  /\ pc' = [r \in Requests |-> IF pc[r] \in Over THEN pc[r] ELSE "cut"]
  /\ Restart
  /\ UNCHANGED <<cookieVars, entitled, stuck>>

Next ==
  \/ \E r \in Requests :
       \/ \E c \in Cells : Start(r, c)
       \/ AfterList(r) \/ AfterDetailedList(r) \/ AfterGuard(r)
       \/ Writes(r) \/ WriteFails(r) \/ Unwind(r)
       \/ Consume(r) \/ Return(r)
       \/ DirectoryStep(r)
  \/ ProofExpires
  \/ Crash

Spec == Init /\ [][Next]_vars

-----------------------------------------------------------------------------
(* Properties *)

Reads == {"listing", "resolving", "detailing", "guarding"}
Points == Over \cup Reads \cup Steps \cup Deletes \cup {"consume", "made"}

Directories == [found : SUBSET Teams, degraded : SUBSET Cells]
Fetches == [entry : Nat, todo : SUBSET Cells, found : SUBSET Teams,
            degraded : SUBSET Cells, concurrent : BOOLEAN]

TypeOK ==
  /\ rows \in [Teams -> SUBSET Tables]
  /\ cell \in [Teams -> Cells]
  /\ entry \in Nat /\ entries \in Nat
  /\ promise \in Requests \cup {Nobody}
  /\ held \in Directories
  /\ healthy \in SUBSET Nat
  /\ fetch \in [Requests -> Fetches]
  /\ waits \in [Requests -> Requests \cup {Nobody}]
  /\ seen \in [Requests -> Directories]
  /\ google \in BOOLEAN /\ expired \in BOOLEAN
  /\ jar \in SUBSET {"proof", "abandoned"}
  /\ pc \in [Requests -> Points]
  /\ cookie \in [Requests -> SUBSET {"proof", "abandoned"}]
  /\ owes \in [Requests -> BOOLEAN]
  /\ entitled \in [Requests -> BOOLEAN]
  /\ stuck \in [Requests -> SUBSET Tables]
  /\ troubles \in Nat

(***************************************************************************)
(* A team that is returned has its owner in all four tables; one that is   *)
(* not has no row left, but in the tables whose delete failed, in the team *)
(* table while another refers to it or when the answer to its insert was   *)
(* lost, or when the server stopped (team-provisioning.ts:82-146).         *)
(***************************************************************************)
OwnedOrNothing ==
  \A r \in Requests :
    /\ pc[r] \in {"made", "done", "unpaid"} => rows[r] = Tables
    /\ pc[r] = "failed" =>
         rows[r] \subseteq stuck[r] \cup (IF stuck[r] = {} THEN {} ELSE {"team"})

(***************************************************************************)
(* A Google user gets no team but for a proof or as one who is already in  *)
(* a team: the request that makes it saw neither a directory older than    *)
(* itself nor a degraded one for a complete one (team-provisioning.ts:     *)
(* 19-44, 52-54; team-directory.ts:69-144).                                *)
(***************************************************************************)
FirstTeamForProof ==
  \A r \in Requests : google /\ rows[r] # {} => entitled[r]

(***************************************************************************)
(* Once a request has returned its team, no cached directory misses it,    *)
(* whichever read of the directory began before and ended after            *)
(* (team-directory.ts:133-137, 162-165).                                   *)
(***************************************************************************)
DirectoryHasTeam ==
  entry # 0 /\ promise = Nobody /\ held.degraded = {} =>
    {r \in Requests : pc[r] = "done"} \subseteq held.found
=============================================================================
