----------------------- MODULE TeamProvisioningProofs -----------------------
(***************************************************************************)
(* Proofs about TeamProvisioning, for any number of requests and cells and *)
(* any number of troubles.                                                 *)
(***************************************************************************)
EXTENDS TeamProvisioning, TLAPS

-----------------------------------------------------------------------------
(* Types *)

DirectoryType ==
  /\ entry \in Nat /\ entries \in Nat
  /\ promise \in Requests \cup {Nobody}
  /\ held \in Directories
  /\ healthy \in SUBSET Nat
  /\ fetch \in [Requests -> Fetches]
  /\ waits \in [Requests -> Requests \cup {Nobody}]
  /\ seen \in [Requests -> Directories]

LEMMA Blank == Nothing \in Directories /\ NoFetch \in Fetches
  BY DEF Nothing, Directory, Directories, NoFetch, Fetches

LEMMA StartFetchType ==
  ASSUME DirectoryType, NEW r \in Requests, StartFetch(r)
  PROVE  DirectoryType'
  <1> USE DEF DirectoryType, StartFetch
  <1>1. entry' \in Nat /\ entries' \in Nat
    OBVIOUS
  <1>2. [NoFetch EXCEPT !.entry = entry', !.todo = Cells,
           !.concurrent = \E q \in Requests : fetch[q].entry = entry'] \in Fetches
    BY <1>1 DEF NoFetch, Fetches
  <1> QED BY <1>1, <1>2, Blank

LEMMA HitType ==
  ASSUME DirectoryType, NEW r \in Requests, Hit(r)
  PROVE  DirectoryType'
  BY DEF DirectoryType, Hit, cacheVars

LEMMA ReadType ==
  ASSUME DirectoryType, NEW r \in Requests, Read(r)
  PROVE  DirectoryType'
  BY Blank DEF DirectoryType, Read, cacheVars

LEMMA LookupType ==
  ASSUME DirectoryType, NEW r \in Requests, NEW b \in BOOLEAN, Lookup(r, b)
  PROVE  DirectoryType'
  BY StartFetchType, HitType DEF Lookup

LEMMA ProvisionType ==
  ASSUME DirectoryType, NEW r \in Requests, Provision(r)
  PROVE  DirectoryType' /\ \E p \in {"guarding", "profile"} : Goto(r, p)
  BY LookupType, ReadType DEF Provision

LEMMA ResultType ==
  ASSUME NEW f \in Fetches
  PROVE  Result(f) \in Directories
  BY Blank DEF Result, Directory, Directories, Fetches

LEMMA FetchEndsType ==
  ASSUME DirectoryType, NEW r \in Requests, FetchEnds(r)
  PROVE  DirectoryType'
  <1> USE DEF DirectoryType
  <1>1. fetch[r] \in Fetches /\ fetch[r].entry \in Nat
    BY DEF Fetches
  <1>2. Result(fetch[r]) \in Directories
    BY <1>1, ResultType
  <1>3. /\ seen' \in [Requests -> Directories]
        /\ waits' \in [Requests -> Requests \cup {Nobody}]
        /\ fetch' \in [Requests -> Fetches]
    BY <1>2, Blank DEF FetchEnds, Deliver
  <1>4. healthy' \in SUBSET Nat
    BY <1>1 DEF FetchEnds, LastResult
  <1>5. /\ entry' \in Nat /\ entries' \in Nat
        /\ promise' \in Requests \cup {Nobody} /\ held' \in Directories
    BY <1>2, Blank DEF FetchEnds
  <1> QED BY <1>3, <1>4, <1>5

LEMMA CellType ==
  ASSUME DirectoryType, NEW r \in Requests, NEW c \in Cells,
         CellAnswers(r, c) \/ CellFails(r, c)
  PROVE  DirectoryType'
  <1> USE DEF DirectoryType, cacheVars
  <1>1. \A X \in SUBSET Teams :
          [fetch[r] EXCEPT !.todo = @ \ {c}, !.found = @ \cup X] \in Fetches
    BY DEF Fetches
  <1>2. [fetch[r] EXCEPT !.todo = @ \ {c}, !.degraded = @ \cup {c}] \in Fetches
    BY DEF Fetches
  <1>3. CASE CellAnswers(r, c)
    BY <1>1, <1>3 DEF CellAnswers
  <1>4. CASE CellFails(r, c)
    BY <1>2, <1>4 DEF CellFails
  <1> QED BY <1>3, <1>4

(* Type correctness. *)
THEOREM TypeCorrect == Spec => []TypeOK
  <1>1. Init => TypeOK
    <2> SUFFICES ASSUME Init PROVE TypeOK
      OBVIOUS
    <2> USE DEF Init, DirInit
    <2>1. rows \in [Teams -> SUBSET Tables]
      BY DEF Tables
    <2>2. pc \in [Requests -> Points]
      BY DEF Points, Over
    <2> QED BY <2>1, <2>2, Blank DEF TypeOK
  <1>2. TypeOK /\ [Next]_vars => TypeOK'
    <2> SUFFICES ASSUME TypeOK, [Next]_vars PROVE TypeOK'
      OBVIOUS
    <2> DEFINE Rest == /\ rows \in [Teams -> SUBSET Tables]
                       /\ cell \in [Teams -> Cells]
                       /\ google \in BOOLEAN /\ expired \in BOOLEAN
                       /\ jar \in SUBSET {"proof", "abandoned"}
                       /\ pc \in [Requests -> Points]
                       /\ cookie \in [Requests -> SUBSET {"proof", "abandoned"}]
                       /\ owes \in [Requests -> BOOLEAN]
                       /\ entitled \in [Requests -> BOOLEAN]
                       /\ stuck \in [Requests -> SUBSET Tables]
                       /\ troubles \in Nat
    <2>0. DirectoryType /\ Rest
      BY DEF TypeOK, DirectoryType
    <2>h. ASSUME DirectoryType', Rest' PROVE TypeOK'
      BY <2>h DEF TypeOK, DirectoryType
    <2>g. \A r \in Requests, p \in Points :
            Goto(r, p) => pc' \in [Requests -> Points]
      BY <2>0 DEF Goto
    <2>p. {"guarding", "profile", "listing", "resolving", "detailing", "failed",
           "member", "made", "unpaid", "done", "cut"} \subseteq Points
      BY DEF Points, Over, Reads, Steps
    <2>u. UNCHANGED readVars /\ UNCHANGED cacheVars => DirectoryType'
      BY <2>0 DEF DirectoryType, readVars, cacheVars
    <2> USE TroublesAssumption, DirectoryAssumption
    <2> USE DEF vars, dirVars, cookieVars, Trouble
    <2>1. ASSUME NEW r \in Requests, NEW c \in Cells, Start(r, c)
          PROVE  DirectoryType' /\ Rest'
      <3>1. DirectoryType' /\ pc' \in [Requests -> Points]
        BY <2>0, <2>1, <2>g, <2>p, ProvisionType, LookupType DEF Start
      <3> QED BY <3>1, <2>0, <2>1 DEF Start, Member, Listed, Valid, Teams
    <2>2. ASSUME NEW r \in Requests, AfterList(r)
          PROVE  DirectoryType' /\ Rest'
      <3>1. DirectoryType' /\ pc' \in [Requests -> Points]
        BY <2>0, <2>2, <2>g, <2>p, ProvisionType, LookupType, ReadType
           DEF AfterList, FailsOrReturns
      <3> QED BY <3>1, <2>0, <2>2 DEF AfterList
    <2>3. ASSUME NEW r \in Requests, AfterDetailedList(r)
          PROVE  DirectoryType' /\ Rest'
      <3>1. DirectoryType' /\ pc' \in [Requests -> Points]
        BY <2>0, <2>3, <2>g, <2>p, ProvisionType, ReadType
           DEF AfterDetailedList, FailsOrReturns
      <3> QED BY <3>1, <2>0, <2>3 DEF AfterDetailedList
    <2>4. ASSUME NEW r \in Requests, AfterGuard(r)
          PROVE  DirectoryType' /\ Rest'
      <3>1. DirectoryType' /\ pc' \in [Requests -> Points]
        BY <2>0, <2>4, <2>g, <2>p, ReadType DEF AfterGuard, RequireProof
      <3>2. owes' \in [Requests -> BOOLEAN]
        BY <2>0, <2>4 DEF AfterGuard, RequireProof, Valid
      <3> QED BY <3>1, <3>2, <2>0, <2>4 DEF AfterGuard, RequireProof
    <2>5. ASSUME NEW r \in Requests, Insert(r)
          PROVE  rows' \in [Teams -> SUBSET Tables] /\ entitled' \in [Requests -> BOOLEAN]
      BY <2>0, <2>5 DEF Insert, Teams
    <2>6. ASSUME NEW r \in Requests, Writes(r)
          PROVE  DirectoryType' /\ Rest'
      <3>1. Following(pc[r]) \in Points
        BY <2>6 DEF Writes, Steps, Following, Points
      <3>2. pc' \in [Requests -> Points]
        BY <3>1, <2>6, <2>g DEF Writes
      <3> QED BY <2>0, <2>u, <2>5, <2>6, <3>2 DEF Writes
    <2>7. ASSUME NEW r \in Requests, WriteFails(r)
          PROVE  DirectoryType' /\ Rest'
      <3>1. pc' \in [Requests -> Points]
        <4>1. "failed" \in Points /\ "-user_role_assignments" \in Points
          BY DEF Points, Over, Deletes
        <4> QED BY <4>1, <2>7, <2>g DEF WriteFails
      <3>2. {"team"} \subseteq Tables
        BY DEF Tables
      <3>3. stuck' \in [Requests -> SUBSET Tables]
        BY <2>0, <2>7, <3>2 DEF WriteFails
      <3>4. rows' \in [Teams -> SUBSET Tables] /\ entitled' \in [Requests -> BOOLEAN]
        BY <2>0, <2>5, <2>7 DEF WriteFails
      <3>5. troubles' \in Nat /\ UNCHANGED <<cell, cacheVars, readVars, cookieVars>>
        BY <2>0, <2>7 DEF WriteFails
      <3>6. DirectoryType'
        BY <2>u, <3>5
      <3> QED BY <2>0, <3>1, <3>3, <3>4, <3>5, <3>6
    <2>8. ASSUME NEW r \in Requests, Unwind(r)
          PROVE  DirectoryType' /\ Rest'
      <3>1. After(pc[r]) \in Points /\ TableOf(pc[r]) \in Tables
        BY <2>8 DEF Unwind, Deletes, After, TableOf, Points, Over, Tables
      <3>2. pc' \in [Requests -> Points]
        BY <3>1, <2>8, <2>g DEF Unwind
      <3> QED BY <2>0, <2>u, <2>8, <3>1, <3>2 DEF Unwind, Teams
    <2>9. ASSUME NEW r \in Requests, Consume(r)
          PROVE  DirectoryType' /\ Rest'
      <3>1. pc' \in [Requests -> Points]
        BY <2>9, <2>g, <2>p DEF Consume
      <3>2. /\ UNCHANGED <<readVars, cacheVars, rows, cell>>
            /\ UNCHANGED <<google, expired, cookie, owes, entitled, stuck>>
        BY <2>9 DEF Consume
      <3>4. DirectoryType'
        BY <2>u, <3>2
      <3>3. jar' \in SUBSET {"proof", "abandoned"}
        BY <2>0, <2>9 DEF Consume
      <3>5. troubles' \in Nat
        BY <2>0, <2>9 DEF Consume
      <3> QED BY <2>0, <3>1, <3>2, <3>3, <3>4, <3>5
    <2>10. ASSUME NEW r \in Requests, Return(r)
           PROVE  DirectoryType' /\ Rest'
      <3>1. pc' \in [Requests -> Points]
        BY <2>10, <2>g, <2>p DEF Return
      <3>2. DirectoryType'
        BY <2>0, <2>10, Blank DEF Return, Invalidate, readVars, DirectoryType
      <3> QED BY <2>0, <2>10, <3>1, <3>2 DEF Return
    <2>11. ASSUME NEW r \in Requests, DirectoryStep(r)
           PROVE  DirectoryType' /\ Rest'
      <3>1. DirectoryType'
        BY <2>0, <2>11, CellType, FetchEndsType DEF DirectoryStep
      <3>2. UNCHANGED <<rows, cell>>
        BY <2>11 DEF DirectoryStep, CellAnswers, CellFails, FetchEnds
      <3>3. troubles' \in Nat /\ UNCHANGED <<cookieVars, pc, entitled, stuck>>
        BY <2>0, <2>11 DEF DirectoryStep
      <3> QED BY <2>0, <3>1, <3>2, <3>3
    <2>12. CASE ProofExpires
      BY <2>0, <2>u, <2>12, <2>h DEF ProofExpires
    <2>13. CASE Crash
      <3>1. pc' \in [Requests -> Points]
        BY <2>0, <2>13, <2>p DEF Crash
      <3>2. DirectoryType'
        BY <2>0, <2>13, Blank DEF Crash, Restart, DirectoryType
      <3> QED BY <2>0, <2>13, <2>h, <3>1, <3>2 DEF Crash, Restart
    <2>14. CASE UNCHANGED vars
      BY <2>0, <2>u, <2>14, <2>h
    <2> QED BY <2>1, <2>2, <2>3, <2>4, <2>6, <2>7, <2>8, <2>9, <2>10, <2>11,
               <2>12, <2>13, <2>14, <2>h DEF Next
  <1> QED BY <1>1, <1>2, PTL DEF Spec

-----------------------------------------------------------------------------
(* What is written of a team at each point of its request, and what is left
   of it at each point of the unwinding. *)

Early == Reads \cup {"idle", "member", "profile", "team"}

ProgressOf(p, R, S) ==
  /\ p \in Early => R = {}
  /\ p = "team_member" => R = {"team"}
  /\ p = "team_memberships" => R = {"team", "team_member"}
  /\ p \in {"roles", "user_role_assignments"} =>
       R = {"team", "team_member", "team_memberships"}
  /\ p \in {"consume", "made", "done", "unpaid"} => R = Tables
  /\ p = "-team_memberships" =>
       R \subseteq {"team", "team_member", "team_memberships"} \cup S
  /\ p = "-team_member" => R \subseteq {"team", "team_member"} \cup S
  /\ p = "-team" => R \subseteq {"team"} \cup S
  /\ p = "failed" => R \subseteq S \cup (IF S = {} THEN {} ELSE {"team"})

Progress == \A r \in Requests : ProgressOf(pc[r], rows[r], stuck[r])

LEMMA ProgressStep ==
  ASSUME TypeOK, Progress, [Next]_vars
  PROVE  Progress'
  <1> USE DEF TypeOK, Progress
  <1> DEFINE Same(r) == /\ UNCHANGED <<rows, stuck>>
                        /\ \E p \in Early \cup {"failed"} : Goto(r, p)
  <1>s. ASSUME NEW r \in Requests, pc[r] \in Early, Same(r) PROVE Progress'
    <2>1. PICK p \in Early \cup {"failed"} : Goto(r, p)
      BY <1>s
    <2>2. rows[r] = {} /\ Early \cap {"team_member", "team_memberships", "roles",
            "user_role_assignments", "consume", "made", "done", "unpaid",
            "-team_memberships", "-team_member", "-team", "failed"} = {}
      BY <1>s DEF ProgressOf, Early, Reads
    <2>3. ProgressOf(p, {}, stuck[r])
      BY <2>2 DEF ProgressOf
    <2>4. pc' = [pc EXCEPT ![r] = p]
      BY <2>1 DEF Goto
    <2> QED BY <1>s, <2>2, <2>3, <2>4
  <1>p. ASSUME NEW r \in Requests, Provision(r)
        PROVE  \E p \in Early \cup {"failed"} : Goto(r, p)
    BY <1>p DEF Provision, Early, Reads
  <1>m. {"listing", "resolving", "detailing", "guarding", "member", "idle"}
          \subseteq Early
    BY DEF Early, Reads
  <1>1. ASSUME NEW r \in Requests, NEW c \in Cells, Start(r, c) PROVE Progress'
    <2>1. pc[r] \in Early
      BY <1>1, <1>m DEF Start
    <2>2. UNCHANGED <<rows, stuck>>
      BY <1>1 DEF Start
    <2>3. \E p \in Early \cup {"failed"} : Goto(r, p)
      BY <1>1, <1>p, <1>m DEF Start
    <2> QED BY <1>s, <2>1, <2>2, <2>3
  <1>2. ASSUME NEW r \in Requests, AfterList(r) PROVE Progress'
    <2>1. pc[r] \in Early
      BY <1>2, <1>m DEF AfterList, Answered
    <2>2. UNCHANGED <<rows, stuck>>
      BY <1>2 DEF AfterList
    <2>3. \E p \in Early \cup {"failed"} : Goto(r, p)
      BY <1>2, <1>p, <1>m DEF AfterList, FailsOrReturns
    <2> QED BY <1>s, <2>1, <2>2, <2>3
  <1>3. ASSUME NEW r \in Requests, AfterDetailedList(r) PROVE Progress'
    <2>1. pc[r] \in Early
      BY <1>3, <1>m DEF AfterDetailedList, Answered
    <2>2. UNCHANGED <<rows, stuck>>
      BY <1>3 DEF AfterDetailedList
    <2>3. \E p \in Early \cup {"failed"} : Goto(r, p)
      BY <1>3, <1>p, <1>m DEF AfterDetailedList, FailsOrReturns
    <2> QED BY <1>s, <2>1, <2>2, <2>3
  <1>4. ASSUME NEW r \in Requests, AfterGuard(r) PROVE Progress'
    <2>1. pc[r] \in Early
      BY <1>4, <1>m DEF AfterGuard, Answered
    <2>2. UNCHANGED <<rows, stuck>>
      BY <1>4 DEF AfterGuard
    <2>3. \E p \in {"profile", "failed"} : Goto(r, p)
      BY <1>4 DEF AfterGuard, RequireProof
    <2>4. "profile" \in Early
      BY DEF Early
    <2> QED BY <1>s, <2>1, <2>2, <2>3, <2>4
  <1>5. ASSUME NEW r \in Requests, Writes(r) PROVE Progress'
    <2>1. ProgressOf(Following(pc[r]), rows[r] \cup ({pc[r]} \cap Tables), stuck[r])
      <3>p. ProgressOf(pc[r], rows[r], stuck[r]) /\ pc[r] \in Steps
        BY <1>5 DEF Writes
      <3> HIDE DEF TypeOK, Progress, Same
      <3> USE <3>p DEF ProgressOf, Following, Tables, Early, Reads
      <3>1. CASE pc[r] = "profile"
        BY <3>1
      <3>2. CASE pc[r] = "team"
        BY <3>2
      <3>3. CASE pc[r] = "team_member"
        BY <3>3
      <3>4. CASE pc[r] = "team_memberships"
        BY <3>4
      <3>5. CASE pc[r] = "roles"
        BY <3>5
      <3>6. CASE pc[r] = "user_role_assignments"
        BY <3>6
      <3> QED BY <3>1, <3>2, <3>3, <3>4, <3>5, <3>6 DEF Steps
    <2>2. /\ pc' = [pc EXCEPT ![r] = Following(pc[r])]
          /\ rows' = [rows EXCEPT ![r] = @ \cup ({pc[r]} \cap Tables)]
          /\ stuck' = stuck
      BY <1>5 DEF Writes, Goto, Insert
    <2> QED BY <2>1, <2>2 DEF Teams
  <1>6. ASSUME NEW r \in Requests, WriteFails(r) PROVE Progress'
    <2> DEFINE p == IF pc[r] \in {"profile", "team"} THEN "failed"
                    ELSE "-user_role_assignments"
               Lost == rows[r] \cup ({pc[r]} \cap Tables)
               Stuck == stuck[r] \cup ({pc[r]} \cap {"team"})
    <2>1. ProgressOf(p, rows[r], stuck[r]) /\ ProgressOf(p, Lost, Stuck)
      BY <1>6 DEF WriteFails, Steps, ProgressOf, Tables, Early, Reads
    <2>2. pc' = [pc EXCEPT ![r] = p]
      BY <1>6 DEF WriteFails, Goto
    <2>3. \/ UNCHANGED <<rows, stuck>>
          \/ /\ rows' = [rows EXCEPT ![r] = Lost]
             /\ stuck' = [stuck EXCEPT ![r] = Stuck]
      BY <1>6 DEF WriteFails, Insert
    <2> HIDE DEF p, Lost, Stuck
    <2> QED BY <2>1, <2>2, <2>3 DEF Teams
  <1>7. ASSUME NEW r \in Requests, Unwind(r) PROVE Progress'
    <2> DEFINE t == TableOf(pc[r])
               Left == IF Deletable(r, t) THEN rows[r] \ {t} ELSE rows[r]
    <2>1. rows[r] \subseteq Tables
      BY DEF Teams
    <2>2. /\ ProgressOf(After(pc[r]), Left, stuck[r])
          /\ ProgressOf(After(pc[r]), rows[r], stuck[r] \cup {t})
      <3> USE <2>1 DEF ProgressOf, TableOf, After, Deletable, Tables, Early, Reads
      <3>1. CASE pc[r] = "-user_role_assignments"
        BY <3>1
      <3>2. CASE pc[r] = "-team_memberships"
        BY <3>2
      <3>3. CASE pc[r] = "-team_member"
        BY <3>3
      <3>4. CASE pc[r] = "-team"
        BY <3>4
      <3> QED BY <1>7, <3>1, <3>2, <3>3, <3>4 DEF Unwind, Deletes
    <2>3. /\ pc' = [pc EXCEPT ![r] = After(pc[r])]
          /\ \/ rows' = [rows EXCEPT ![r] = Left] /\ stuck' = stuck
             \/ rows' = rows /\ stuck' = [stuck EXCEPT ![r] = @ \cup {t}]
      BY <1>7 DEF Unwind, Goto
    <2> HIDE DEF t, Left
    <2> QED BY <2>2, <2>3 DEF Teams
  <1>8. ASSUME NEW r \in Requests, Consume(r) \/ Return(r) PROVE Progress'
    <2>1. \E p \in {"made", "unpaid", "done"} : pc' = [pc EXCEPT ![r] = p]
      BY <1>8 DEF Consume, Return, Goto
    <2>2. rows[r] = Tables /\ UNCHANGED <<rows, stuck>>
      BY <1>8 DEF Consume, Return, ProgressOf, dirVars
    <2>3. \A p \in {"made", "unpaid", "done"} : ProgressOf(p, Tables, stuck[r])
      BY DEF ProgressOf, Early, Reads
    <2> QED BY <2>1, <2>2, <2>3
  <1>9. ASSUME NEW r \in Requests, DirectoryStep(r) PROVE Progress'
    BY <1>9 DEF DirectoryStep, CellAnswers, CellFails, FetchEnds
  <1>10. CASE ProofExpires
    BY <1>10 DEF ProofExpires, dirVars
  <1>11. CASE Crash
    <2>1. \A R \in SUBSET Tables, S \in SUBSET Tables : ProgressOf("cut", R, S)
      BY DEF ProgressOf, Early, Reads
    <2>2. \A r \in Requests : pc'[r] \in {pc[r], "cut"}
      BY <1>11 DEF Crash
    <2>3. UNCHANGED <<rows, stuck>>
      BY <1>11 DEF Crash, Restart
    <2> QED BY <2>1, <2>2, <2>3 DEF Teams
  <1>12. CASE UNCHANGED vars
    BY <1>12 DEF vars, dirVars
  <1> QED BY <1>1, <1>2, <1>3, <1>4, <1>5, <1>6, <1>7, <1>8, <1>9, <1>10, <1>11,
             <1>12 DEF Next

LEMMA AlwaysProgress == Spec => []Progress
  <1>1. Init => Progress
    BY DEF Init, DirInit, Progress, ProgressOf, Early, Reads
  <1> QED BY <1>1, ProgressStep, TypeCorrect, PTL DEF Spec

(* A returned team is complete, and one that failed leaves only what an
   accident kept (OwnedOrNothing). *)
THEOREM AlwaysOwnedOrNothing == Spec => []OwnedOrNothing
  <1>1. Progress => OwnedOrNothing
    BY DEF Progress, ProgressOf, OwnedOrNothing
  <1> QED BY <1>1, AlwaysProgress, PTL

-----------------------------------------------------------------------------
(* What a cached directory, and a fan-out that will be one, know of the teams
   that were returned. *)

Returned == {q \in Requests : pc[q] = "done"}

(* f will tell of every returned team, or be degraded. *)
Tells(f) == \A q \in Returned : cell[q] \in f.todo \cup f.degraded \/ q \in f.found

Cached ==
  /\ entry <= entries
  /\ \A n \in healthy : n <= entries
  /\ \A r \in Requests : fetch[r].entry <= entries
  /\ \A r \in Requests : entry # 0 /\ fetch[r].entry = entry => Tells(fetch[r])
  /\ entry # 0 /\ entry \in healthy => Returned = {}
  /\ promise # Nobody => entry # 0 /\ fetch[promise].entry = entry
  /\ DirectoryHasTeam

(* Steps that change the directory only by reading its cache. *)
LEMMA CachedLookup ==
  ASSUME TypeOK, Cached, NEW r \in Requests, UNCHANGED Returned,
         \A q \in Returned : cell'[q] = cell[q],
         \/ StartFetch(r)
         \/ UNCHANGED <<cacheVars, fetch>>
  PROVE  Cached'
  <1> USE DEF TypeOK, Cached, cacheVars
  <1>1. CASE UNCHANGED <<cacheVars, fetch>>
    BY <1>1 DEF Tells, DirectoryHasTeam, Returned
  <1>2. CASE StartFetch(r)
    <2> DEFINE e == IF entry = 0 THEN entries + 1 ELSE entry
               f == [NoFetch EXCEPT !.entry = e, !.todo = Cells,
                       !.concurrent = \E q \in Requests : fetch[q].entry = e]
    <2>1. /\ entry' = e /\ e # 0 /\ e \in Nat
          /\ entries' = (IF entry = 0 THEN entries + 1 ELSE entries)
          /\ fetch' = [fetch EXCEPT ![r] = f]
          /\ promise' = r /\ held' = Nothing /\ healthy' = healthy
      BY <1>2 DEF StartFetch
    <2>2. f.entry = e /\ f.todo = Cells
      BY DEF NoFetch
    <2>3. \A q \in Returned : cell'[q] \in Cells
      BY DEF Returned, Teams
    <2>4. e <= entries' /\ \A q \in Requests : fetch[q].entry \in Nat
      BY <2>1 DEF Fetches
    <2> HIDE DEF f
    <2>5. ASSUME NEW q \in Requests, fetch'[q].entry = entry'
          PROVE  Tells(fetch[q])' \/ q = r
      <3>1. CASE entry = 0
        BY <2>1, <2>4, <2>5, <3>1
      <3>2. CASE entry # 0
        BY <2>1, <2>5, <3>2 DEF Tells
      <3> QED BY <3>1, <3>2
    <2>6. Tells(fetch[r])'
      BY <2>1, <2>2, <2>3 DEF Tells
    <2>7. \A q \in Requests : entry' # 0 /\ fetch'[q].entry = entry' => Tells(fetch[q])'
      BY <2>5, <2>6
    <2>8. entry' \in healthy' => Returned' = {}
      BY <2>1
    <2>9. /\ \A n \in healthy' : n <= entries'
          /\ \A q \in Requests : fetch'[q].entry <= entries'
          /\ fetch'[promise'].entry = entry'
      BY <2>1, <2>2, <2>4
    <2>10. DirectoryHasTeam'
      BY <2>1, DirectoryAssumption DEF DirectoryHasTeam
    <2> QED BY <2>1, <2>4, <2>7, <2>8, <2>9, <2>10
  <1> QED BY <1>1, <1>2

LEMMA CachedEnds ==
  ASSUME TypeOK, Cached, NEW r \in Requests, FetchEnds(r), UNCHANGED pc
  PROVE  Cached'
  <1> DEFINE f == fetch[r]
  <1> USE DEF TypeOK, Cached
  <1>1. /\ f.entry # 0 /\ f.todo = {} /\ f.entry \in Nat
        /\ Returned' = Returned /\ UNCHANGED <<cell, entries>>
        /\ fetch' = [fetch EXCEPT ![r] = NoFetch]
    BY DEF FetchEnds, Deliver, Returned, Fetches
  <1>2. NoFetch.entry = 0
    BY DEF NoFetch
  <1>3. entry' \in {0, entry}
    BY DEF FetchEnds
  <1>4. /\ \A n \in healthy' : n \in healthy \/ n = f.entry
        /\ f.entry \in healthy' => \/ f.entry \in healthy
                                   \/ f.found = {} /\ f.degraded = {}
    <2>1. LastResult(f)
      BY DEF FetchEnds
    <2> HIDE DEF f
    <2>2. CASE Rejected(f) \/ GivesWay(f)
      <3>1. f.degraded # {}
        BY <2>2 DEF Rejected, GivesWay
      <3>2. healthy' = healthy
        BY <2>1, <2>2, <3>1 DEF LastResult
      <3> QED BY <3>2
    <2>3. CASE ~(Rejected(f) \/ GivesWay(f)) /\ f.found = {} /\ f.degraded = {}
      BY <2>1, <2>3 DEF LastResult
    <2>4. CASE /\ ~(Rejected(f) \/ GivesWay(f))
               /\ ~(f.found = {} /\ f.degraded = {})
      <3>1. healthy' = healthy \ {f.entry}
        BY <2>1, <2>4 DEF LastResult
      <3> QED BY <3>1
    <2> QED BY <2>2, <2>3, <2>4
  <1>5. \A q \in Requests : entry' # 0 /\ fetch'[q].entry = entry' => Tells(fetch[q])'
    BY <1>1, <1>2, <1>3 DEF Tells
  <1>6. entry' # 0 /\ entry' \in healthy' => Returned' = {}
    <2> SUFFICES ASSUME entry' # 0, entry' \in healthy' PROVE Returned' = {}
      OBVIOUS
    <2>1. CASE f.entry = entry /\ f.found = {} /\ f.degraded = {}
      BY <2>1, <1>1, <1>3 DEF Tells
    <2> QED BY <2>1, <1>1, <1>3, <1>4
  <1>7. promise' # Nobody => promise' # r /\ entry' # 0 /\ fetch'[promise'].entry = entry'
    BY <1>1 DEF FetchEnds
  <1>8. DirectoryHasTeam'
    <2> SUFFICES ASSUME entry' # 0, promise' = Nobody, held'.degraded = {}
                 PROVE  Returned' \subseteq held'.found
      BY DEF DirectoryHasTeam, Returned
    <2>1. CASE promise # r
      BY <2>1, <1>1 DEF FetchEnds, DirectoryHasTeam, Returned
    <2>2. CASE promise = r
      <3>1. /\ held' = Result(f) /\ entry' = entry /\ f.entry = entry
        BY <2>2 , DirectoryAssumption DEF FetchEnds
      <3>2. CASE GivesWay(f)
        BY <3>1, <3>2, <1>1 DEF GivesWay
      <3>3. CASE ~GivesWay(f)
        <4>1. held'.found = f.found /\ held'.degraded = f.degraded
          BY <3>1, <3>3 DEF Result, Directory
        <4> QED BY <4>1, <3>1, <1>1 DEF Tells
      <3> QED BY <3>2, <3>3
    <2> QED BY <2>1, <2>2
  <1>9. /\ entry' <= entries' /\ \A n \in healthy' : n <= entries'
        /\ \A q \in Requests : fetch'[q].entry <= entries'
    <2>1. f.entry <= entries /\ 0 <= entries /\ entries' = entries
      BY <1>1
    <2>2. \A q \in Requests : fetch'[q] \in {fetch[q], NoFetch}
      BY <1>1
    <2> QED BY <2>1, <2>2, <1>2, <1>3, <1>4
  <1> QED BY <1>5, <1>6, <1>7, <1>8, <1>9

LEMMA CachedCell ==
  ASSUME TypeOK, Progress, Cached, NEW r \in Requests, NEW c \in Cells,
         CellAnswers(r, c) \/ CellFails(r, c), UNCHANGED pc
  PROVE  Cached'
  <1> USE DEF TypeOK, Cached, cacheVars
  <1>0. fetch[r] \in Fetches /\ Returned' = Returned
    BY DEF Returned
  <1>1. /\ \A q \in Requests : fetch'[q].entry = fetch[q].entry
        /\ \A q \in Requests : q # r => fetch'[q] = fetch[q]
        /\ UNCHANGED <<cell, cacheVars>>
    <2>1. CASE CellFails(r, c)
      BY <2>1, <1>0 DEF CellFails, Fetches
    <2>2. CASE CellAnswers(r, c)
      BY <2>2, <1>0 DEF CellAnswers, Fetches
    <2> QED BY <2>1, <2>2
  <1>2. ASSUME Tells(fetch[r]) PROVE Tells(fetch[r])'
    <2>1. CASE CellFails(r, c)
      <3>1. /\ fetch'[r].todo = fetch[r].todo \ {c}
            /\ fetch'[r].degraded = fetch[r].degraded \cup {c}
            /\ fetch'[r].found = fetch[r].found
        BY <2>1, <1>0 DEF CellFails, Fetches
      <3> QED BY <3>1, <1>0, <1>1, <1>2 DEF Tells
    <2>2. CASE CellAnswers(r, c)
      <3>1. /\ fetch'[r].todo = fetch[r].todo \ {c}
            /\ fetch'[r].degraded = fetch[r].degraded
            /\ fetch'[r].found = fetch[r].found \cup
                                   {t \in Teams : cell[t] = c /\ Listed(t)}
        BY <2>2, <1>0 DEF CellAnswers, Fetches
      <3>2. \A q \in Returned : q \in Teams /\ Listed(q)
        BY DEF Returned, Teams, Progress, ProgressOf, Listed, Tables
      <3> QED BY <3>1, <3>2, <1>0, <1>1, <1>2 DEF Tells
    <2> QED BY <2>1, <2>2
  <1>3. \A q \in Requests : entry' # 0 /\ fetch'[q].entry = entry' => Tells(fetch[q])'
    BY <1>0, <1>1, <1>2 DEF Tells
  <1>4. DirectoryHasTeam'
    BY <1>0, <1>1 DEF DirectoryHasTeam, Returned
  <1> QED BY <1>0, <1>1, <1>3, <1>4

LEMMA CachedStep ==
  ASSUME TypeOK, Progress, Cached, [Next]_vars
  PROVE  Cached'
  <1>p. ASSUME NEW r \in Requests, Provision(r) \/ Lookup(r, TRUE) \/ Lookup(r, FALSE)
                                   \/ Read(r)
        PROVE  StartFetch(r) \/ UNCHANGED <<cacheVars, fetch>>
    BY <1>p DEF Provision, Lookup, Hit, Read
  <1>q. ASSUME NEW r \in Requests, pc[r] # "done",
               NEW p \in Points \ {"done"}, Goto(r, p)
        PROVE  UNCHANGED Returned
    BY <1>q DEF Returned, Goto, TypeOK
  <1>n. {"guarding", "profile", "listing", "resolving", "detailing", "failed",
         "member"} \subseteq Points \ {"done"}
    BY DEF Points, Over, Reads, Steps
  <1>c. UNCHANGED cell => \A q \in Returned : cell'[q] = cell[q]
    OBVIOUS
  <1>1. ASSUME NEW r \in Requests, NEW c \in Cells, Start(r, c) PROVE Cached'
    <2>1. UNCHANGED Returned
      BY <1>1, <1>q, <1>n DEF Start, Provision
    <2>2. \A q \in Returned : cell'[q] = cell[q]
      BY <1>1 DEF Start, Returned, TypeOK, Teams
    <2>3. StartFetch(r) \/ UNCHANGED <<cacheVars, fetch>>
      BY <1>1, <1>p DEF Start
    <2> QED BY <2>1, <2>2, <2>3, CachedLookup
  <1>2. ASSUME NEW r \in Requests,
               AfterList(r) \/ AfterDetailedList(r) \/ AfterGuard(r)
        PROVE  Cached'
    <2>1. UNCHANGED Returned
      BY <1>2, <1>q, <1>n DEF AfterList, AfterDetailedList, AfterGuard, Answered,
         Provision, FailsOrReturns, RequireProof
    <2>2. UNCHANGED cell
      BY <1>2 DEF AfterList, AfterDetailedList, AfterGuard
    <2>3. StartFetch(r) \/ UNCHANGED <<cacheVars, fetch>>
      BY <1>2, <1>p DEF AfterList, AfterDetailedList, AfterGuard, FailsOrReturns
    <2> QED BY <1>c, <2>1, <2>2, <2>3, CachedLookup
  <1>3. ASSUME NEW r \in Requests,
               Writes(r) \/ WriteFails(r) \/ Unwind(r) \/ Consume(r)
        PROVE  Cached'
    <2>1. UNCHANGED <<cell, cacheVars, readVars>>
      BY <1>3 DEF Writes, WriteFails, Unwind, Consume, dirVars
    <2>2. pc[r] # "done"
      BY <1>3 DEF Writes, WriteFails, Unwind, Consume, Steps, Deletes
    <2>3. \E p \in Points \ {"done"} : Goto(r, p)
      <3>1. CASE Writes(r)
        BY <3>1 DEF Writes, Steps, Following, Points
      <3>2. CASE WriteFails(r)
        <4>1. {"failed", "-user_role_assignments"} \subseteq Points \ {"done"}
          BY DEF Points, Over, Deletes
        <4> QED BY <3>2, <4>1 DEF WriteFails
      <3>3. CASE Unwind(r)
        BY <3>3 DEF Unwind, Deletes, After, Points, Over
      <3>4. CASE Consume(r)
        BY <3>4 DEF Consume, Points, Over
      <3> QED BY <1>3, <3>1, <3>2, <3>3, <3>4
    <2>4. UNCHANGED Returned
      BY <1>q, <2>2, <2>3
    <2> QED BY <1>c, <2>1, <2>4, CachedLookup DEF readVars
  <1>4. ASSUME NEW r \in Requests, Return(r) PROVE Cached'
    <2>1. /\ entry' = 0 /\ promise' = Nobody /\ held' = Nothing
          /\ UNCHANGED <<entries, healthy, fetch>>
      BY <1>4 DEF Return, Invalidate, readVars
    <2> QED BY <2>1 DEF Cached, TypeOK, DirectoryHasTeam
  <1>5. ASSUME NEW r \in Requests, DirectoryStep(r) PROVE Cached'
    <2>1. UNCHANGED pc
      BY <1>5 DEF DirectoryStep
    <2> QED BY <1>5, <2>1, CachedEnds, CachedCell DEF DirectoryStep
  <1>6. CASE ProofExpires \/ UNCHANGED vars
    <2>1. UNCHANGED <<pc, dirVars>>
      BY <1>6 DEF ProofExpires, vars
    <2> QED BY <2>1 DEF Cached, DirectoryHasTeam, Tells, Returned, dirVars,
                        cacheVars, readVars
  <1>7. CASE Crash
    <2>1. /\ entry' = 0 /\ promise' = Nobody /\ held' = Nothing
          /\ healthy' = {} /\ entries' = entries
          /\ fetch' = [r \in Requests |-> NoFetch]
      BY <1>7 DEF Crash, Restart
    <2> QED BY <2>1 DEF Cached, TypeOK, DirectoryHasTeam, NoFetch
  <1> QED BY <1>1, <1>2, <1>3, <1>4, <1>5, <1>6, <1>7 DEF Next

(* A directory that is served from the cache lists every team that the server
   has returned (DirectoryHasTeam). *)
THEOREM AlwaysDirectoryHasTeam == Spec => []DirectoryHasTeam
  <1>1. Init => Cached
    BY DEF Init, DirInit, Cached, NoFetch, DirectoryHasTeam
  <1>2. Cached => DirectoryHasTeam
    BY DEF Cached
  <1> QED BY <1>1, <1>2, CachedStep, TypeCorrect, AlwaysProgress, PTL DEF Spec

-----------------------------------------------------------------------------
(* Who may be given a team *)

Entitled ==
  /\ \A r \in Requests : Valid(cookie[r]) => entitled[r]
  /\ Member => \A r \in Requests : pc[r] # "idle" => entitled[r]
  /\ \A r \in Requests : pc[r] = "guarding" =>
       /\ waits[r] \in {r, Nobody}
       /\ fetch[r].found # {} \/ seen[r].found # {} => entitled[r]
  /\ \A r \in Requests : google /\ (rows[r] # {} \/ pc[r] \in Steps) => entitled[r]

(* r reads the directory: only its own point, fan-out and answer change. *)
LEMMA EntitledRead ==
  ASSUME TypeOK, Entitled, NEW r \in Requests, NEW p \in Points, Goto(r, p),
         UNCHANGED <<rows, google, expired>>, rows[r] = {},
         \A q \in Requests : /\ cookie'[q] = {} \/ cookie'[q] = cookie[q] \/ q = r
                             /\ q # r => entitled'[q] = entitled[q],
         Valid(cookie[r])' => entitled'[r],
         Member => entitled'[r],
         p = "guarding" => StartFetch(r),
         google /\ p \in Steps => entitled'[r],
         \/ StartFetch(r)
         \/ UNCHANGED fetch /\ \A q \in Requests \ {r} :
                                   waits'[q] = waits[q] /\ seen'[q] = seen[q]
  PROVE  Entitled'
  <1> USE DEF TypeOK, Entitled
  <1>0. /\ pc'[r] = p /\ \A q \in Requests \ {r} : pc'[q] = pc[q]
        /\ \A q \in Requests \ {r} : entitled'[q] = entitled[q]
    BY DEF Goto
  <1>1. Member' = Member
    BY DEF Member, Listed
  <1>2. \A q \in Requests : Valid(cookie[q])' => entitled'[q]
    <2> SUFFICES ASSUME NEW q \in Requests, q # r, Valid(cookie[q])'
                 PROVE  entitled'[q]
      OBVIOUS
    <2>1. cookie'[q] = cookie[q] /\ expired' = expired
      BY DEF Valid
    <2>2. Valid(cookie[q])
      BY <2>1 DEF Valid
    <2> QED BY <1>0, <2>2
  <1>3. Member' => \A q \in Requests : pc'[q] # "idle" => entitled'[q]
    BY <1>0, <1>1
  <1>4. \A q \in Requests \ {r} : /\ fetch'[q] = fetch[q] /\ seen'[q] = seen[q]
                                  /\ waits'[q] = waits[q]
    BY DEF StartFetch
  <1>5. StartFetch(r) => /\ fetch'[r].found = {} /\ seen'[r].found = {}
                         /\ waits'[r] = r
    BY DEF StartFetch, NoFetch, Nothing, Directory
  <1>6. \A q \in Requests : pc'[q] = "guarding" =>
          /\ waits'[q] \in {q, Nobody}
          /\ fetch'[q].found # {} \/ seen'[q].found # {} => entitled'[q]
    BY <1>0, <1>4, <1>5
  <1>7. \A q \in Requests : google' /\ (rows'[q] # {} \/ pc'[q] \in Steps) => entitled'[q]
    BY <1>0
  <1> QED BY <1>2, <1>3, <1>6, <1>7

LEMMA EntitledDirectory ==
  ASSUME TypeOK, Entitled, NEW r \in Requests, DirectoryStep(r)
  PROVE  Entitled'
  <1> USE DEF TypeOK, Entitled
  <1>1. /\ UNCHANGED <<rows, cookieVars, pc, entitled>>
        /\ Member' = Member
    BY DEF DirectoryStep, CellAnswers, CellFails, FetchEnds, Member, Listed
  <1>2. fetch[r] \in Fetches
    OBVIOUS
  <1>3. ASSUME NEW q \in Requests, pc[q] = "guarding"
        PROVE  /\ waits'[q] \in {q, Nobody}
               /\ fetch'[q].found # {} \/ seen'[q].found # {} => entitled[q]
    <2>1. ASSUME NEW c \in Cells, CellAnswers(r, c) \/ CellFails(r, c)
          PROVE  /\ UNCHANGED <<waits, seen>>
                 /\ fetch'[q].found # {} => fetch[q].found # {} \/ Member
      <3>1. CASE CellFails(r, c)
        BY <1>2, <2>1, <3>1 DEF CellFails, Fetches
      <3>2. CASE CellAnswers(r, c)
        BY <1>2, <2>1, <3>2 DEF CellAnswers, Fetches, Member
      <3> QED BY <2>1, <3>1, <3>2
    <2>2. CASE FetchEnds(r)
      <3>1. /\ seen'[q] = IF waits[q] = r THEN Result(fetch[r]) ELSE seen[q]
            /\ waits'[q] = IF waits[q] = r THEN Nobody ELSE waits[q]
            /\ fetch'[q] = IF q = r THEN NoFetch ELSE fetch[q]
        BY <2>2 DEF FetchEnds, Deliver
      <3>2. Result(fetch[r]).found # {} => fetch[r].found # {}
        BY DEF Result, Nothing, Directory
      <3>3. waits[q] = r => q = r
        BY <1>3, DirectoryAssumption
      <3> QED BY <1>3, <3>1, <3>2, <3>3 DEF NoFetch
    <2> QED BY <1>3, <2>1, <2>2 DEF DirectoryStep
  <1> QED BY <1>1, <1>3 DEF cookieVars, Valid

LEMMA EntitledStep ==
  ASSUME TypeOK, Progress, Entitled, [Next]_vars
  PROVE  Entitled'
  <1> USE DEF TypeOK
  <1>e. \A r \in Requests : pc[r] \in Early => rows[r] = {}
    BY DEF Progress, ProgressOf
  <1>n. {"guarding", "profile", "listing", "resolving", "detailing", "failed",
         "member"} \subseteq Points
    BY DEF Points, Over, Reads, Steps
  <1>f. ASSUME NEW r \in Requests, StartFetch(r) \/ Hit(r) \/ Read(r)
        PROVE  \/ StartFetch(r)
               \/ UNCHANGED fetch /\ \A q \in Requests \ {r} :
                                         waits'[q] = waits[q] /\ seen'[q] = seen[q]
    BY <1>f DEF Hit, Read
  <1>1. ASSUME NEW r \in Requests, NEW c \in Cells, Start(r, c) PROVE Entitled'
    <2>1. entitled'[r] = (Member \/ Valid(jar)) /\ cookie'[r] = jar /\ expired' = expired
      BY <1>1 DEF Start
    <2>2. PICK p \in {"guarding", "profile", "listing", "resolving"} :
            /\ Goto(r, p)
            /\ p = "guarding" => StartFetch(r)
            /\ google => p # "profile"
            /\ StartFetch(r) \/ Hit(r) \/ Read(r)
      BY <1>1 DEF Start, Provision, Lookup
    <2>3. /\ UNCHANGED <<rows, google, expired>> /\ rows[r] = {}
          /\ \A q \in Requests \ {r} : /\ cookie'[q] = cookie[q]
                                       /\ entitled'[q] = entitled[q]
      BY <1>1, <1>e DEF Start, Early
    <2>4. google /\ p \in Steps => entitled'[r]
      BY <2>2 DEF Steps
    <2>5. Valid(cookie[r])' => entitled'[r]
      BY <2>1 DEF Valid
    <2> QED BY <1>f, <1>n, <2>1, <2>2, <2>3, <2>4, <2>5, EntitledRead
  <1>2. ASSUME NEW r \in Requests, AfterList(r) \/ AfterDetailedList(r) PROVE Entitled'
    <2>1. PICK p \in {"guarding", "profile", "detailing", "failed", "member"} :
            /\ Goto(r, p)
            /\ p = "guarding" => StartFetch(r)
            /\ google => p # "profile"
            /\ StartFetch(r) \/ Hit(r) \/ Read(r)
      BY <1>2 DEF AfterList, AfterDetailedList, FailsOrReturns, Provision, Lookup
    <2>2. /\ UNCHANGED <<rows, cookieVars, entitled>>
          /\ pc[r] \in Reads
      BY <1>2 DEF AfterList, AfterDetailedList, Answered, Reads
    <2>3. rows[r] = {}
      BY <1>e, <2>2 DEF Early
    <2>4. google /\ p \in Steps => entitled'[r]
      BY <2>1 DEF Steps
    <2>5. Valid(cookie[r])' => entitled'[r]
      BY <2>2 DEF Valid, cookieVars, Entitled
    <2>6. Member => entitled'[r]
      BY <2>2 DEF Entitled, Reads
    <2> QED BY <1>f, <1>n, <2>1, <2>2, <2>3, <2>4, <2>5, <2>6, EntitledRead
            DEF cookieVars
  <1>3. ASSUME NEW r \in Requests, AfterGuard(r) PROVE Entitled'
    <2>1. PICK p \in {"profile", "failed"} : Goto(r, p)
      BY <1>3 DEF AfterGuard, RequireProof
    <2>2. /\ UNCHANGED <<rows, google, expired, entitled>> /\ Read(r)
          /\ cookie' = [cookie EXCEPT ![r] = {}]
          /\ pc[r] = "guarding"
      BY <1>3 DEF AfterGuard, Answered
    <2>3. rows[r] = {}
      BY <1>e, <2>2 DEF Early, Reads
    <2>4. p = "profile" => entitled[r]
      BY <1>3, <2>1, <2>2 DEF AfterGuard, RequireProof, Goto, Entitled
    <2>5. Valid(cookie[r])' => entitled'[r]
      BY <2>2 DEF Valid
    <2>6. Member => entitled'[r]
      BY <2>2 DEF Entitled
    <2>7. google /\ p \in Steps => entitled'[r]
      BY <2>2, <2>4 DEF Steps
    <2> QED BY <1>f, <1>n, <2>1, <2>2, <2>3, <2>5, <2>6, <2>7, EntitledRead
  <1>4. ASSUME NEW r \in Requests, Insert(r), pc[r] \in Steps,
               NEW p \in Steps \cup Deletes \cup {"consume", "failed"}, Goto(r, p),
               UNCHANGED <<readVars, cookieVars>>
        PROVE  Entitled'
    <2>1. \A q \in Requests : entitled'[q] =
            (entitled[q] \/ (pc[q] # "idle" /\ pc[r] = "team_member"))
      BY <1>4 DEF Insert
    <2>2. /\ rows'[r] = rows[r] \cup ({pc[r]} \cap Tables)
          /\ \A t \in Teams \ {r} : rows'[t] = rows[t]
      BY <1>4 DEF Insert, Teams
    <2>3. /\ pc'[r] = p /\ \A q \in Requests \ {r} : pc'[q] = pc[q]
          /\ p # "idle" /\ p # "guarding" /\ pc[r] # "idle" /\ pc[r] # "guarding"
      BY <1>4 DEF Goto, Steps, Deletes
    <2>4. Listed(r)' => Listed(r) \/ pc[r] = "team_member"
      <3>1. pc[r] = "team_memberships" => Listed(r)
        BY DEF Progress, ProgressOf, Listed
      <3> QED BY <2>2, <3>1 DEF Listed
    <2>5. Member' => Member \/ pc[r] = "team_member"
      BY <2>2, <2>4 DEF Member, Listed
    <2>6. \A q \in Requests : Valid(cookie[q])' => entitled'[q]
      BY <1>4, <2>1 DEF Entitled, Valid, cookieVars
    <2>7. Member' => \A q \in Requests : pc'[q] # "idle" => entitled'[q]
      BY <2>1, <2>3, <2>5 DEF Entitled
    <2>8. \A q \in Requests : pc'[q] = "guarding" =>
            /\ waits'[q] \in {q, Nobody}
            /\ fetch'[q].found # {} \/ seen'[q].found # {} => entitled'[q]
      BY <1>4, <2>1, <2>3 DEF Entitled, readVars
    <2>9. \A q \in Requests : google' /\ (rows'[q] # {} \/ pc'[q] \in Steps) => entitled'[q]
      BY <1>4, <2>1, <2>2, <2>3 DEF Entitled, cookieVars, Teams
    <2> QED BY <2>6, <2>7, <2>8, <2>9 DEF Entitled
  (* A step that writes nothing of its own leads on, or deletes. *)
  <1>5. ASSUME NEW r \in Requests, UNCHANGED <<readVars, google, expired, cookie, entitled>>,
               \A t \in Teams : rows'[t] \subseteq rows[t],
               \A q \in Requests : \/ pc'[q] = pc[q]
                                   \/ /\ pc'[q] \notin Steps \cup {"guarding", "idle"}
                                      /\ pc[q] # "idle"
        PROVE  Entitled'
    <2>1. Member' => Member
      BY <1>5 DEF Member, Listed
    <2>2. Requests \subseteq Teams
      BY DEF Teams
    <2> QED BY <1>5, <2>1, <2>2 DEF Entitled, Valid, readVars
  <1>6. ASSUME NEW r \in Requests, Writes(r) PROVE Entitled'
    <2>1. Following(pc[r]) \in Steps \cup Deletes \cup {"consume", "failed"}
      BY <1>6 DEF Writes, Steps, Following
    <2> QED BY <1>4, <1>6, <2>1 DEF Writes
  <1>7. ASSUME NEW r \in Requests, WriteFails(r) PROVE Entitled'
    <2>1. PICK p \in {"failed", "-user_role_assignments"} : Goto(r, p)
      BY <1>7 DEF WriteFails
    <2>2. p \in Deletes \cup {"failed"} /\ p \notin Steps \cup {"guarding", "idle"}
      BY <2>1 DEF Deletes, Steps
    <2>3. pc[r] \in Steps /\ pc[r] # "idle" /\ UNCHANGED <<readVars, cookieVars>>
      BY <1>7 DEF WriteFails, Steps
    <2>4. CASE UNCHANGED <<rows, entitled>>
      <3>1. \A q \in Requests : \/ pc'[q] = pc[q]
                                \/ /\ pc'[q] \notin Steps \cup {"guarding", "idle"}
                                   /\ pc[q] # "idle"
        BY <2>1, <2>2, <2>3 DEF Goto
      <3> QED BY <1>5, <2>3, <2>4, <3>1 DEF cookieVars
    <2>5. CASE Insert(r)
      BY <1>4, <2>1, <2>2, <2>3, <2>5
    <2> QED BY <1>7, <2>4, <2>5 DEF WriteFails
  <1>8. ASSUME NEW r \in Requests, Unwind(r) PROVE Entitled'
    <2>1. After(pc[r]) \notin Steps \cup {"guarding", "idle"} /\ pc[r] # "idle"
      BY <1>8 DEF Unwind, Deletes, After, Steps
    <2>2. pc' = [pc EXCEPT ![r] = After(pc[r])]
      BY <1>8 DEF Unwind, Goto
    <2>3. \A t \in Teams : rows'[t] \subseteq rows[t]
      BY <1>8 DEF Unwind
    <2>4. UNCHANGED <<readVars, google, expired, cookie, entitled>>
      BY <1>8 DEF Unwind, cookieVars
    <2> QED BY <1>5, <2>1, <2>2, <2>3, <2>4
  <1>9. ASSUME NEW r \in Requests, Consume(r) \/ Return(r) PROVE Entitled'
    <2>1. PICK p \in {"made", "unpaid", "done"} : pc' = [pc EXCEPT ![r] = p]
      BY <1>9 DEF Consume, Return, Goto
    <2>2. p \notin Steps \cup {"guarding", "idle"} /\ pc[r] # "idle"
      BY <1>9, <2>1 DEF Consume, Return, Steps
    <2>3. UNCHANGED <<rows, readVars, google, expired, cookie, entitled>>
      BY <1>9 DEF Consume, Return, cookieVars, dirVars
    <2> QED BY <1>5, <2>1, <2>2, <2>3
  <1>10. ASSUME NEW r \in Requests, DirectoryStep(r) PROVE Entitled'
    BY <1>10, EntitledDirectory
  <1>11. CASE ProofExpires
    BY <1>11 DEF ProofExpires, Entitled, Valid, Member, Listed, dirVars, readVars
  <1>12. CASE Crash
    <2>1. \A q \in Requests : \/ pc'[q] = pc[q] /\ pc[q] \in Over
                              \/ pc'[q] = "cut" /\ pc[q] # "idle"
      <3>1. \A q \in Requests : pc'[q] = IF pc[q] \in Over THEN pc[q] ELSE "cut"
        BY <1>12 DEF Crash
      <3> QED BY <3>1 DEF Over
    <2>2. \A q \in Requests : pc'[q] \notin Steps \cup {"guarding"}
      BY <2>1 DEF Over, Steps
    <2>3. UNCHANGED <<rows, google, expired, cookie, entitled>>
      BY <1>12 DEF Crash, Restart, cookieVars
    <2>4. Member' = Member
      BY <2>3 DEF Member, Listed
    <2> QED BY <2>1, <2>2, <2>3, <2>4 DEF Entitled, Valid
  <1>13. CASE UNCHANGED vars
    BY <1>13 DEF vars, dirVars, readVars, cookieVars, Entitled, Valid, Member, Listed
  <1> QED BY <1>1, <1>2, <1>3, <1>6, <1>7, <1>8, <1>9, <1>10, <1>11, <1>12, <1>13
          DEF Next

(* A Google user is given a team for a proof, or as one who has a team already
   (FirstTeamForProof). *)
THEOREM AlwaysFirstTeamForProof == Spec => []FirstTeamForProof
  <1>1. Init => Entitled
    BY DEF Init, DirInit, Entitled, Valid, Member, Listed, Steps
  <1>2. Entitled => FirstTeamForProof
    BY DEF Entitled, FirstTeamForProof
  <1> QED BY <1>1, <1>2, EntitledStep, TypeCorrect, AlwaysProgress, PTL DEF Spec
=============================================================================
