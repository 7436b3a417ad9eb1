-------------------------- MODULE QueryCacheProofs --------------------------
(***************************************************************************)
(* Proofs about QueryCache, for any rows, mutations and troubles.          *)
(***************************************************************************)
EXTENDS QueryCache, TLAPS

(* A mutation under way that will have the list fetched, and the rows of the
   creates under way, which may not. *)
Refetches(m) == Running(m) /\ kind[m] # "create"
Busy == \E m \in Mutations : Refetches(m)
Creates(m, r) == pc[m] = "sent" /\ kind[m] = "create" /\ r \in target[m]
Creating(r) == \E m \in Mutations : Creates(m, r)

(* What the mutations rely on. *)
Order ==
  \A m \in Mutations :
    /\ kind[m] = "create" => pc[m] \in {"idle", "sent", "done"}
    /\ \A r \in Rows : request[m][r] = "waiting" =>
         r \in target[m] /\ pc[m] \in {"sent", "ended", "done"}

Loaded ==
  /\ fetch = "read" => answer \in Lists
  /\ \A m \in Mutations : Refetches(m) =>
       /\ data \in Lists
       /\ pc[m] = "sent" => snapshot[m] \in Lists

(* The strengthening of CacheAgrees: what the list, or an answer on its way,
   knows while no mutation is under way that will have it fetched again. *)
Excused(r) == r \in unseen \/ Creating(r)

Agreement ==
  /\ ~Busy /\ fetch = "none" /\ ~invalid /\ ~failed /\ data # Absent =>
       \A r \in Rows : Excused(r) \/ data[r] = server[r] \/ KeyListedTwice(r)
  /\ ~Busy /\ fetch = "read" =>
       \A r \in Rows : Excused(r) \/ answer[r] = server[r]

-----------------------------------------------------------------------------
LEMMA StatusFacts ==
  /\ {"none", "active", "paused", "twice"} \subseteq Statuses
  /\ \A k : \A s \in Statuses : Done(k, s) \in Statuses
  /\ \A k : Optimistic(k) \in Statuses
  /\ Absent \notin Lists
  <1>1. Absent \notin Lists
    BY CacheAssumption DEF Lists
  <1>2. \A k : \A s \in Statuses : Done(k, s) \in Statuses
    BY DEF Done, Statuses
  <1>3. \A k : Optimistic(k) \in Statuses
    BY DEF Optimistic, Statuses
  <1> QED BY <1>1, <1>2, <1>3 DEF Statuses

LEMMA PatchedType ==
  ASSUME NEW R, NEW s \in Statuses, data \in Lists
  PROVE  Patched(R, s) \in Lists
  BY DEF Patched, Lists

LEMMA PrependedType ==
  ASSUME NEW r \in Rows, data \in Lists \cup {Absent}
  PROVE  Prepended(r) \in Lists
  BY StatusFacts DEF Prepended, Lists

Requests == [Rows -> {"none", "waiting", "ok", "failed"}]

LEMMA SendType ==
  ASSUME TypeOK, NEW m \in Mutations, NEW R, Send(m, R)
  PROVE  request' \in [Mutations -> Requests]
  <1>1. [r \in Rows |-> IF r \in R THEN "waiting" ELSE "none"] \in Requests
    BY DEF Requests
  <1> QED BY <1>1 DEF Send, TypeOK, Requests

LEMMA ForgetType ==
  ASSUME TypeOK, NEW m \in Mutations, Forget(m)
  PROVE  /\ request' \in [Mutations -> Requests]
         /\ snapshot' \in [Mutations -> Lists \cup {Absent}]
  <1>1. [r \in Rows |-> IF request[m][r] = "waiting" THEN "waiting" ELSE "none"]
          \in Requests
    BY DEF Requests
  <1> QED BY <1>1 DEF Forget, TypeOK, Requests

LEMMA AnsweredType ==
  ASSUME TypeOK, NEW m \in Mutations, NEW r \in Rows,
         NEW result \in {"ok", "failed"}, Answered(m, r, result)
  PROVE  request' \in [Mutations -> Requests]
  BY DEF Answered, TypeOK, Requests

-----------------------------------------------------------------------------
(* The type invariant: the query's steps, then the mutations'. *)
LEMMA InitTypeOK == Init => TypeOK /\ Order /\ Loaded /\ Agreement
  <1> SUFFICES ASSUME Init PROVE TypeOK /\ Order /\ Loaded /\ Agreement
    OBVIOUS
  <1>1. server \in Lists
    BY StatusFacts DEF Init, Lists
  <1>2. TypeOK
    BY <1>1 DEF Init, TypeOK
  <1>3. Order /\ Loaded /\ Agreement
    BY DEF Init, Order, Loaded, Agreement, Refetches, Running
  <1> QED BY <1>2, <1>3

LEMMA QueryTypeOK ==
  ASSUME TypeOK, Loaded, QueryStep
  PROVE  TypeOK'
  <1> USE DEF TypeOK, StartFetch, EndFetch, SetData, mutVars, queryVars
  <1>1. CASE Refetch
    BY <1>1 DEF Refetch
  <1>2. CASE ServerReads
    BY <1>2 DEF ServerReads
  <1>3. CASE Arrives
    BY <1>3 DEF Arrives, Loaded
  <1>4. CASE FetchFails
    BY <1>4 DEF FetchFails
  <1> QED BY <1>1, <1>2, <1>3, <1>4 DEF QueryStep

LEMMA CreateTypeOK ==
  ASSUME TypeOK, NEW m \in Mutations, NEW r \in Fresh, Create(m, r)
  PROVE  TypeOK'
  <1>1. {r} \in SUBSET Rows
    BY DEF Rows
  <1>2. request' \in [Mutations -> Requests]
    BY SendType DEF Create
  <1> QED
    BY <1>1, <1>2 DEF Create, Goto, TypeOK, queryVars, fetchVars, Requests

LEMMA MutateTypeOK ==
  ASSUME TypeOK, NEW m \in Mutations, NEW k \in {"delete", "bulk", "pause", "resume"},
         NEW R \in SUBSET Rows, Mutate(m, k, R)
  PROVE  TypeOK'
  BY DEF Mutate, Goto, EndFetch, TypeOK, queryVars

LEMMA ServeTypeOK ==
  ASSUME TypeOK, NEW m \in Mutations, NEW r \in Rows, Serve(m, r)
  PROVE  TypeOK'
  <1>1. request' \in [Mutations -> Requests]
    BY AnsweredType DEF Serve, CarriedOut, Refused
  <1>2. server' \in Lists
    <2>1. Done(kind[m], server[r]) \in Statuses
      BY StatusFacts DEF TypeOK, Lists
    <2> QED BY <2>1 DEF Serve, CarriedOut, Refused, TypeOK, Lists
  <1>3. unseen' \in SUBSET Rows
    BY DEF Serve, CarriedOut, Refused, Unseen, TypeOK
  <1> QED
    BY <1>1, <1>2, <1>3 DEF Serve, TypeOK, queryVars, fetchVars, Requests

LEMMA OnMutateTypeOK ==
  ASSUME TypeOK, Order, Loaded, NEW m \in Mutations, OnMutate(m)
  PROVE  /\ TypeOK'
         /\ kind[m] # "create" /\ snapshot'[m] = data
         /\ data \in Lists /\ data' \in Lists
  <1>1. kind[m] # "create" /\ data \in Lists
    BY DEF OnMutate, Order, Loaded, Refetches, Running
  <1>2. data' \in Lists
    BY <1>1, StatusFacts, PatchedType DEF OnMutate, SetData
  <1>3. request' \in [Mutations -> Requests]
    BY SendType DEF OnMutate
  <1> QED
    BY <1>1, <1>2, <1>3 DEF OnMutate, Goto, SetData, TypeOK, fetchVars, Requests

LEMMA OnCreatedTypeOK ==
  ASSUME TypeOK, NEW m \in Mutations, NEW r \in Fresh, OnCreated(m, r)
  PROVE  /\ TypeOK'
         /\ data' = data \/ data' \in Lists
  <1>1. Prepended(r) \in Lists
    BY PrependedType DEF TypeOK, Rows
  <1>2. /\ request' \in [Mutations -> Requests]
        /\ snapshot' \in [Mutations -> Lists \cup {Absent}]
    BY ForgetType DEF OnCreated
  <1>3. unseen' \in SUBSET Rows
    BY DEF OnCreated, InvalidateQueries, InvalidateJoins, StartFetch, Unseen,
           TypeOK, Rows
  <1>4. data' \in {data, Prepended(r)} /\ invalid' \in BOOLEAN /\ failed' \in BOOLEAN
    BY DEF OnCreated, SetData, InvalidateQueries, InvalidateJoins, TypeOK
  <1>5. fetch' \in {"none", "sent", "read"} /\ answer' \in Lists \cup {Absent}
    BY DEF OnCreated, InvalidateQueries, InvalidateJoins, StartFetch, fetchVars,
           TypeOK
  <1>6. pc' = [pc EXCEPT ![m] = "done"] /\ UNCHANGED <<hooks, server, kind, target>>
    BY DEF OnCreated, Goto
  <1> QED
    BY <1>1, <1>2, <1>3, <1>4, <1>5, <1>6 DEF TypeOK, Requests

LEMMA EndTypeOK ==
  ASSUME TypeOK, Loaded, NEW m \in Mutations,
         CreateFails(m) \/ OnSuccess(m) \/ OnError(m) \/ OnSettled(m)
  PROVE  /\ TypeOK'
         /\ data' = data \/ data' \in Lists
  <1> USE DEF Goto, queryVars, fetchVars, Requests
  <1>1. CASE CreateFails(m)
    <2>1. unseen' \in SUBSET Rows
      BY <1>1 DEF CreateFails, Unseen, TypeOK
    <2> QED BY <1>1, <2>1, ForgetType DEF CreateFails, TypeOK
  <1>2. CASE OnSuccess(m)
    <2>1. data \in Lists
      BY <1>2 DEF OnSuccess, Loaded, Refetches, Running
    <2>2. data' \in Lists /\ invalid' \in BOOLEAN /\ failed' \in BOOLEAN
      <3>1. Patched(target[m], "active") \in Lists
        BY <2>1, StatusFacts, PatchedType
      <3> QED BY <1>2, <2>1, <3>1 DEF OnSuccess, SetData, TypeOK
    <2> QED BY <1>2, <2>2, ForgetType DEF OnSuccess, TypeOK
  <1>3. CASE OnError(m)
    <2>1. snapshot[m] \in Lists
      BY <1>3 DEF OnError, Loaded, Refetches, Running
    <2> QED BY <1>3, <2>1, ForgetType DEF OnError, SetData, TypeOK
  <1>4. CASE OnSettled(m)
    BY <1>4 DEF OnSettled, InvalidateQueries, StartFetch, TypeOK
  <1> QED BY <1>1, <1>2, <1>3, <1>4

LEMMA ElsewhereTypeOK ==
  ASSUME TypeOK, NEW r \in Old, Elsewhere(r)
  PROVE  TypeOK'
  <1>1. PICK s \in {"none", "paused"} : server' = [server EXCEPT ![r] = s]
    BY DEF Elsewhere
  <1>2. server' \in Lists
    BY <1>1, StatusFacts DEF TypeOK, Lists, Rows
  <1> QED
    BY <1>2 DEF Elsewhere, Unseen, TypeOK, queryVars, fetchVars, mutVars, Rows

-----------------------------------------------------------------------------
(* The steps of Next, each with its mutation and rows, and what a step of the
   query leaves alone. *)
LEMMA StepCases ==
  ASSUME Next
  PROVE  \/ QueryStep
         \/ \E m \in Mutations, r \in Fresh : Create(m, r) \/ OnCreated(m, r)
         \/ \E m \in Mutations, k \in {"delete", "bulk", "pause", "resume"},
               R \in SUBSET Rows : Mutate(m, k, R)
         \/ \E m \in Mutations, r \in Rows : Serve(m, r)
         \/ \E m \in Mutations : OnMutate(m)
         \/ \E m \in Mutations : CreateFails(m) \/ OnSuccess(m) \/ OnError(m)
                                 \/ OnSettled(m)
         \/ \E r \in Old : Elsewhere(r)
  <1>1. ASSUME NEW m \in Mutations, UserStep(m)
        PROVE  \/ \E r \in Fresh : Create(m, r)
               \/ \E k \in {"delete", "bulk", "pause", "resume"},
                     R \in SUBSET Rows : Mutate(m, k, R)
    <2>1. CASE \E k \in Kinds(hooks) \ {"create", "bulk"}, r \in Rows : Mutate(m, k, {r})
      <3>1. PICK k \in Kinds(hooks) \ {"create", "bulk"}, r \in Rows : Mutate(m, k, {r})
        BY <2>1
      <3>2. k \in {"delete", "bulk", "pause", "resume"} /\ {r} \in SUBSET Rows
        BY DEF Kinds
      <3> QED BY <3>1, <3>2
    <2> QED BY <1>1, <2>1 DEF UserStep
  <1> QED BY <1>1 DEF Next, Handler

LEMMA QueryFrame ==
  ASSUME QueryStep
  PROVE  UNCHANGED <<hooks, pc, kind, target, snapshot, request>>
  BY DEF QueryStep, Refetch, ServerReads, Arrives, FetchFails, mutVars

LEMMA StepOrder == TypeOK /\ Order /\ [Next]_vars => Order'
  <1> SUFFICES ASSUME TypeOK, Order, [Next]_vars PROVE Order'
    OBVIOUS
  <1>1. CASE QueryStep
    BY <1>1, QueryFrame DEF Order
  <1>2. ASSUME NEW m \in Mutations, NEW r \in Fresh, Create(m, r) PROVE Order'
    BY <1>2 DEF Create, Goto, Send, Order, TypeOK
  <1>3. ASSUME NEW m \in Mutations, NEW r \in Fresh, OnCreated(m, r) PROVE Order'
    <2>1. /\ pc' = [pc EXCEPT ![m] = "done"] /\ UNCHANGED <<kind, target>>
          /\ Forget(m)
      BY <1>3 DEF OnCreated, Goto
    <2> QED BY <2>1 DEF Forget, Order, TypeOK
  <1>4. ASSUME NEW m \in Mutations, NEW k \in {"delete", "bulk", "pause", "resume"},
               NEW R \in SUBSET Rows, Mutate(m, k, R)
        PROVE  Order'
    BY <1>4 DEF Mutate, IsNext, Goto, Order, TypeOK
  <1>5. ASSUME NEW m \in Mutations, NEW r \in Rows, Serve(m, r) PROVE Order'
    <2>1. UNCHANGED <<pc, kind, target>>
      BY <1>5 DEF Serve
    <2>2. \A n \in Mutations, q \in Rows :
            request'[n][q] = "waiting" => request[n][q] = "waiting"
      <3>1. PICK result \in {"ok", "failed"} :
              request' = [request EXCEPT ![m][r] = result]
        BY <1>5 DEF Serve, CarriedOut, Refused, Answered
      <3> QED BY <3>1 DEF TypeOK
    <2> QED BY <2>1, <2>2 DEF Order
  <1>6. ASSUME NEW m \in Mutations, OnMutate(m) PROVE Order'
    BY <1>6 DEF OnMutate, Goto, Send, Order, TypeOK
  <1>7. ASSUME NEW m \in Mutations,
               CreateFails(m) \/ OnSuccess(m) \/ OnError(m) \/ OnSettled(m)
        PROVE  Order'
    <2>1. CASE CreateFails(m)
      <3>1. /\ pc' = [pc EXCEPT ![m] = "done"] /\ UNCHANGED <<kind, target>>
            /\ Forget(m)
        BY <2>1 DEF CreateFails, Goto
      <3> QED BY <3>1 DEF Forget, Order, TypeOK
    <2>2. CASE OnSuccess(m) \/ OnError(m)
      <3>1. /\ pc' = [pc EXCEPT ![m] = "ended"] /\ kind[m] # "create"
            /\ UNCHANGED <<kind, target>> /\ Forget(m)
        BY <2>2 DEF OnSuccess, OnError, Goto
      <3> QED BY <3>1 DEF Forget, Order, TypeOK
    <2>3. CASE OnSettled(m)
      BY <2>3 DEF OnSettled, Goto, Order, TypeOK
    <2> QED BY <1>7, <2>1, <2>2, <2>3
  <1>8. ASSUME NEW r \in Old, Elsewhere(r) PROVE Order'
    BY <1>8 DEF Elsewhere, mutVars, Order
  <1>9. CASE UNCHANGED vars
    BY <1>9 DEF vars, mutVars, Order
  <1> QED BY <1>1, <1>2, <1>3, <1>4, <1>5, <1>6, <1>7, <1>8, <1>9, StepCases

-----------------------------------------------------------------------------
(* The data a mutation has patched are there until it is over. *)
LEMMA StepLoaded == TypeOK /\ Order /\ Loaded /\ [Next]_vars => Loaded'
  <1> SUFFICES ASSUME TypeOK, Order, Loaded, [Next]_vars PROVE Loaded'
    OBVIOUS
  <1> USE DEF Loaded, Refetches, Running
  <1>1. CASE QueryStep
    <2>1. fetch' = "read" => answer' \in Lists
      BY <1>1 DEF QueryStep, Refetch, ServerReads, Arrives, FetchFails,
                  StartFetch, EndFetch, TypeOK
    <2>2. data' = data \/ data' \in Lists
      BY <1>1 DEF QueryStep, Refetch, ServerReads, Arrives, FetchFails, SetData,
                  queryVars
    <2> QED BY <1>1, <2>1, <2>2, QueryFrame
  <1>2. ASSUME NEW m \in Mutations, NEW r \in Fresh, Create(m, r) PROVE Loaded'
    BY <1>2 DEF Create, Goto, TypeOK, queryVars, fetchVars
  <1>3. ASSUME NEW m \in Mutations, NEW r \in Fresh, OnCreated(m, r) PROVE Loaded'
    <2>1. data' = data \/ data' \in Lists
      BY <1>3, OnCreatedTypeOK
    <2>2. fetch' = "read" => answer' \in Lists
      BY <1>3 DEF OnCreated, InvalidateQueries, InvalidateJoins, StartFetch,
                  fetchVars
    <2>3. /\ pc' = [pc EXCEPT ![m] = "done"] /\ UNCHANGED <<kind, target>>
          /\ Forget(m)
      BY <1>3 DEF OnCreated, Goto
    <2> QED BY <2>1, <2>2, <2>3 DEF Forget, TypeOK
  <1>4. ASSUME NEW m \in Mutations, NEW k \in {"delete", "bulk", "pause", "resume"},
               NEW R \in SUBSET Rows, Mutate(m, k, R)
        PROVE  Loaded'
    BY <1>4 DEF Mutate, Goto, EndFetch, TypeOK, queryVars
  <1>5. ASSUME NEW m \in Mutations, NEW r \in Rows, Serve(m, r) PROVE Loaded'
    BY <1>5 DEF Serve, queryVars, fetchVars
  <1>6. ASSUME NEW m \in Mutations, OnMutate(m) PROVE Loaded'
    BY <1>6, OnMutateTypeOK DEF OnMutate, Goto, TypeOK, fetchVars
  <1>7. ASSUME NEW m \in Mutations,
               CreateFails(m) \/ OnSuccess(m) \/ OnError(m) \/ OnSettled(m)
        PROVE  Loaded'
    <2>1. data' = data \/ data' \in Lists
      BY <1>7, EndTypeOK
    <2>2. fetch' = "read" => answer' \in Lists
      BY <1>7 DEF CreateFails, OnSuccess, OnError, OnSettled, InvalidateQueries,
                  StartFetch, fetchVars
    <2>3. UNCHANGED kind
      BY <1>7 DEF CreateFails, OnSuccess, OnError, OnSettled
    <2>4. \A n \in Mutations : /\ Refetches(n)' => Refetches(n)
                               /\ pc'[n] = "sent" => pc[n] = "sent" /\ n # m
      BY <1>7, <2>3 DEF CreateFails, OnSuccess, OnError, OnSettled, Goto, TypeOK
    <2>5. \A n \in Mutations : n # m => snapshot'[n] = snapshot[n]
      BY <1>7 DEF CreateFails, OnSuccess, OnError, OnSettled, Forget, TypeOK
    <2> QED BY <2>1, <2>2, <2>3, <2>4, <2>5
  <1>8. ASSUME NEW r \in Old, Elsewhere(r) PROVE Loaded'
    BY <1>8 DEF Elsewhere, mutVars, queryVars, fetchVars
  <1>9. CASE UNCHANGED vars
    BY <1>9 DEF vars, mutVars, queryVars, fetchVars
  <1> QED BY <1>1, <1>2, <1>3, <1>4, <1>5, <1>6, <1>7, <1>8, <1>9, StepCases

-----------------------------------------------------------------------------
(* What a mutation does to Busy and to Creating. *)
LEMMA Framed ==
  ASSUME UNCHANGED <<pc, kind, target>>
  PROVE  (Busy' <=> Busy) /\ \A r : Creating(r)' <=> Creating(r)
  BY DEF Busy, Refetches, Running, Creating, Creates

(* A change of the row r, which Creating or unseen accounts for. *)
LEMMA RowChanges ==
  ASSUME Agreement, NEW r \in Rows,
         UNCHANGED <<hooks, pc, kind, target, data, invalid, failed, fetch, answer>>,
         \A q \in Rows \ {r} : server'[q] = server[q],
         Busy \/ Creating(r) \/ unseen' = Unseen({r}),
         unseen \subseteq unseen'
  PROVE  Agreement'
  <1>1. (Busy' <=> Busy) /\ \A q : Creating(q)' <=> Creating(q)
    BY Framed
  <1>2. CASE fetch = "sent" \/ Busy
    BY <1>1, <1>2 DEF Agreement
  <1>3. CASE fetch # "sent" /\ (Creating(r) \/ r \in unseen')
    BY <1>1, <1>3 DEF Agreement, Excused, KeyListedTwice
  <1> QED BY <1>2, <1>3 DEF Unseen

LEMMA ServeAgreement ==
  ASSUME TypeOK, Order, Agreement, NEW m \in Mutations, NEW r \in Rows, Serve(m, r)
  PROVE  Agreement'
  <1>1. UNCHANGED <<hooks, pc, kind, target, data, invalid, failed, fetch, answer>>
    BY DEF Serve, queryVars, fetchVars
  <1>2. \A q \in Rows \ {r} : server'[q] = server[q]
    BY DEF Serve, CarriedOut, Refused, TypeOK, Lists
  <1>3. unseen \subseteq unseen'
    BY DEF Serve, CarriedOut, Refused, Unseen
  <1>4. CASE server' = server
    <2>1. (Busy' <=> Busy) /\ \A q : Creating(q)' <=> Creating(q)
      BY <1>1, Framed
    <2> QED BY <1>1, <1>3, <1>4, <2>1 DEF Agreement, Excused, KeyListedTwice
  <1>5. CASE server' # server
    <2>1. Busy \/ Creating(r) \/ unseen' = Unseen({r})
      BY <1>5 DEF Serve, CarriedOut, Refused, Order, Busy, Refetches, Running,
                  Creating, Creates
    <2> QED BY <1>1, <1>2, <1>3, <2>1, RowChanges
  <1> QED BY <1>4, <1>5

LEMMA QueryAgreement ==
  ASSUME Agreement, QueryStep
  PROVE  Agreement'
  <1>1. (Busy' <=> Busy) /\ \A r : Creating(r)' <=> Creating(r)
    BY QueryFrame, Framed
  <1> USE DEF Agreement, Excused, KeyListedTwice, queryVars
  <1>2. CASE Refetch
    BY <1>2 DEF Refetch, StartFetch
  <1>3. CASE ServerReads
    BY <1>3 DEF ServerReads
  <1>4. CASE Arrives
    BY <1>1, <1>4 DEF Arrives, SetData, EndFetch
  <1>5. CASE FetchFails
    BY <1>5 DEF FetchFails, EndFetch
  <1> QED BY <1>2, <1>3, <1>4, <1>5 DEF QueryStep

LEMMA CreateAgreement ==
  ASSUME TypeOK, Agreement, NEW m \in Mutations, NEW r \in Fresh, Create(m, r)
  PROVE  Agreement'
  <1>1. /\ UNCHANGED <<hooks, server, data, invalid, failed, fetch, answer, unseen>>
        /\ pc[m] = "idle"
        /\ pc' = [pc EXCEPT ![m] = "sent"]
        /\ kind' = [kind EXCEPT ![m] = "create"]
        /\ target' = [target EXCEPT ![m] = {r}]
    BY DEF Create, IsNext, Goto, queryVars, fetchVars
  <1>2. ~Busy' => ~Busy
    BY <1>1 DEF Busy, Refetches, Running, TypeOK
  <1>3. \A q : Creating(q) => Creating(q)'
    BY <1>1 DEF Creating, Creates, TypeOK
  <1> QED BY <1>1, <1>2, <1>3 DEF Agreement, Excused, KeyListedTwice

(* The end of a create: its row is in the list, or no longer accounted for. *)
LEMMA CreateEnds ==
  ASSUME TypeOK, NEW m \in Mutations, kind[m] = "create",
         pc' = [pc EXCEPT ![m] = "done"], UNCHANGED <<kind, target>>
  PROVE  /\ ~Busy' => ~Busy
         /\ \A q : Creating(q) /\ q \notin target[m] => Creating(q)'
  BY DEF Busy, Refetches, Running, Creating, Creates, TypeOK

LEMMA OnCreatedAgreement ==
  ASSUME TypeOK, Agreement, NEW m \in Mutations, NEW r \in Fresh, OnCreated(m, r)
  PROVE  Agreement'
  <1>1. /\ pc' = [pc EXCEPT ![m] = "done"] /\ UNCHANGED <<server, kind, target>>
        /\ kind[m] = "create" /\ target[m] = {r}
    BY DEF OnCreated, Goto
  <1>2. /\ ~Busy' => ~Busy
        /\ \A q : Creating(q) /\ q # r => Creating(q)'
    BY <1>1, CreateEnds
  <1>3. CASE fetch' = "sent"
    BY <1>3 DEF Agreement
  <1>4. CASE hooks = "apiKeys" /\ fetch' # "sent"
    <2>1. /\ SetData(Prepended(r)) /\ UNCHANGED <<fetch, answer>>
          /\ unseen' = IF fetch = "none" /\ (data = Absent \/ failed \/ invalid)
                       THEN Rows
                       ELSE IF fetch = "sent" \/ server[r] = Told(r) THEN unseen
                       ELSE unseen \cup {r}
      BY <1>4 DEF OnCreated, fetchVars
    <2>2. CASE unseen' = Rows
      BY <2>2 DEF Agreement, Excused, KeyListedTwice
    <2>3. CASE unseen' # Rows /\ fetch = "read"
      <3>1. (r \in unseen' \/ server[r] = answer[r]) /\ unseen \subseteq unseen'
        BY <2>1, <2>3 DEF Told
      <3> QED BY <1>1, <1>2, <2>1, <2>3, <3>1 DEF Agreement, Excused, KeyListedTwice
    <2>4. CASE unseen' # Rows /\ fetch # "read"
      <3>1. fetch = "none" /\ data # Absent /\ ~failed /\ ~invalid
        BY <1>4, <2>1, <2>4 DEF TypeOK
      <3>2. (r \in unseen' \/ server[r] = "active") /\ unseen \subseteq unseen'
        BY <2>1, <2>4, <3>1 DEF Told
      <3>3. data' = [data EXCEPT ![r] = IF data[r] = "none" THEN "active" ELSE "twice"]
        BY <2>1, <3>1 DEF SetData, Prepended
      <3>4. /\ data'[r] \in {"active", "twice"}
            /\ \A q \in Rows : q # r => data'[q] = data[q]
        BY <3>1, <3>3 DEF TypeOK, Lists, Rows
      <3>5. UNCHANGED hooks
        BY DEF OnCreated
      <3> QED BY <1>1, <1>2, <1>4, <2>1, <3>1, <3>2, <3>4, <3>5 DEF Agreement, Excused, KeyListedTwice
    <2> QED BY <2>2, <2>3, <2>4
  <1>5. CASE hooks # "apiKeys" /\ fetch' # "sent"
    <2>1. /\ InvalidateJoins({r}) /\ UNCHANGED data
      BY <1>5 DEF OnCreated, InvalidateQueries, StartFetch
    <2>2. r \in unseen' /\ unseen \subseteq unseen'
      BY <1>5, <2>1 DEF InvalidateJoins, Unseen, fetchVars
    <2> QED
      BY <1>1, <1>2, <2>1, <2>2 DEF InvalidateJoins, Agreement, Excused, KeyListedTwice, fetchVars
  <1> QED BY <1>3, <1>4, <1>5

LEMMA CreateFailsAgreement ==
  ASSUME TypeOK, Agreement, NEW m \in Mutations, CreateFails(m)
  PROVE  Agreement'
  <1>1. /\ pc' = [pc EXCEPT ![m] = "done"] /\ kind[m] = "create"
        /\ UNCHANGED <<hooks, server, kind, target, data, invalid, failed, fetch,
                       answer>>
        /\ unseen' = Unseen(target[m])
    BY DEF CreateFails, Goto, queryVars, fetchVars
  <1>2. /\ ~Busy' => ~Busy
        /\ \A q : Creating(q) /\ q \notin target[m] => Creating(q)'
    BY <1>1, CreateEnds
  <1> QED BY <1>1, <1>2 DEF Agreement, Excused, KeyListedTwice, Unseen

LEMMA StepAgreement == TypeOK /\ Order /\ Loaded /\ Agreement /\ [Next]_vars
                       => Agreement'
  <1> SUFFICES ASSUME TypeOK, Order, Loaded, Agreement, [Next]_vars
               PROVE  Agreement'
    OBVIOUS
  <1>1. CASE QueryStep
    BY <1>1, QueryAgreement
  <1>2. ASSUME NEW m \in Mutations, NEW r \in Fresh, Create(m, r) \/ OnCreated(m, r)
        PROVE  Agreement'
    BY <1>2, CreateAgreement, OnCreatedAgreement
  <1>3. ASSUME NEW m \in Mutations, NEW k \in {"delete", "bulk", "pause", "resume"},
               NEW R \in SUBSET Rows, Mutate(m, k, R)
        PROVE  Agreement'
    <2>1. Refetches(m)'
      BY <1>3 DEF Mutate, Goto, Refetches, Running, TypeOK
    <2> QED BY <2>1 DEF Agreement, Busy
  <1>4. ASSUME NEW m \in Mutations, NEW r \in Rows, Serve(m, r) PROVE Agreement'
    BY <1>4, ServeAgreement
  <1>5. ASSUME NEW m \in Mutations, OnMutate(m) PROVE Agreement'
    <2>1. Refetches(m)'
      BY <1>5, OnMutateTypeOK DEF OnMutate, Goto, Refetches, Running, TypeOK
    <2> QED BY <2>1 DEF Agreement, Busy
  <1>6. ASSUME NEW m \in Mutations, CreateFails(m) PROVE Agreement'
    BY <1>6, CreateFailsAgreement
  <1>7. ASSUME NEW m \in Mutations, OnSuccess(m) \/ OnError(m) PROVE Agreement'
    <2>1. Refetches(m)'
      BY <1>7 DEF OnSuccess, OnError, Goto, Refetches, Running, TypeOK
    <2> QED BY <2>1 DEF Agreement, Busy
  <1>8. ASSUME NEW m \in Mutations, OnSettled(m) PROVE Agreement'
    BY <1>8 DEF OnSettled, InvalidateQueries, StartFetch, Agreement
  <1>9. ASSUME NEW r \in Old, Elsewhere(r) PROVE Agreement'
    <2>1. PICK s \in {"none", "paused"} : server' = [server EXCEPT ![r] = s]
      BY <1>9 DEF Elsewhere
    <2>2. \A q \in Rows \ {r} : server'[q] = server[q]
      BY <2>1 DEF TypeOK, Lists
    <2>3. /\ UNCHANGED <<hooks, pc, kind, target, data, invalid, failed, fetch, answer>>
          /\ unseen' = Unseen({r}) /\ unseen \subseteq unseen' /\ r \in Rows
      BY <1>9 DEF Elsewhere, Unseen, mutVars, queryVars, fetchVars, Rows
    <2> QED BY <2>2, <2>3, RowChanges
  <1>10. CASE UNCHANGED vars
    BY <1>10, Framed DEF vars, mutVars, queryVars, fetchVars, Agreement, Excused, KeyListedTwice
  <1> QED
    BY <1>1, <1>2, <1>3, <1>4, <1>5, <1>6, <1>7, <1>8, <1>9, <1>10, StepCases

LEMMA StepTypeOK == TypeOK /\ Order /\ Loaded /\ [Next]_vars => TypeOK'
  <1> SUFFICES ASSUME TypeOK, Order, Loaded, [Next]_vars PROVE TypeOK'
    OBVIOUS
  <1>1. CASE UNCHANGED vars
    BY <1>1 DEF vars, mutVars, queryVars, fetchVars, TypeOK
  <1>2. CASE Next
    BY <1>2, StepCases, QueryTypeOK, CreateTypeOK, MutateTypeOK, ServeTypeOK,
       OnMutateTypeOK, OnCreatedTypeOK, EndTypeOK, ElsewhereTypeOK
  <1> QED BY <1>1, <1>2

-----------------------------------------------------------------------------
(* Every reachable state is well typed, and what a mutation patches is there. *)
THEOREM TypeCorrect == Spec => [](TypeOK /\ Order /\ Loaded)
  BY InitTypeOK, StepTypeOK, StepOrder, StepLoaded, PTL DEF Spec

(* Whatever overlaps, a settled list agrees with the database on every row that
   a fetch or a mutation could have told it of. *)
THEOREM AlwaysCacheAgrees == Spec => []CacheAgrees
  <1>1. Agreement /\ TypeOK => CacheAgrees
    BY DEF Agreement, Excused, KeyListedTwice, CacheAgrees, Quiet, Busy, Refetches, Creating, Creates,
           Running
  <1> QED BY <1>1, InitTypeOK, StepAgreement, TypeCorrect, PTL DEF Spec
=============================================================================
