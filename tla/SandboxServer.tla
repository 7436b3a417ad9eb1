--------------------------- MODULE SandboxServer ---------------------------
(***************************************************************************)
(* The platform behind the SDKs, as their code uses it: the control plane  *)
(* that pauses, resumes, activates and deletes one sandbox, and the data   *)
(* plane that serves it.  Nothing of it is in this repository; what it     *)
(* answers is read off the clients:                                        *)
(*   - a paused sandbox answers the data plane 401 or 503, and a token     *)
(*     that has been rotated away answers 401                              *)
(*     (packages/sdk/src/tokenRetry.ts:4-9);                               *)
(*   - /activate and /resume both rotate the token                         *)
(*     (packages/sdk/src/Sandbox.ts:109-113), and of two that claim the    *)
(*     same paused sandbox the loser gets 409 (:131-135);                  *)
(*   - an operation the sandbox's state does not allow gets 409            *)
(*     (docs/errors.mdx:17).                                               *)
(***************************************************************************)
EXTENDS Naturals

CONSTANT NoCall      \* no call: neither a claimant nor a refresh in flight

VARIABLES
  status,            \* "active", "paused", "resuming" or "deleted"
  gen,               \* generation of the only access token the data plane accepts
  claim              \* the call whose resume claim is being carried out

serverVars == <<status, gen, claim>>

Statuses == {"active", "paused", "resuming", "deleted"}

ServerInit ==
  /\ status \in {"active", "paused"}
  /\ gen = 0
  /\ claim = NoCall

-----------------------------------------------------------------------------
(* What the data plane may answer a request that carries token `tok`. *)
DataAnswers(tok) ==
  CASE status = "deleted"               -> {"404"}
    [] status = "active" /\ tok = gen   -> {"ok"}
    [] status = "active" /\ tok # gen   -> {"401"}
    [] OTHER                            -> {"401", "503"}

(* A resume of a paused sandbox starts on behalf of c ... *)
ClaimResume(c) ==
  /\ status = "paused"
  /\ status' = "resuming"
  /\ claim' = c
  /\ UNCHANGED gen

(* ... and ends: the sandbox runs and its token has been rotated. *)
FinishResume ==
  /\ status = "resuming"
  /\ status' = "active"
  /\ gen' = gen + 1
  /\ claim' = NoCall

(* /activate of a sandbox that runs already only rotates the token. *)
Rotate ==
  /\ status = "active"
  /\ gen' = gen + 1
  /\ UNCHANGED <<status, claim>>

(* The auto-pause timeout, a pause() or a kill() of any client. *)
PauseSandbox ==
  /\ status = "active"
  /\ status' = "paused"
  /\ UNCHANGED <<gen, claim>>

DeleteSandbox ==
  /\ status \in {"active", "paused"}
  /\ status' = "deleted"
  /\ UNCHANGED <<gen, claim>>
=============================================================================
