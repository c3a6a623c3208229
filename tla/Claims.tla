------------------------------- MODULE Claims -------------------------------
(***************************************************************************)
(* What the specification of the abstract machine promises of its ledger   *)
(* (docs/src/fondaco/specification.md, section 5): executions hold public  *)
(* (read) or private (write) claims over parcels, and at every instant at  *)
(* most one private claim, or any number of public claims, stands over a   *)
(* parcel.  Executions are admitted in some order, and later conflicting   *)
(* claims serialize against prior owners.                                  *)
(***************************************************************************)
EXTENDS Integers

CONSTANTS
  Parcels,      (* parcels                                                  *)
  Executions    (* executions, numbered in the order of their admission     *)

VARIABLES
  public,    (* public[e]: parcels e reads                                  *)
  private,   (* private[e]: parcels e writes                                *)
  state      (* state[e]: "idle", "admitted", "holding", "done", "refused"   *)

claimsVars == <<public, private, state>>

ClaimsInit ==
  /\ public  = [e \in Executions |-> {}]
  /\ private = [e \in Executions |-> {}]
  /\ state   = [e \in Executions |-> "idle"]

Disagree(e, f) ==
  \/ private[e] \cap (public[f] \cup private[f]) # {}
  \/ private[f] \cap (public[e] \cup private[e]) # {}

Ended(e) == state[e] \in {"done", "refused"}

(* The runtime admits an execution with the claims it will need.           *)
Admit(e, R, W) ==
  /\ \A f \in Executions : state[f] = "idle" <=> f >= e
  /\ state'   = [state EXCEPT ![e] = "admitted"]
  /\ public'  = [public EXCEPT ![e] = R]
  /\ private' = [private EXCEPT ![e] = W]

(* All of e's claims stand from now on: prior owners have let go.          *)
Acquire(e) ==
  /\ state[e] = "admitted"
  /\ \A f \in Executions : f < e /\ Disagree(e, f) => Ended(f)
  /\ state' = [state EXCEPT ![e] = "holding"]
  /\ UNCHANGED <<public, private>>

(* e ends and drops its claims.                                            *)
Release(e) ==
  /\ state[e] = "holding"
  /\ state' = [state EXCEPT ![e] = "done"]
  /\ UNCHANGED <<public, private>>

(* e cannot be carried out: it is given up, and never holds anything.      *)
Refuse(e) ==
  /\ state[e] = "admitted"
  /\ state' = [state EXCEPT ![e] = "refused"]
  /\ UNCHANGED <<public, private>>

ClaimsNext ==
  \E e \in Executions :
    \/ \E R, W \in SUBSET Parcels : Admit(e, R, W)
    \/ Acquire(e)
    \/ Release(e)
    \/ Refuse(e)

ClaimsSpec == ClaimsInit /\ [][ClaimsNext]_claimsVars
=============================================================================
