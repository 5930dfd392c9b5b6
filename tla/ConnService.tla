----------------------------- MODULE ConnService -----------------------------
(***************************************************************************)
(* What the RTDoc server promises the peers that connect to it, without    *)
(* its threads, its mutex, its condition variable or its Client structs:   *)
(* connections are served in the order in which they arrived, a connection *)
(* is served by one worker only, a worker serves one connection at a time, *)
(* and a connection that has been served is over.  The promise ends when   *)
(* the service breaks: once it has, it may do anything.                    *)
(***************************************************************************)
EXTENDS Sequences

CONSTANTS
  Peers,      (* the remote ends that may connect                          *)
  Workers,    (* the worker threads                                        *)
  NoPeer      (* the worker serves nobody                                  *)

VARIABLES
  pending,    (* the connections nobody serves yet, oldest first           *)
  served,     (* the peer each worker is serving                           *)
  broken      (* a connection may have been closed that was not its own    *)

vars == <<pending, served, broken>>

Waits(p)    == \E i \in DOMAIN pending : pending[i] = p
IsServed(p) == \E w \in Workers : served[w] = p

Init ==
  /\ broken = FALSE
  /\ pending = <<>>
  /\ served = [w \in Workers |-> NoPeer]

(* A peer connects: it queues up behind everybody who waits.               *)
Arrive(p) ==
  /\ ~ Waits(p)
  /\ ~ IsServed(p)
  /\ pending' = Append(pending, p)
  /\ UNCHANGED served

(* An idle worker takes the connection that has waited longest.            *)
Take(w) ==
  /\ served[w] = NoPeer
  /\ pending # <<>>
  /\ served' = [served EXCEPT ![w] = Head(pending)]
  /\ pending' = Tail(pending)

(* The connection is closed; its peer may come back as a new one.          *)
Finish(w) ==
  /\ served[w] # NoPeer
  /\ served' = [served EXCEPT ![w] = NoPeer]
  /\ UNCHANGED pending

Next ==
  \/ \E p \in Peers : Arrive(p)
  \/ \E w \in Workers : Take(w) \/ Finish(w)

Break == broken'

Spec == Init /\ [][(Next /\ UNCHANGED broken) \/ Break]_vars

=============================================================================
