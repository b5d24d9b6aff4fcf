------------------------------- MODULE Leases -------------------------------
(***************************************************************************)
(* The Redis keys of IdempotencyService, and the single Redis commands its *)
(* methods are made of.  acquireLease is a GET followed by a SET NX, and   *)
(* releaseLease a GET followed by a DEL; between the two commands other    *)
(* consumers run, so a consumer's module gives each command a step.        *)
(* A key stores no owner: GET cannot tell whose "processing" it reads.     *)
(***************************************************************************)
CONSTANT Keys

VARIABLE lease    \* Keys -> {"none", "processing", "done"}

LeaseType == lease \in [Keys -> {"none", "processing", "done"}]

LeaseInit == lease = [k \in Keys |-> "none"]

\* acquireLease, GET: "done" and "processing" both refuse the lease.
GetFree(k) == lease[k] = "none" /\ UNCHANGED lease
GetTaken(k) == lease[k] # "none" /\ UNCHANGED lease

\* Mutant: SET without NX.
SetNX_Plain(k) == lease' = [lease EXCEPT ![k] = "processing"]

\* acquireLease, SET NX EX ttl.
SetNX(k) == lease[k] = "none" /\ lease' = [lease EXCEPT ![k] = "processing"]

\* markDone: an unconditional SET.
MarkDone(k) == lease' = [lease EXCEPT ![k] = "done"]

\* releaseLease, GET and DEL.
GetProcessing(k) == lease[k] = "processing" /\ UNCHANGED lease
GetOther(k) == lease[k] # "processing" /\ UNCHANGED lease
Del(k) == lease' = [lease EXCEPT ![k] = "none"]

\* The time to live of a key ends.
Expire(k) == lease[k] # "none" /\ Del(k)
=============================================================================
