------------------------------ MODULE RootLease ------------------------------
(***************************************************************************)
(* What the orchestrator promises about the authority to drive a run.  One *)
(* thread at a time holds it.  It passes only to a fresh heir, named while *)
(* the holder is leaving and only after the heir has accepted; a holder    *)
(* that has begun to leave does not get it back by itself; whoever held it *)
(* or was named for it and gave it up is spent.                            *)
(***************************************************************************)
CONSTANTS Threads, NoThread

VARIABLES
  mode,    \* what the holder may do
  holder,  \* the thread with the authority
  heir,    \* the thread named to receive it
  spent    \* the threads that can never hold it again

leaseVars == <<mode, holder, heir, spent>>

\* "parked": suspended, the holder may be resumed; "stuck": suspended while
\* leaving or stopped, only a recovery or the first grant can go on
Mode == {"held", "leaving", "accepted", "parked", "stuck"}

LeaseInit ==
  mode = "stuck" /\ holder = NoThread /\ heir = NoThread /\ spent = {}

Grant(t) ==
  /\ holder = NoThread /\ holder' = t
  /\ mode' = "held"
  /\ UNCHANGED <<heir, spent>>

Leave ==
  /\ mode = "held" /\ mode' = "leaving"
  /\ UNCHANGED <<holder, heir, spent>>

Name(t) ==
  /\ mode = "leaving" /\ heir = NoThread
  /\ t \notin spent \cup {holder}
  /\ heir' = t
  /\ UNCHANGED <<mode, holder, spent>>

Accept ==
  /\ mode = "leaving" /\ heir # NoThread
  /\ mode' = "accepted"
  /\ UNCHANGED <<holder, heir, spent>>

Pass ==
  /\ mode = "accepted"
  /\ mode' = "held"
  /\ holder' = heir /\ heir' = NoThread
  /\ spent' = spent \cup {holder}

Suspend ==
  /\ mode' = IF mode \in {"held", "parked"} THEN "parked" ELSE "stuck"
  /\ UNCHANGED <<holder, heir, spent>>

Stop ==
  /\ mode' = "stuck"
  /\ UNCHANGED <<holder, heir, spent>>

ResumeHolder ==
  /\ mode = "parked" /\ mode' = "held"
  /\ UNCHANGED <<holder, heir, spent>>

\* A recovery starts the succession again from the holder.
Restore ==
  /\ holder # NoThread
  /\ mode' = "leaving"
  /\ heir' = NoThread
  /\ spent' = spent \cup ({heir} \ {NoThread})
  /\ UNCHANGED holder

LeaseNext ==
  \/ \E t \in Threads : Grant(t) \/ Name(t)
  \/ Leave \/ Accept \/ Pass \/ Suspend \/ Stop \/ ResumeHolder \/ Restore

LeaseSpec == LeaseInit /\ [][LeaseNext]_leaseVars

=============================================================================
