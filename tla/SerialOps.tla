------------------------------ MODULE SerialOps ------------------------------
(***************************************************************************)
(* What the operation runner promises to whoever reads its history, told   *)
(* without goroutines, mutexes or restic: operations are submitted to      *)
(* repositories, each repository runs one of them at a time, every status  *)
(* moves forward, and a restart turns what was not finished into an error. *)
(***************************************************************************)
CONSTANTS Ids,    \* operation ids
          Repos   \* repository ids

VARIABLES state,  \* the status of each operation
          repoOf  \* the repository it was submitted to

svars == <<state, repoOf>>

Unfinished == {"queued", "running"}
Outcome    == {"success", "warning", "error", "canceled"}

\* No operation of this one's repository is running.
Free(o) == \A n \in Ids : repoOf[n] = repoOf[o] => state[n] # "running"

SInit == /\ state = [o \in Ids |-> "absent"]
         /\ \A r \in Repos, o \in Ids : repoOf[o] # r

Submit(o, r) == /\ state[o] = "absent"
                /\ state' = [state EXCEPT ![o] = "queued"]
                /\ repoOf' = [repoOf EXCEPT ![o] = r]

Begin(o) == /\ state[o] = "queued"
            /\ Free(o)
            /\ state' = [state EXCEPT ![o] = "running"]
            /\ UNCHANGED repoOf

End(o, s) == /\ state[o] = "running"
             /\ state' = [state EXCEPT ![o] = s]
             /\ UNCHANGED repoOf

Interrupt == /\ state' = [o \in Ids |-> IF state[o] \in Unfinished THEN "error" ELSE state[o]]
             /\ UNCHANGED repoOf

SNext == \/ \E o \in Ids, r \in Repos : Submit(o, r)
         \/ \E o \in Ids : Begin(o)
         \/ \E o \in Ids, s \in Outcome : End(o, s)
         \/ Interrupt

SSpec == SInit /\ [][SNext]_svars
=============================================================================
