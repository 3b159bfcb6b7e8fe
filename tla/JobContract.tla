----------------------------- MODULE JobContract -----------------------------
(***************************************************************************)
(* What the query queue promises to its users, without tables, paths,      *)
(* expiry, events or retries: a job is claimed by one process at most,     *)
(* finishes at most once and by the word of that process only, and every   *)
(* answer about a job is what its finish said.                             *)
(***************************************************************************)
CONSTANTS
  Jobs,       \* job ids
  Processes,  \* who executes them
  Askers,     \* who asks for answers
  None        \* a finish without a value; no answer

Open == "open"

VARIABLES
  phase,    \* per job: "new", "pending", "active", "done" or "lost"
  running,  \* per process, the jobs it was given
  outcome,  \* per job, Open or what its finish said
  answer    \* per asker, the last answer: <<job, what its finish said>>

vars == <<phase, running, outcome, answer>>

Init ==
  /\ phase   = [j \in Jobs |-> "new"]
  /\ running = [p \in Processes |-> {}]
  /\ outcome = [j \in Jobs |-> Open]
  /\ answer  = [a \in Askers |-> None]

Give(p, j) == running' = [running EXCEPT ![p] = @ \cup {j}]

Submit(j) ==
  /\ phase[j] = "new"
  /\ \/ /\ phase' = [phase EXCEPT ![j] = "pending"]
        /\ UNCHANGED running
     \/ /\ phase' = [phase EXCEPT ![j] = "active"]
        /\ \E p \in Processes : Give(p, j)
  /\ UNCHANGED <<outcome, answer>>

Claim(p, j) ==
  /\ phase[j] = "pending"
  /\ phase' = [phase EXCEPT ![j] = "active"]
  /\ Give(p, j)
  /\ UNCHANGED <<outcome, answer>>

Finish(p, j) ==
  /\ phase[j] = "active" /\ j \in running[p]
  /\ phase' = [phase EXCEPT ![j] = "done"]
  /\ \E v \in {p, None} : outcome' = [outcome EXCEPT ![j] = v]
  /\ running' = [running EXCEPT ![p] = @ \ {j}]
  /\ UNCHANGED answer

\* A process stops executing jobs: it crashed, or its report was refused.
Abandon(p) ==
  /\ \E js \in SUBSET running[p] :
       running' = [running EXCEPT ![p] = @ \ js]
  /\ UNCHANGED <<phase, outcome, answer>>

\* Unfinished jobs are dropped: cancelled, truncated or expired.
Lose ==
  /\ \E js \in SUBSET {j \in Jobs : phase[j] \in {"pending", "active"}} :
       phase' = [j \in Jobs |-> IF j \in js THEN "lost" ELSE phase[j]]
  /\ UNCHANGED <<running, outcome, answer>>

Answer(a) ==
  /\ \/ \E j \in Jobs : phase[j] = "done" /\
          answer' = [answer EXCEPT ![a] = <<j, outcome[j]>>]
     \/ answer' = [answer EXCEPT ![a] = None]
  /\ UNCHANGED <<phase, running, outcome>>

Next ==
  \/ \E j \in Jobs : Submit(j)
  \/ \E p \in Processes, j \in Jobs : Claim(p, j) \/ Finish(p, j)
  \/ \E p \in Processes : Abandon(p)
  \/ Lose
  \/ \E a \in Askers : Answer(a)

Spec == Init /\ [][Next]_vars
=============================================================================
