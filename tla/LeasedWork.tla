----------------------------- MODULE LeasedWork -----------------------------
(***************************************************************************)
(* What the scheduler promises about the work it hands out: a job takes a  *)
(* set of tokens, a token belongs to the last job that took it, and a job  *)
(* finishes at most once and only while every one of its tokens is still   *)
(* its own.  Taking a token from a job is the only way to retry its work.  *)
(***************************************************************************)
CONSTANTS Token, Job, None

VARIABLES
  work,    \* the tokens of every job handed out; None: not handed out
  owner,   \* the job each token belongs to
  done     \* the jobs that finished

vars == <<work, owner, done>>

Init ==
  /\ work = [j \in Job |-> None]
  /\ owner = [t \in Token |-> None]
  /\ done = {}

Take(j, tokens) ==
  /\ work[j] = None
  /\ work' = [work EXCEPT ![j] = tokens]
  /\ owner' = [t \in Token |-> IF t \in tokens THEN j ELSE owner[t]]
  /\ UNCHANGED done

Finish(j) ==
  /\ work[j] # None
  /\ j \notin done
  /\ \A t \in work[j] : owner[t] = j
  /\ done' = done \cup {j}
  /\ owner' = [t \in Token |-> IF t \in work[j] THEN None ELSE owner[t]]
  /\ UNCHANGED work

\* Every claim on every token is withdrawn.
Release ==
  /\ owner' = [t \in Token |-> None]
  /\ UNCHANGED <<work, done>>

Next ==
  \/ \E j \in Job, tokens \in SUBSET Token : Take(j, tokens)
  \/ \E j \in Job : Finish(j)
  \/ Release

Spec == Init /\ [][Next]_vars
=============================================================================
