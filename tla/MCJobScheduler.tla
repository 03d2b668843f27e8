--------------------------- MODULE MCJobScheduler ---------------------------
(***************************************************************************)
(* Constants for model checking JobScheduler.  Two crons: "fast" occurs    *)
(* every 2 time units, "slow" every 3, so that with timeouts of 1 to 3     *)
(* units a run can outlast its next occurrence.                            *)
(***************************************************************************)
EXTENDS JobScheduler, TLC

MCCrons == {"fast", "slow"}

Period == [fast |-> 2, slow |-> 3]

\* Occurrences are the multiples of the period.
MCCronFires == [c \in MCCrons |-> [t \in 0..MaxTime |-> Period[c] * (t \div Period[c] + 1)]]

Job(cron, enabled, timeout, retries) ==
    [cron |-> cron, enabled |-> enabled, timeout_s |-> timeout,
     retries |-> retries, retry_delay_s |-> 1]

Fast == Job("fast", TRUE, 3, 1)
FastOff == Job("fast", FALSE, 3, 1)
Slow == Job("slow", TRUE, 1, 0)
Twice == Job("slow", TRUE, 1, 2)
Quick == Job("fast", TRUE, 1, 1)

\* On, off, and a different schedule without retries.
EditConfigs == {Fast, FastOff, Slow}
SafetyConfigs == {Fast, FastOff, Twice}
LiveConfigs == {Quick, Slow}

Symmetry == Permutations(Jobs)
=============================================================================
