------------------------------- MODULE CommitLog -------------------------------
(* What the engine promises of a commit, whoever writes its log record: the    *)
(* logical log takes each transaction's record at most once, a transaction is  *)
(* committed only with its record in the log and rolled back only without it,  *)
(* and a COMMIT under synchronous=FULL succeeds only when its record is synced. *)
EXTENDS Naturals, Sequences, SequencesExt

CONSTANTS Txs,    \* the transactions that commit
          Full    \* those whose connection has synchronous=FULL

VARIABLES log,      \* the records below the logical log's offset
          synced,   \* how many of them the last fsync covered
          fate,     \* "open", "committed" or "aborted", as readers resolve it
          acked     \* the transactions whose COMMIT returned success

vars == <<log, synced, fate, acked>>

Init ==
  /\ log = <<>> /\ synced = 0 /\ acked = {}
  /\ fate = [t \in Txs |-> "open"]

AppendRecord(t) ==
  /\ fate[t] = "open" /\ t \notin ToSet(log)
  /\ log' = Append(log, t)
  /\ UNCHANGED <<synced, fate, acked>>

\* A dropped waiter is committed by whoever appends its record, in that step.
AppendAndCommit(t) ==
  /\ fate[t] = "open" /\ t \notin ToSet(log)
  /\ log' = Append(log, t)
  /\ fate' = [fate EXCEPT ![t] = "committed"]
  /\ UNCHANGED <<synced, acked>>

Sync ==
  /\ synced' = Len(log)
  /\ UNCHANGED <<log, fate, acked>>

\* A failed leader decides with its own transaction the one it was writing for.
Resolve(done, undone) ==
  /\ done \cup undone # {}
  /\ \A t \in done : fate[t] = "open" /\ t \in ToSet(log)
  /\ \A t \in undone : fate[t] = "open" /\ t \notin ToSet(log)
  /\ fate' = [t \in Txs |-> IF t \in done THEN "committed"
                            ELSE IF t \in undone THEN "aborted" ELSE fate[t]]
  /\ UNCHANGED <<log, synced, acked>>

Ack(t) ==
  /\ fate[t] = "committed"
  /\ t \in Full => t \in ToSet(SubSeq(log, 1, synced))
  /\ acked' = acked \cup {t}
  /\ UNCHANGED <<log, synced, fate>>

Next ==
  \/ Sync
  \/ \E t \in Txs : AppendRecord(t) \/ AppendAndCommit(t) \/ Ack(t)
  \/ \E done, undone \in SUBSET Txs : Resolve(done, undone)

Spec == Init /\ [][Next]_vars
================================================================================
