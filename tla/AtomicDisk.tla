------------------------------ MODULE AtomicDisk ------------------------------
(***************************************************************************)
(* What the xv6fs log promises to the file system above it: every file      *)
(* system is a block array whose operations reach the disk all at once, at  *)
(* a moment when no operation is in progress, and a crash brings back the   *)
(* array as it was at the last such moment.  xv6fs/log.c: "The logging      *)
(* system only commits when there are no FS operations active.  This        *)
(* ensures atomicity of filesystem operations."                             *)
(***************************************************************************)
CONSTANTS Devs,      \* mounted file systems, one log each
          Threads,   \* threads running file-system operations
          Blocks,    \* home blocks of a file system
          Values,    \* block contents
          InitValue  \* the contents of a block of a fresh file system

VARIABLES current,   \* the block array its users see
          durable,   \* the block array a crash would bring back
          active     \* the threads between begin_op and end_op

avars == <<current, durable, active>>

AInit ==
    /\ current = [d \in Devs |-> [b \in Blocks |-> InitValue]]
    /\ durable = current
    /\ active = [d \in Devs |-> {}]

Begin(t, d) ==
    /\ \A e \in Devs : t \notin active[e]
    /\ active' = [active EXCEPT ![d] = @ \cup {t}]
    /\ UNCHANGED <<current, durable>>

Write(t, d, b, v) ==
    /\ t \in active[d]
    /\ current' = [current EXCEPT ![d][b] = v]
    /\ UNCHANGED <<durable, active>>

End(t, d) ==
    /\ t \in active[d]
    /\ active' = [active EXCEPT ![d] = @ \ {t}]
    /\ UNCHANGED <<current, durable>>

\* All the operations since the last commit reach the disk together.
Commit(d) ==
    /\ active[d] = {}
    /\ durable' = [durable EXCEPT ![d] = current[d]]
    /\ UNCHANGED <<current, active>>

\* Power failure: what is not durable is gone, and so are the operations.
Lose ==
    /\ current' = durable
    /\ active' = [d \in Devs |-> {}]
    /\ UNCHANGED durable

ANext ==
    \/ \E d \in Devs :
          \/ \E t \in Threads : Begin(t, d) \/ End(t, d)
          \/ \E t \in Threads, b \in Blocks, v \in Values : Write(t, d, b, v)
          \/ Commit(d)
    \/ Lose

ASpec == AInit /\ [][ANext]_avars
=============================================================================
