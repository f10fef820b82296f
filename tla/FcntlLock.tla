----------------------------- MODULE FcntlLock -----------------------------
(***************************************************************************)
(* The advisory lock of exercise4/lock.c: one write lock over a whole lock *)
(* file (l_whence = SEEK_SET, l_start = 0, l_len = 0), taken and given up  *)
(* with fcntl(F_SETLKW).  The kernel keeps the owner of a record lock per  *)
(* process: a process that asks for a lock it already owns gets it, an     *)
(* unlock by a process that is not the owner changes nothing, and a        *)
(* process that ends, however it ends, loses its locks.                    *)
(***************************************************************************)
CONSTANTS
  Proc,     \* the processes that may run the program
  None      \* "nobody owns the lock"

ASSUME NoneAssumption == None \notin Proc

VARIABLE
  holder    \* the owner of the record lock on the lock file, or None

LockType == holder \in Proc \cup {None}

my_lock_init == holder = None

(* F_SETLKW blocks until the lock can be granted.  EINTR only makes the    *)
(* call start again, so it is a stuttering step.                           *)
my_lock_wait_NoWait(p) == holder' = p  \* slip: F_SETLK with its result ignored

my_lock_wait(p) ==
  /\ holder \in {None, p}
  /\ holder' = p

my_lock_release(p) ==
  holder' = IF holder = p THEN None ELSE holder

(* What the kernel does to the lock when p exits or is killed.             *)
ReleaseOnExit(p) ==
  holder' = IF holder = p THEN None ELSE holder
=============================================================================
