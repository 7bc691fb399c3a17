----------------------------- MODULE FileStore -----------------------------
(***************************************************************************)
(* auth.FileStore (internal/auth/store.go): users.json, rewritten through  *)
(* users.json.tmp by oob-hub and by runs of oob-manage, each of which has  *)
(* a FileStore with a mutex of its own and shares a lock file with the     *)
(* others.  A process starts with NewFileStore, may die at any step, and   *)
(* any file operation may fail.                                            *)
(*                                                                         *)
(* The writers are the calls and, in NewFileStore, the processes.  A path  *)
(* leads to an inode, and a file that is being written stays open under    *)
(* its inode when another writer renames it: users.json.tmp is one path.   *)
(***************************************************************************)
EXTENDS Naturals

CONSTANTS
  Processes,
  Calls,
  ProcessOf,     \* ProcessOf[c]: the process that makes call c
  OpsOf,         \* OpsOf[c]: what c may ask, as records with op, user and pw
  Users, NoAccount,
  InitialUsers,
  ConcurrentStart,  \* whether two processes may be in NewFileStore at once
  TooLong,       \* passwords of more than 72 bytes, refused by HashPassword
  Crashes,       \* whether a process may die
  Inodes, NoInode,
  Partial,       \* the content of a file that does not parse
  NoOp, NoCall, NoData

Ops == UNION {OpsOf[c] : c \in Calls}

Queries == {"Authenticate", "MustChangePassword"}

Operations == Queries \union
  {"UpdateLastLogin", "SetPassword", "Add", "Remove", "Lock", "Unlock", "Reset"}

Passwords == {o.pw : o \in Ops}

Account == [pw : Passwords \union {InitialUsers[u].pw : u \in {v \in Users : InitialUsers[v] # NoAccount}},
            locked : BOOLEAN, force : BOOLEAN]

UserMap == [Users -> Account \union {NoAccount}]

ASSUME FileStoreAssumption ==
  /\ ProcessOf \in [Calls -> Processes]
  /\ Processes \intersect Calls = {}
  /\ InitialUsers \in UserMap
  /\ \A o \in Ops : o.op \in Operations /\ o.user \in Users
  /\ NoOp \notin Ops /\ NoAccount \notin Account
  /\ Partial \notin UserMap /\ NoData \notin UserMap
  /\ NoInode \notin Inodes /\ Inodes # {}
  /\ ConcurrentStart \in BOOLEAN /\ Crashes \in BOOLEAN
  /\ NoCall \notin Calls

VARIABLES
  content,   \* of each inode: users, or Partial
  file,      \* the inode of users.json
  tmp,       \* the inode of users.json.tmp
  flock,     \* the call that has the file lock
  pc,        \* of each process and call
  data,      \* the users a writer is about to write
  fd,        \* the inode it writes
  op, reply

Writers == Processes \union Calls
fs == <<content, file, tmp>>
vars == <<fs, flock, pc, data, fd, op, reply>>

NoUsers == [u \in Users |-> NoAccount]

Init ==
  /\ file \in {NoInode, CHOOSE i \in Inodes : TRUE}
  /\ content = [i \in Inodes |-> IF i = file THEN InitialUsers ELSE Partial]
  /\ tmp = NoInode
  /\ flock = NoCall
  /\ pc = [w \in Writers |-> IF w \in Processes THEN "down" ELSE "idle"]
  /\ data = [w \in Writers |-> NoData]
  /\ fd = [w \in Writers |-> NoInode]
  /\ op = [c \in Calls |-> NoOp]
  /\ reply = [c \in Calls |-> "none"]

Goto(w, phase) == pc' = [pc EXCEPT ![w] = phase]
Answer(c, r) == reply' = [reply EXCEPT ![c] = r]

-----------------------------------------------------------------------------
\* NewFileStore: the file is created without the file lock.
Creating(p) == pc[p] \in {"truncate", "fill", "rename", "remove"}

Stat(p) ==
  /\ pc[p] = "down"
  /\ ConcurrentStart \/ \A q \in Processes : ~Creating(q)
  /\ \/ Goto(p, "failed") /\ UNCHANGED data  \* os.MkdirAll fails
     \/ Goto(p, "up") /\ UNCHANGED data      \* the file exists, or os.Stat fails otherwise
     \/ /\ file = NoInode
        /\ data' = [data EXCEPT ![p] = NoUsers]
        /\ Goto(p, "truncate")
  /\ UNCHANGED <<fs, flock, fd, op, reply>>

\* The process dies; the kernel drops its file lock and keeps its files.
Crash(p) ==
  /\ Crashes /\ pc[p] \notin {"down", "failed", "dead"}
  /\ LET gone == {p} \union {c \in Calls : ProcessOf[c] = p} IN
       /\ pc' = [w \in Writers |-> IF w \in gone /\ pc[w] # "done" THEN "dead" ELSE pc[w]]
       /\ flock' = IF flock \in gone THEN NoCall ELSE flock
       /\ data' = [w \in Writers |-> IF w \in gone THEN NoData ELSE data[w]]
       /\ fd' = [w \in Writers |-> IF w \in gone THEN NoInode ELSE fd[w]]
  /\ UNCHANGED <<fs, op, reply>>

-----------------------------------------------------------------------------
\* FileStore.write, for a call and for NewFileStore.

\* Mutant: a failed write returns without the deferred unlock of the lock file.
WriteErrorKeepsFlock(w) ==
  /\ Goto(w, IF w \in Calls THEN "unlock" ELSE "failed")
  /\ IF w \in Calls THEN Answer(w, "error") ELSE UNCHANGED reply

\* A failed write goes on to the deferred unlocks, or ends NewFileStore.
WriteError(w) ==
  /\ Goto(w, IF w \in Calls THEN "unflock" ELSE "failed")
  /\ IF w \in Calls THEN Answer(w, "error") ELSE UNCHANGED reply

Unused == Inodes \ ({file, tmp} \union {fd[w] : w \in Writers})

\* Mutant: the users are dropped before they are written.
TruncateDropsData(w) ==
  /\ pc[w] = "truncate"
  /\ \E i \in IF tmp = NoInode THEN Unused ELSE {tmp} :
       /\ tmp' = i
       /\ content' = [content EXCEPT ![i] = Partial]
       /\ fd' = [fd EXCEPT ![w] = i]
  /\ data' = [data EXCEPT ![w] = NoData]
  /\ Goto(w, "fill")
  /\ UNCHANGED <<file, flock, op, reply>>

\* os.WriteFile opens users.json.tmp, new or truncated, ...
Truncate(w) ==
  /\ pc[w] = "truncate"
  /\ \/ /\ \E i \in IF tmp = NoInode THEN Unused ELSE {tmp} :
             /\ tmp' = i
             /\ content' = [content EXCEPT ![i] = Partial]
             /\ fd' = [fd EXCEPT ![w] = i]
        /\ Goto(w, "fill")
        /\ UNCHANGED <<data, reply>>
     \/ /\ WriteError(w)
        /\ data' = [data EXCEPT ![w] = NoData]
        /\ UNCHANGED <<tmp, content, fd>>
  /\ UNCHANGED <<file, flock, op>>

\* Mutant: the error of a short write is ignored.
FillIgnoresError(w) ==
  /\ pc[w] = "fill"
  /\ content' \in {content, [content EXCEPT ![fd[w]] = data[w]]}
  /\ Goto(w, "rename")
  /\ fd' = [fd EXCEPT ![w] = NoInode]
  /\ data' = [data EXCEPT ![w] = NoData]
  /\ UNCHANGED <<file, tmp, flock, op, reply>>

HasAccount(users) == {u \in Users : users[u] # NoAccount}

\* What remains when w writes from the start of an inode that another writer may
\* have filled: the tail of a longer list of users stays behind the new one.
Overwritten(w) ==
  LET old == content[fd[w]] IN
    IF old = Partial \/ HasAccount(old) \subseteq HasAccount(data[w]) THEN data[w] ELSE Partial

\* ... writes it and closes it, or leaves part of it.
Fill(w) ==
  /\ pc[w] = "fill"
  /\ \/ /\ content' = [content EXCEPT ![fd[w]] = Overwritten(w)]
        /\ Goto(w, "rename")
        /\ UNCHANGED reply
     \/ /\ WriteError(w)
        /\ UNCHANGED content
  /\ fd' = [fd EXCEPT ![w] = NoInode]
  /\ data' = [data EXCEPT ![w] = NoData]
  /\ UNCHANGED <<file, tmp, flock, op>>

\* os.Rename replaces users.json; the inode that had the name is gone.
Rename(w) ==
  /\ pc[w] = "rename"
  /\ \/ /\ tmp # NoInode
        /\ file' = tmp
        /\ tmp' = NoInode
        /\ content' = [i \in Inodes |-> IF i = file THEN Partial ELSE content[i]]
        /\ Goto(w, IF w \in Calls THEN "unflock" ELSE "up")
        /\ IF w \in Calls THEN Answer(w, "ok") ELSE UNCHANGED reply
     \/ /\ Goto(w, "remove")
        /\ UNCHANGED <<fs, reply>>
  /\ UNCHANGED <<flock, data, fd, op>>

\* os.Remove of the temporary file after a failed rename.
RemoveTmp(w) ==
  /\ pc[w] = "remove"
  /\ tmp' \in {NoInode, tmp}
  /\ WriteError(w)
  /\ UNCHANGED <<content, file, flock, data, fd, op>>

-----------------------------------------------------------------------------
\* A call, made by an SSH session of oob-hub or by a run of oob-manage.

Call(c) ==
  /\ pc[c] = "idle" /\ pc[ProcessOf[c]] = "up"
  /\ \E o \in OpsOf[c] : op' = [op EXCEPT ![c] = o]
  /\ Goto(c, "called")
  /\ UNCHANGED <<fs, flock, data, fd, reply>>

\* Phases in which the call has s.mu for writing.
HasMutex(c) ==
  pc[c] \in {"flock", "modify", "truncate", "fill", "rename", "remove", "unflock", "unlock"}

MutexFree(c) == \A e \in Calls : ProcessOf[e] = ProcessOf[c] => ~HasMutex(e)

\* readLocked finds a file that parses.
Readable == file # NoInode /\ content[file] # Partial

account(c) == content[file][op[c].user]

\* Authenticate and MustChangePassword: one read under s.mu.RLock.
Query(c) ==
  /\ pc[c] = "called" /\ op[c].op \in Queries
  /\ MutexFree(c)
  /\ \/ Answer(c, "error")
     \/ /\ Readable /\ op[c].op = "Authenticate"
        /\ LET a == account(c) IN
             Answer(c, IF a # NoAccount /\ ~a.locked /\ a.pw = op[c].pw THEN "yes" ELSE "no")
     \/ /\ Readable /\ op[c].op = "MustChangePassword"
        /\ \/ account(c) = NoAccount /\ Answer(c, "notFound")
           \/ /\ account(c) # NoAccount
              /\ Answer(c, IF account(c).force THEN "yes" ELSE "no")
  /\ Goto(c, "done")
  /\ UNCHANGED <<fs, flock, data, fd, op>>

\* s.mu.Lock, then withFileLock opens users.json.lock.
LockMutex(c) ==
  /\ pc[c] = "called" /\ op[c].op \notin Queries
  /\ MutexFree(c)
  /\ \/ Goto(c, "flock") /\ UNCHANGED reply
     \/ Goto(c, "unlock") /\ Answer(c, "error")
  /\ UNCHANGED <<fs, flock, data, fd, op>>

\* Mutant: a lock that others may share.
FlockShared(c) ==
  /\ pc[c] = "flock"
  /\ flock' = c
  /\ Goto(c, "modify")
  /\ UNCHANGED <<fs, data, fd, op, reply>>

\* flock(2) answers with an error.
FlockError(c) ==
  /\ pc[c] = "flock"
  /\ Answer(c, "error")
  /\ Goto(c, "unlock")
  /\ UNCHANGED <<fs, flock, data, fd, op>>

\* The exclusive lock of users.json.lock.
Flock(c) ==
  /\ pc[c] = "flock"
  /\ flock = NoCall
  /\ flock' = c
  /\ Goto(c, "modify")
  /\ UNCHANGED <<fs, data, fd, op, reply>>

\* Mutant: Reset and SetPassword swap their ForceChange.
ModifiedSwapped(o, a) ==
  CASE o.op = "Lock"   -> [a EXCEPT !.locked = TRUE]
    [] o.op = "Unlock" -> [a EXCEPT !.locked = FALSE]
    [] o.op \in {"Reset", "SetPassword"} /\ o.pw \notin TooLong
                       -> [a EXCEPT !.pw = o.pw, !.force = (o.op = "SetPassword")]
    [] o.op = "Add"    -> [pw |-> o.pw, locked |-> FALSE, force |-> TRUE]
    [] o.op = "Remove" -> NoAccount
    [] OTHER           -> a

\* The fn of modifyUser: a password that bcrypt refuses leaves the account as it is.
Modified(o, a) ==
  CASE o.op = "Lock"   -> [a EXCEPT !.locked = TRUE]
    [] o.op = "Unlock" -> [a EXCEPT !.locked = FALSE]
    [] o.op \in {"Reset", "SetPassword"} /\ o.pw \notin TooLong
                       -> [a EXCEPT !.pw = o.pw, !.force = (o.op = "Reset")]
    [] o.op = "Add"    -> [pw |-> o.pw, locked |-> FALSE, force |-> TRUE]
    [] o.op = "Remove" -> NoAccount
    [] OTHER           -> a

\* Under both locks: read the file, then refuse or go on to write the new users.
Modify(c) ==
  /\ pc[c] = "modify"
  /\ \/ /\ Answer(c, "error")
        /\ Goto(c, "unflock")
        /\ UNCHANGED data
     \/ /\ Readable
        /\ \/ op[c].op = "Add" /\ account(c) # NoAccount /\ Answer(c, "exists")
           \/ op[c].op # "Add" /\ account(c) = NoAccount /\ Answer(c, "notFound")
        /\ Goto(c, "unflock")
        /\ UNCHANGED data
     \/ /\ Readable
        /\ op[c].op = "Add" <=> account(c) = NoAccount
        /\ op[c].op = "Add" => op[c].pw \notin TooLong
        /\ data' = [data EXCEPT ![c] =
                      [content[file] EXCEPT ![op[c].user] = Modified(op[c], @)]]
        /\ Goto(c, "truncate")
        /\ UNCHANGED reply
  /\ UNCHANGED <<fs, flock, fd, op>>

Unflock(c) ==
  /\ pc[c] = "unflock"
  /\ flock' = NoCall
  /\ Goto(c, "unlock")
  /\ UNCHANGED <<fs, data, fd, op, reply>>

UnlockMutex(c) ==
  /\ pc[c] = "unlock"
  /\ Goto(c, "done")
  /\ UNCHANGED <<fs, flock, data, fd, op, reply>>

-----------------------------------------------------------------------------
Write(w) == Truncate(w) \/ Fill(w) \/ Rename(w) \/ RemoveTmp(w)

CallStep(c) ==
  Query(c) \/ LockMutex(c) \/ Flock(c) \/ Modify(c) \/ Write(c) \/ Unflock(c) \/ UnlockMutex(c)

Next ==
  \/ \E p \in Processes : Stat(p) \/ Write(p) \/ Crash(p)
  \/ \E c \in Calls : Call(c) \/ CallStep(c) \/ FlockError(c)

Spec == Init /\ [][Next]_vars

\* The processor and the kernel's file lock serve every call that goes on; no
\* flock has to fail.
Fairness == \A c \in Calls : WF_vars(CallStep(c))

FairSpec == Spec /\ Fairness
-----------------------------------------------------------------------------
Phases == {"down", "up", "failed", "dead", "idle", "called", "flock", "modify",
           "truncate", "fill", "rename", "remove", "unflock", "unlock", "done"}

TypeOK ==
  /\ content \in [Inodes -> UserMap \union {Partial}]
  /\ file \in Inodes \union {NoInode}
  /\ tmp \in Inodes \union {NoInode}
  /\ flock \in Calls \union {NoCall}
  /\ pc \in [Writers -> Phases]
  /\ data \in [Writers -> UserMap \union {NoData}]
  /\ fd \in [Writers -> Inodes \union {NoInode}]
  /\ op \in [Calls -> Ops \union {NoOp}]
  /\ reply \in [Calls -> {"none", "ok", "yes", "no", "notFound", "exists", "error"}]

\* users.json is never seen half written, also after a crash between two file
\* operations: whoever writes an inode, it is not the one of users.json.
\* store.go:232 "write atomically writes the users file via temp+rename."
LiveFileParses == file # NoInode => Readable

\* Two calls, of one process or two, are never both between the read of
\* users.json and its replacement.
OneUpdate ==
  \A c, e \in Calls :
    pc[c] \in {"truncate", "fill", "rename"} /\ pc[e] \in {"truncate", "fill", "rename"}
      => c = e

\* What a call is about to put in place of users.json differs from it in the
\* call's own user only, until the rename: no update of another user is lost.
Proposed(c) == IF pc[c] = "rename" THEN content[tmp] ELSE data[c]

UpdatesOwnUser ==
  \A c \in Calls : pc[c] \in {"truncate", "fill", "rename"} =>
    /\ Readable
    /\ pc[c] = "rename" => tmp # NoInode
    /\ \E a \in Account \union {NoAccount} :
         Proposed(c) = [content[file] EXCEPT ![op[c].user] = a]

\* No return keeps a lock, after whatever error or crash: the file lock is with a call
\* that is about to read, write or release, never with one that is done or that waits,
\* and the mutex of a process with one call, which waits for nothing but that lock.
LocksInUse ==
  /\ flock # NoCall =>
       pc[flock] \in {"modify", "truncate", "fill", "rename", "remove", "unflock"}
  /\ \A c, e \in Calls :
       ProcessOf[c] = ProcessOf[e] /\ HasMutex(c) /\ HasMutex(e) => c = e

(***************************************************************************)
(* The inductive invariants behind these: LockInv always, StoreInv for     *)
(* processes that do not start at once.                                    *)
(***************************************************************************)
Writing(w) == pc[w] \in {"truncate", "fill", "rename", "remove"}

\* Processes and calls have phases of their own.
PhaseOfWriter ==
  /\ \A p \in Processes : Writing(p) \/ pc[p] \in {"down", "up", "failed", "dead"}
  /\ \A c \in Calls : pc[c] \notin {"down", "up", "failed"}

\* The file lock is with the call that is between the two system calls.
FlockHeld ==
  \A c \in Calls : Writing(c) \/ pc[c] \in {"modify", "unflock"} => flock = c

\* A writer about to write has something to write, a call under way was asked for it.
InUse ==
  /\ \A w \in Writers : pc[w] \in {"truncate", "fill"} => data[w] \in UserMap
  /\ \A c \in Calls : pc[c] \notin {"idle", "dead"} => op[c] \in Ops

LockInv == TypeOK /\ PhaseOfWriter /\ FlockHeld /\ InUse

\* NewFileStore writes while there is no file, a call only when there is one: the
\* two never write at once, though NewFileStore takes no lock.
OneWriter ==
  /\ \A p, q \in Processes : Writing(p) /\ Writing(q) => p = q
  /\ \A p \in Processes : Writing(p) => file = NoInode
  /\ \A c \in Calls : Writing(c) => file # NoInode
  /\ file = tmp => file = NoInode

\* What w is to put in place of users.json.
New(w) == IF w \in Calls THEN [content[file] EXCEPT ![op[w].user] = Modified(op[w], @)]
          ELSE NoUsers

\* It has it in memory, then in the temporary file, which was empty.
WritesNew(w) ==
  /\ pc[w] \in {"truncate", "fill"} => data[w] = New(w)
  /\ pc[w] \in {"fill", "rename"} => tmp # NoInode
  /\ pc[w] = "fill" => fd[w] = tmp /\ content[tmp] = Partial
  /\ pc[w] = "rename" => content[tmp] = New(w)

\* Whether fn of modifyUser, or Add, goes on for the user that it has read.
Applies(c) ==
  /\ op[c].op = "Add" <=> account(c) = NoAccount
  /\ op[c].op = "Add" => op[c].pw \notin TooLong

\* What a call was asked and has answered so far.
CallFits(c) ==
  /\ pc[c] = "idle" => op[c] = NoOp
  /\ HasMutex(c) => op[c].op \notin Queries
  /\ Writing(c) => Applies(c)
  /\ Writing(c) \/ pc[c] \in {"idle", "called", "flock", "modify"} => reply[c] = "none"

StoreInv ==
  /\ LockInv /\ OneWriter /\ LiveFileParses
  /\ \A w \in Writers : WritesNew(w)
  /\ \A c \in Calls : CallFits(c)

\* The file, the temporary file and the locks together are the one map of UserStore.
Users_ == IF Readable THEN content[file] ELSE NoUsers
Store == INSTANCE UserStore WITH users <- Users_
ImplementsUserStore == Store!Spec

\* A user with an account loses it in no other way than by Remove.
\* store.go:56 "It creates the directory and an empty users.json if they don't
\* exist": a process that starts leaves the users of another alone.
AccountsStay ==
  [][\A u \in Users : Users_[u] # NoAccount /\ Readable' /\ Users_'[u] = NoAccount =>
       \E c \in Calls : pc[c] = "rename" /\ op[c].op = "Remove" /\ op[c].user = u]_vars

\* Every call is answered, unless its process dies: no error path keeps a lock,
\* and the lock of a dead process does not stay.
CallsReturn == \A c \in Calls : pc[c] = "called" ~> pc[c] \in {"done", "dead"}
=============================================================================
