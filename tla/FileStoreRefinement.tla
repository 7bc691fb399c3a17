------------------------ MODULE FileStoreRefinement ------------------------
(***************************************************************************)
(* FileStore implements UserStore: the many steps of a call, its locks and *)
(* its temporary file come down to one step of the shared map.  The rename *)
(* of a call is that step; a refusal takes it where the users are read,    *)
(* and every other step of a call, a process or a crash leaves the map.    *)
(***************************************************************************)
EXTENDS FileStoreProofs

USE FileStoreAssumption

Renames(w) == Rename(w) /\ tmp # NoInode /\ file' = tmp

LEMMA InitUserStore == Init => Store!Init
<1> SUFFICES ASSUME Init PROVE Store!Init
    OBVIOUS
<1>1. file \in Inodes => content[file] = InitialUsers
  BY DEF Init
<1>2. file \in Inodes \/ file = NoInode
  BY DEF Init
<1>3. Users_ \in {InitialUsers, NoUsers}
  BY <1>1, <1>2 DEF Users_, Readable
<1> QED BY <1>3 DEF Store!Init, Init, NoUsers

\* The map is the content of the file, when the file is there.
LEMMA UsersOfFile ==
  ASSUME StoreInv, file # NoInode
  PROVE  Readable /\ Users_ = content[file] /\ Users_ \in UserMap
BY DEF StoreInv, LockInv, LiveFileParses, Users_, Readable, TypeOK

LEMMA UsersStay ==
  ASSUME StoreInv, UNCHANGED file, file \in Inodes => UNCHANGED content[file]
  PROVE  UNCHANGED Users_
BY DEF StoreInv, LockInv, TypeOK, Users_, Readable

\* Whoever writes, it is not the file that is in place.
LEMMA WriteKeepsUsers ==
  ASSUME StoreInv, NEW w \in Writers, Write(w), ~Renames(w)
  PROVE  UNCHANGED Users_
<1> TypeOK /\ OneWriter
  BY DEF StoreInv, LockInv
<1> USE DEF TypeOK, fs
<1>1. CASE Truncate(w)
  <2>1. UNCHANGED file
    BY <1>1 DEF Truncate
  <2>2. file \in Inodes => UNCHANGED content[file]
    BY <1>1 DEF Truncate, Unused, OneWriter
  <2> QED BY <2>1, <2>2, UsersStay
<1>2. CASE Fill(w)
  <2>1. fd[w] = tmp /\ tmp # NoInode
    BY <1>2 DEF Fill, StoreInv, WritesNew
  <2>2. file \in Inodes => UNCHANGED content[file]
    BY <1>2, <2>1 DEF Fill, OneWriter
  <2> QED BY <1>2, <2>2, UsersStay DEF Fill
<1>3. CASE Rename(w) BY <1>3, UsersStay DEF Rename, Renames
<1>4. CASE RemoveTmp(w) BY <1>4, UsersStay DEF RemoveTmp
<1> QED BY <1>1, <1>2, <1>3, <1>4 DEF Write

\* A rename puts in place what its writer had decided on.
LEMMA RenameGivesNew ==
  ASSUME StoreInv, NEW w \in Writers, Renames(w)
  PROVE  Users_' = New(w)
<1>1. tmp \in Inodes /\ tmp # file
  BY DEF Renames, StoreInv, LockInv, TypeOK, OneWriter
<1>2. content[tmp] = New(w) /\ New(w) \in UserMap
  BY NewType DEF Renames, Rename, StoreInv, WritesNew, Prepared
<1>3. file' = tmp /\ content'[tmp] = content[tmp]
  BY <1>1 DEF Renames, Rename, fs
<1> QED BY <1>1, <1>2, <1>3 DEF Users_, Readable

-----------------------------------------------------------------------------
\* What the answers of FileStore are in UserStore.

\* Asked(c): a call under way, not answered yet.
Asked(c) == op[c] \in Ops /\ reply[c] = "none"

LEMMA ErrorIsFail ==
  ASSUME NEW c \in Calls, Asked(c), Answer(c, "error"), UNCHANGED <<op, Users_>>
  PROVE  Store!Next
BY DEF Asked, Answer, Store!Next, Store!Fail, Store!Answer

\* The operations on an account that must exist answer alike when it does not.
LEMMA NotFoundIsChange ==
  ASSUME NEW c \in Calls, Asked(c), op[c].op \notin Queries \union {"Add"},
         Users_[op[c].user] = NoAccount, Answer(c, "notFound"), UNCHANGED <<op, Users_>>
  PROVE  Store!Next
<1>1. op[c].op \in {"UpdateLastLogin", "SetPassword", "Remove", "Lock", "Unlock", "Reset"}
  BY DEF Asked, Operations
<1>2. ASSUME NEW new PROVE Store!Change(c, op[c].op, new)
  BY DEF Asked, Answer, Store!Change, Store!Pending, Store!Exists, Store!account, Store!Answer
<1> QED BY <1>1, <1>2 DEF Store!Next, Store!UpdateLastLogin, Store!SetPassword, Store!Remove,
             Store!Lock, Store!Unlock, Store!Reset

LEMMA ExistsIsAdd ==
  ASSUME NEW c \in Calls, Asked(c), op[c].op = "Add",
         Users_[op[c].user] # NoAccount, Answer(c, "exists"), UNCHANGED <<op, Users_>>
  PROVE  Store!Next
BY DEF Asked, Answer, Store!Next, Store!Add, Store!Pending, Store!Exists, Store!account, Store!Answer

\* The change that fn makes, put in place at once, is the operation of that name.
LEMMA ModifiedIsChange ==
  ASSUME NEW c \in Calls, Asked(c), op[c].op \notin Queries, Answer(c, "ok"), UNCHANGED op,
         (op[c].op = "Add") <=> (Users_[op[c].user] = NoAccount),
         op[c].op = "Add" => op[c].pw \notin TooLong,
         Users_' = [Users_ EXCEPT ![op[c].user] = Modified(op[c], Users_[op[c].user])]
  PROVE  Store!Next
<1> DEFINE a == Users_[op[c].user]
<1>1. op[c].op \in Operations \ Queries
  BY DEF Asked
<1>2. CASE op[c].op = "Add"
  <2>1. Modified(op[c], a) = [pw |-> op[c].pw, locked |-> FALSE, force |-> TRUE]
    BY <1>2 DEF Modified
  <2> QED BY <1>2, <2>1 DEF Asked, Answer, Store!Next, Store!Add, Store!Pending, Store!Exists,
               Store!account, Store!Answer
<1>3. CASE op[c].op # "Add"
  <2>1. Store!Change(c, op[c].op, Modified(op[c], a))
    BY <1>3 DEF Asked, Answer, Store!Change, Store!Pending, Store!Exists, Store!account, Store!Answer
  <2>2. CASE op[c].op = "Remove"
    <3>1. Modified(op[c], a) = NoAccount
      BY <2>2 DEF Modified
    <3> QED BY <2>1, <2>2, <3>1 DEF Store!Next, Store!Remove
  <2>3. CASE op[c].op = "Lock"
    <3>1. Modified(op[c], a) = [a EXCEPT !.locked = TRUE]
      BY <2>3 DEF Modified
    <3> QED BY <2>1, <2>3, <3>1 DEF Store!Next, Store!Lock, Store!account
  <2>4. CASE op[c].op = "Unlock"
    <3>1. Modified(op[c], a) = [a EXCEPT !.locked = FALSE]
      BY <2>4 DEF Modified
    <3> QED BY <2>1, <2>4, <3>1 DEF Store!Next, Store!Unlock, Store!account
  <2>5. CASE op[c].op = "UpdateLastLogin"
    <3>1. Modified(op[c], a) = a
      BY <2>5 DEF Modified
    <3> QED BY <2>1, <2>5, <3>1 DEF Store!Next, Store!UpdateLastLogin, Store!account
  <2>6. CASE op[c].op = "SetPassword"
    <3>1. Modified(op[c], a) = Store!NewPassword(c, FALSE)
      BY <2>6 DEF Modified, Store!NewPassword, Store!account
    <3> QED BY <2>1, <2>6, <3>1 DEF Store!Next, Store!SetPassword
  <2>7. CASE op[c].op = "Reset"
    <3>1. Modified(op[c], a) = Store!NewPassword(c, TRUE)
      BY <2>7 DEF Modified, Store!NewPassword, Store!account
    <3> QED BY <2>1, <2>7, <3>1 DEF Store!Next, Store!Reset
  <2> QED BY <1>1, <1>3, <2>2, <2>3, <2>4, <2>5, <2>6, <2>7 DEF Operations
<1> QED BY <1>2, <1>3

-----------------------------------------------------------------------------
\* One step of FileStore.

LEMMA WriteRefines ==
  ASSUME StoreInv, NEW w \in Writers, Write(w)
  PROVE  [Store!Next]_(Store!vars)
<1>1. CASE w \notin Calls
  <2>1. UNCHANGED <<op, reply>>
    BY <1>1 DEF Write, Truncate, Fill, Rename, RemoveTmp, WriteError
  <2>2. CASE Renames(w)
    <3>1. Users_' = NoUsers
      BY <1>1, <2>2, RenameGivesNew DEF New
    <3>2. file = NoInode
      BY <1>1, <2>2 DEF Renames, Rename, StoreInv, OneWriter, Writing, Writers
    <3> QED BY <2>1, <3>1, <3>2 DEF Store!vars, Users_, Readable
  <2> QED BY <2>1, <2>2, WriteKeepsUsers DEF Store!vars
<1>2. CASE w \in Calls
  <2>1. Asked(w) /\ op[w].op \notin Queries /\ Applies(w) /\ file # NoInode
    <3>1. Writing(w)
      BY DEF Write, Truncate, Fill, Rename, RemoveTmp, Writing
    <3> QED BY <1>2, <3>1 DEF StoreInv, LockInv, InUse, CallFits, OneWriter, Writing, HasMutex, Asked
  <2>2. CASE Renames(w)
    <3>1. Users_' = [Users_ EXCEPT ![op[w].user] = Modified(op[w], Users_[op[w].user])]
      BY <1>2, <2>1, <2>2, RenameGivesNew, UsersOfFile DEF New
    <3>2. Answer(w, "ok") /\ UNCHANGED op
      BY <1>2, <2>2 DEF Renames, Rename, fs, StoreInv, OneWriter
    <3>3. account(w) = Users_[op[w].user]
      BY <2>1, UsersOfFile DEF account
    <3> QED BY <1>2, <2>1, <3>1, <3>2, <3>3, ModifiedIsChange DEF Applies
  <2>3. CASE ~Renames(w)
    <3>1. UNCHANGED <<Users_, op>>
      BY <2>3, WriteKeepsUsers DEF Write, Truncate, Fill, Rename, RemoveTmp
    <3>2. Answer(w, "error") \/ UNCHANGED reply
      BY <1>2, <2>3 DEF Write, Truncate, Fill, Rename, RemoveTmp, WriteError, Renames
    <3> QED BY <1>2, <2>1, <3>1, <3>2, ErrorIsFail DEF Store!vars
  <2> QED BY <2>2, <2>3
<1> QED BY <1>1, <1>2

LEMMA QueryRefines ==
  ASSUME StoreInv, NEW c \in Calls, Query(c)
  PROVE  Store!Next
<1>1. UNCHANGED Users_ /\ UNCHANGED op /\ Asked(c)
  <2>1. UNCHANGED <<file, content, op>>
    BY DEF Query, fs
  <2>2. Asked(c)
    BY DEF Query, StoreInv, LockInv, InUse, CallFits, Asked
  <2> QED BY <2>1, <2>2, UsersStay
<1>2. CASE Answer(c, "error")
  BY <1>1, <1>2, ErrorIsFail
<1>3. Readable => account(c) = Users_[op[c].user]
  BY DEF account, Users_
<1>4. CASE Readable /\ op[c].op = "Authenticate"
           /\ LET a == account(c) IN
                Answer(c, IF a # NoAccount /\ ~a.locked /\ a.pw = op[c].pw THEN "yes" ELSE "no")
  <2>1. Store!Authenticate(c)
    BY <1>1, <1>3, <1>4 DEF Asked, Answer, Store!Authenticate, Store!Pending, Store!account, Store!Answer
  <2> QED BY <2>1 DEF Store!Next
<1>5. CASE Readable /\ op[c].op = "MustChangePassword"
           /\ \/ account(c) = NoAccount /\ Answer(c, "notFound")
              \/ /\ account(c) # NoAccount
                 /\ Answer(c, IF account(c).force THEN "yes" ELSE "no")
  <2>1. Store!MustChangePassword(c)
    BY <1>1, <1>3, <1>5 DEF Asked, Answer, Store!MustChangePassword, Store!Pending, Store!Exists,
         Store!account, Store!Answer
  <2> QED BY <2>1 DEF Store!Next
<1> QED BY <1>2, <1>4, <1>5 DEF Query

LEMMA ModifyRefines ==
  ASSUME StoreInv, NEW c \in Calls, Modify(c)
  PROVE  [Store!Next]_(Store!vars)
<1>1. UNCHANGED Users_ /\ UNCHANGED op
  BY UsersStay DEF Modify, fs
<1>2. Asked(c) /\ op[c].op \notin Queries
  BY DEF Modify, StoreInv, LockInv, InUse, CallFits, HasMutex, Asked
<1>3. Readable => account(c) = Users_[op[c].user]
  BY DEF account, Users_
<1>4. CASE Answer(c, "error") BY <1>1, <1>2, <1>4, ErrorIsFail
<1>5. CASE Readable /\ op[c].op = "Add" /\ account(c) # NoAccount /\ Answer(c, "exists")
  BY <1>1, <1>2, <1>3, <1>5, ExistsIsAdd
<1>6. CASE Readable /\ op[c].op # "Add" /\ account(c) = NoAccount /\ Answer(c, "notFound")
  BY <1>1, <1>2, <1>3, <1>6, NotFoundIsChange
<1>7. CASE UNCHANGED reply BY <1>1, <1>7 DEF Store!vars
<1> QED BY <1>4, <1>5, <1>6, <1>7 DEF Modify

LEMMA CallRefines ==
  ASSUME StoreInv, NEW c \in Calls,
         Call(c) \/ LockMutex(c) \/ Flock(c) \/ FlockError(c) \/ Unflock(c) \/ UnlockMutex(c)
  PROVE  [Store!Next]_(Store!vars)
<1>1. UNCHANGED Users_
  BY UsersStay DEF Call, LockMutex, Flock, FlockError, Unflock, UnlockMutex, fs
<1>2. CASE Call(c)
  <2>1. op[c] = NoOp /\ UNCHANGED reply
    BY <1>2 DEF Call, StoreInv, CallFits
  <2> QED BY <1>1, <1>2, <2>1 DEF Call, Store!Next, Store!Invoke
<1>3. CASE LockMutex(c) \/ FlockError(c)
  <2>1. Asked(c) /\ UNCHANGED op /\ (Answer(c, "error") \/ UNCHANGED reply)
    BY <1>3 DEF LockMutex, FlockError, StoreInv, LockInv, InUse, CallFits, Asked
  <2> QED BY <1>1, <2>1, ErrorIsFail DEF Store!vars
<1>4. CASE Flock(c) \/ Unflock(c) \/ UnlockMutex(c)
  BY <1>1, <1>4 DEF Flock, Unflock, UnlockMutex, Store!vars
<1> QED BY <1>2, <1>3, <1>4

LEMMA NextRefines == StoreInv /\ [Next]_vars => [Store!Next]_(Store!vars)
<1> SUFFICES ASSUME StoreInv, [Next]_vars PROVE [Store!Next]_(Store!vars)
    OBVIOUS
<1>1. ASSUME NEW p \in Processes, Stat(p) \/ Crash(p) PROVE [Store!Next]_(Store!vars)
  BY <1>1, UsersStay DEF Stat, Crash, fs, Store!vars
<1>2. CASE UNCHANGED vars
  BY <1>2, UsersStay DEF vars, fs, Store!vars
<1> QED BY <1>1, <1>2, WriteRefines, QueryRefines, ModifyRefines, CallRefines
         DEF Next, CallStep, Writers

\* users.json, its temporary file, the lock file and the mutexes behave as one map of
\* users, on which every call takes effect at one instant: for any number of processes
\* and calls, with crashes and failed file operations anywhere.
THEOREM FileStoreRefinesUserStore ==
  ASSUME ~ConcurrentStart
  PROVE  Spec => ImplementsUserStore
<1>1. Spec => []StoreInv
  BY StoreInvariance
<1> QED BY <1>1, InitUserStore, NextRefines, PTL DEF Spec, ImplementsUserStore, Store!Spec

-----------------------------------------------------------------------------
\* The map changes by a rename only.
LEMMA UsersChangeByRename ==
  ASSUME StoreInv, [Next]_vars
  PROVE  UNCHANGED Users_ \/ \E w \in Writers : Renames(w)
<1>1. CASE UNCHANGED fs BY <1>1, UsersStay DEF fs
<1>2. (\E w \in Writers : Write(w)) \/ UNCHANGED fs
  BY DEF Next, CallStep, Writers, Stat, Crash, Call, Query, LockMutex, Flock, FlockError, Modify,
       Unflock, UnlockMutex, vars
<1> QED BY <1>1, <1>2, WriteKeepsUsers

LEMMA OnlyRemoveRemoves ==
  ASSUME NEW o \in Ops, NEW a \in Account, o.op \notin {"Add", "Remove"}
  PROVE  Modified(o, a) # NoAccount
<1>1. o.pw \in Passwords
  BY DEF Passwords
<1> QED BY <1>1 DEF Modified, Account

\* Only Remove takes an account away: no crash, no failed write and no process that
\* starts does.  (Processes that start at once do: NewFileStore takes no lock.)
THEOREM AccountsStayUnlessRemoved ==
  ASSUME ~ConcurrentStart
  PROVE  Spec => AccountsStay
<1> DEFINE Step ==
      \A u \in Users : Users_[u] # NoAccount /\ Readable' /\ Users_'[u] = NoAccount =>
        \E c \in Calls : pc[c] = "rename" /\ op[c].op = "Remove" /\ op[c].user = u
<1>1. StoreInv /\ [Next]_vars => [Step]_vars
  <2> SUFFICES ASSUME StoreInv, [Next]_vars, NEW u \in Users,
                      Users_[u] # NoAccount, Readable', Users_'[u] = NoAccount
               PROVE  \E c \in Calls : pc[c] = "rename" /\ op[c].op = "Remove" /\ op[c].user = u
    BY DEF vars
  <2>1. PICK w \in Writers : Renames(w)
    BY UsersChangeByRename
  <2>2. file # NoInode
    BY DEF Users_, Readable, NoUsers
  <2>3. pc[w] = "rename" /\ Writing(w)
    BY <2>1 DEF Renames, Rename, Writing
  <2>4. w \in Calls
    BY <2>2, <2>3 DEF StoreInv, OneWriter, Writers
  <2>5. op[w] \in Ops /\ Applies(w)
    BY <2>3, <2>4 DEF StoreInv, LockInv, InUse, CallFits
  <2>6. Users_' = [Users_ EXCEPT ![op[w].user] = Modified(op[w], account(w))]
    BY <2>1, <2>2, <2>4, RenameGivesNew, UsersOfFile DEF New, account
  <2>7. op[w].user = u /\ Modified(op[w], account(w)) = NoAccount /\ account(w) = Users_[u]
    BY <2>2, <2>5, <2>6, UsersOfFile DEF account, UserMap
  <2>8. account(w) \in Account
    BY <2>2, <2>7, UsersOfFile DEF UserMap
  <2>9. op[w].op # "Add"
    BY <2>5, <2>7 DEF Applies
  <2> QED BY <2>3, <2>4, <2>5, <2>7, <2>8, <2>9, OnlyRemoveRemoves
<1> QED BY <1>1, StoreInvariance, PTL DEF Spec, AccountsStay

-----------------------------------------------------------------------------
\* What the map promises to a caller, whatever implements it: an answer stays, and
\* the step that changes the map answers one call with ok and touches its user only.
AnswerOfChange ==
  /\ \A c \in Calls : reply[c] # "none" => reply'[c] = reply[c]
  /\ Users_' # Users_ =>
       \E c \in Calls :
         /\ op[c].op \notin Queries /\ reply[c] = "none"
         /\ reply' = [reply EXCEPT ![c] = "ok"]
         /\ \A u \in Users \ {op[c].user} : Users_'[u] = Users_[u]

LEMMA ChangeIsAnswered ==
  ASSUME NEW c \in Calls, NEW new, NEW name \in Operations \ Queries,
         Store!Change(c, name, new), Users_ \in UserMap,
         reply \in [Calls -> {"none", "ok", "yes", "no", "notFound", "exists", "error"}]
  PROVE  AnswerOfChange
<1> USE DEF Store!Change, Store!Pending, Store!Answer, UserMap
<1>1. reply[c] = "none" /\ op[c].op = name
  OBVIOUS
<1>2. \A e \in Calls : reply[e] # "none" => reply'[e] = reply[e]
  BY <1>1
<1>3. Users_' # Users_ =>
        /\ reply' = [reply EXCEPT ![c] = "ok"]
        /\ \A u \in Users \ {op[c].user} : Users_'[u] = Users_[u]
  OBVIOUS
<1> QED BY <1>1, <1>2, <1>3 DEF AnswerOfChange

LEMMA StoreStepIsAnswered ==
  ASSUME [Store!Next]_(Store!vars), Users_ \in UserMap,
         reply \in [Calls -> {"none", "ok", "yes", "no", "notFound", "exists", "error"}]
  PROVE  AnswerOfChange
<1>1. CASE UNCHANGED Store!vars
  BY <1>1 DEF Store!vars, AnswerOfChange
<1>2. ASSUME NEW c \in Calls,
             \/ Store!Invoke(c) \/ Store!Fail(c) \/ Store!Authenticate(c)
             \/ Store!MustChangePassword(c)
      PROVE  AnswerOfChange
  <2>1. UNCHANGED Users_
    BY <1>2 DEF Store!Invoke, Store!Fail, Store!Authenticate, Store!MustChangePassword
  <2>2. UNCHANGED reply \/ (reply[c] = "none" /\ \E r : reply' = [reply EXCEPT ![c] = r])
    BY <1>2 DEF Store!Invoke, Store!Fail, Store!Authenticate, Store!MustChangePassword,
         Store!Answer, Store!Pending
  <2> QED BY <2>1, <2>2 DEF AnswerOfChange
<1>3. ASSUME NEW c \in Calls, Store!Add(c) PROVE AnswerOfChange
  <2>1. op[c].op \notin Queries /\ reply[c] = "none"
    BY <1>3 DEF Store!Add, Store!Pending, Queries
  <2>2. \A e \in Calls : reply[e] # "none" => reply'[e] = reply[e]
    BY <1>3, <2>1 DEF Store!Add, Store!Answer
  <2>3. Users_' # Users_ =>
          /\ reply' = [reply EXCEPT ![c] = "ok"]
          /\ \A u \in Users \ {op[c].user} : Users_'[u] = Users_[u]
    BY <1>3 DEF Store!Add, Store!Answer, UserMap
  <2> QED BY <2>1, <2>2, <2>3 DEF AnswerOfChange
<1>4. ASSUME NEW c \in Calls,
             \/ Store!Remove(c) \/ Store!Lock(c) \/ Store!Unlock(c)
             \/ Store!UpdateLastLogin(c) \/ Store!SetPassword(c) \/ Store!Reset(c)
      PROVE  AnswerOfChange
  <2>1. PICK name \in Operations \ Queries : \E new : Store!Change(c, name, new)
    BY <1>4 DEF Store!Remove, Store!Lock, Store!Unlock, Store!UpdateLastLogin,
         Store!SetPassword, Store!Reset, Operations, Queries
  <2>2. PICK new : Store!Change(c, name, new)
    BY <2>1
  <2> QED BY <2>2, ChangeIsAnswered
<1> QED BY <1>1, <1>2, <1>3, <1>4 DEF Store!Next

\* The users change in no step but one that is answered ok, of the call that asked for
\* it and about its user alone; no answer is taken back.  So a call that is told of an
\* error has changed nothing, and of the changes of two processes that overlap none
\* undoes the other's: a consequence of the refinement.
THEOREM ChangesAreAnswered ==
  ASSUME ~ConcurrentStart
  PROVE  Spec => [][AnswerOfChange]_vars
<1>1. StoreInv /\ [Next]_vars => [AnswerOfChange]_vars
  <2> SUFFICES ASSUME StoreInv, [Next]_vars PROVE AnswerOfChange
    BY DEF vars
  <2>1. Users_ \in UserMap
    BY UsersOfFile DEF Users_, Readable, NoUsers, UserMap
  <2>2. reply \in [Calls -> {"none", "ok", "yes", "no", "notFound", "exists", "error"}]
    BY DEF StoreInv, LockInv, TypeOK
  <2> QED BY <2>1, <2>2, NextRefines, StoreStepIsAnswered
<1> QED BY <1>1, StoreInvariance, PTL DEF Spec
=============================================================================
