-------------------------- MODULE FileStoreProofs --------------------------
(***************************************************************************)
(* Proofs about FileStore, for every number of processes, calls, users and *)
(* inodes, when processes do not start at once: the file behaves as the    *)
(* one map of UserStore, through every crash and failed file operation.    *)
(***************************************************************************)
EXTENDS FileStore, TLAPS

\* The phases in which WritesNew says what is written.
Prepared(w) == pc[w] \in {"truncate", "fill", "rename"}

\* A change that applies to an account gives an account, or removes it.
LEMMA ModifiedType ==
  ASSUME NEW o \in Ops, NEW a \in Account \union {NoAccount}, (o.op = "Add") <=> (a = NoAccount)
  PROVE  Modified(o, a) \in Account \union {NoAccount}
<1>1. o.op = "Add" \/ a \in Account
  OBVIOUS
<1>2. o.pw \in Passwords
  BY DEF Passwords
<1> QED BY <1>1, <1>2 DEF Modified, Account

LEMMA NewType ==
  ASSUME StoreInv, NEW w \in Writers, Prepared(w)
  PROVE  New(w) \in UserMap
<1>1. CASE w \in Calls
  <2>1. Readable /\ file \in Inodes /\ content[file] \in UserMap
    BY <1>1 DEF StoreInv, LockInv, OneWriter, Prepared, Writing, LiveFileParses, Readable, TypeOK
  <2>2. op[w] \in Ops /\ op[w].user \in Users /\ Applies(w)
    BY <1>1, FileStoreAssumption DEF StoreInv, LockInv, InUse, CallFits, Prepared, Writing
  <2>3. account(w) \in Account \union {NoAccount}
    BY <2>1, <2>2 DEF UserMap, account
  <2>4. Modified(op[w], account(w)) \in Account \union {NoAccount}
    BY <2>2, <2>3, ModifiedType DEF Applies
  <2> QED BY <1>1, <2>1, <2>2, <2>4 DEF New, UserMap, account
<1>2. CASE w \notin Calls
  BY <1>2 DEF New, NoUsers, UserMap
<1> QED BY <1>1, <1>2

LEMMA InitStoreInv == Init => StoreInv
<1> SUFFICES ASSUME Init PROVE StoreInv
    OBVIOUS
<1> USE FileStoreAssumption
<1>1. file \in Inodes \union {NoInode}
  BY DEF Init
<1>2. TypeOK /\ InUse
  BY <1>1 DEF Init, TypeOK, InUse, Phases, Writers
<1>3. PhaseOfWriter /\ FlockHeld /\ OneWriter /\ LiveFileParses
  BY <1>1 DEF Init, PhaseOfWriter, FlockHeld, OneWriter, LiveFileParses, Readable, Writing, Writers
<1>4. \A w \in Writers : WritesNew(w)
  BY DEF Init, WritesNew
<1>5. \A c \in Calls : CallFits(c)
  BY DEF Init, CallFits, Writing, HasMutex, Writers
<1> QED BY <1>2, <1>3, <1>4, <1>5 DEF StoreInv, LockInv

LEMMA WriteErrorType ==
  ASSUME TypeOK, NEW w \in Writers, WriteError(w)
  PROVE  /\ pc' \in [Writers -> Phases]
         /\ reply' \in [Calls -> {"none", "ok", "yes", "no", "notFound", "exists", "error"}]
<1>1. CASE w \in Calls     BY <1>1 DEF WriteError, Goto, Answer, TypeOK, Phases
<1>2. CASE w \notin Calls  BY <1>2 DEF WriteError, Goto, TypeOK, Phases
<1> QED BY <1>1, <1>2

\* What a call goes on to write are users.
LEMMA ModifyGivesUsers ==
  ASSUME LockInv, NEW c \in Calls, Modify(c), pc' = [pc EXCEPT ![c] = "truncate"]
  PROVE  \E users \in UserMap : data' = [data EXCEPT ![c] = users]
<1>1. op[c] \in Ops /\ op[c].user \in Users
  BY FileStoreAssumption DEF Modify, LockInv, InUse
<1>2. /\ Readable /\ ((op[c].op = "Add") <=> (account(c) = NoAccount))
      /\ data' = [data EXCEPT ![c] = [content[file] EXCEPT ![op[c].user] = Modified(op[c], @)]]
  BY DEF Modify, Goto, LockInv, TypeOK, Writers
<1>3. content[file] \in UserMap
  BY <1>2 DEF Readable, LockInv, TypeOK
<1>4. account(c) \in Account \union {NoAccount}
  BY <1>1, <1>3 DEF account, UserMap
<1>5. Modified(op[c], account(c)) \in Account \union {NoAccount}
  BY <1>1, <1>2, <1>4, ModifiedType
<1>6. [content[file] EXCEPT ![op[c].user] = Modified(op[c], @)] \in UserMap
  BY <1>1, <1>3, <1>5 DEF account, UserMap
<1> QED BY <1>2, <1>6

\* Every variable keeps its type.
LEMMA NextType == LockInv /\ [Next]_vars => TypeOK'
<1> SUFFICES ASSUME LockInv, [Next]_vars PROVE TypeOK'
    OBVIOUS
<1> USE FileStoreAssumption DEF fs, Goto, Answer
<1> TypeOK
  BY DEF LockInv
<1>1. ASSUME NEW w \in Writers, Write(w) PROVE TypeOK'
  <2>1. CASE Truncate(w)
    <3>1. CASE WriteError(w) /\ data' = [data EXCEPT ![w] = NoData] /\ UNCHANGED <<tmp, content, fd>>
      BY <2>1, <3>1, WriteErrorType DEF Truncate, TypeOK
    <3>2. ASSUME NEW i \in IF tmp = NoInode THEN Unused ELSE {tmp},
                 tmp' = i, content' = [content EXCEPT ![i] = Partial],
                 fd' = [fd EXCEPT ![w] = i], pc' = [pc EXCEPT ![w] = "fill"],
                 UNCHANGED <<data, reply>>
          PROVE  TypeOK'
      <4>1. i \in Inodes
        BY <3>2 DEF Unused, TypeOK
      <4> QED BY <2>1, <3>2, <4>1 DEF Truncate, TypeOK, Phases
    <3> QED BY <2>1, <3>1, <3>2 DEF Truncate
  <2>2. CASE Fill(w)
    <3>1. data[w] \in UserMap
      BY <2>2 DEF Fill, LockInv, InUse
    <3>2. Overwritten(w) \in UserMap \union {Partial}
      BY <3>1 DEF Overwritten
    <3>3. content' \in [Inodes -> UserMap \union {Partial}]
      BY <2>2, <3>2 DEF Fill, TypeOK
    <3>4. /\ pc' \in [Writers -> Phases]
          /\ reply' \in [Calls -> {"none", "ok", "yes", "no", "notFound", "exists", "error"}]
      BY <2>2, WriteErrorType DEF Fill, TypeOK, Phases
    <3>5. data' \in [Writers -> UserMap \union {NoData}]
      BY <2>2 DEF Fill, TypeOK
    <3>6. fd' \in [Writers -> Inodes \union {NoInode}]
      BY <2>2 DEF Fill, TypeOK
    <3> QED BY <2>2, <3>3, <3>4, <3>5, <3>6 DEF Fill, TypeOK
  <2>3. CASE Rename(w)
    BY <2>3 DEF Rename, TypeOK, Phases
  <2>4. CASE RemoveTmp(w)
    BY <2>4, WriteErrorType DEF RemoveTmp, TypeOK
  <2> QED BY <1>1, <2>1, <2>2, <2>3, <2>4 DEF Write
<1>2. ASSUME NEW p \in Processes, Stat(p) \/ Crash(p) PROVE TypeOK'
  <2>1. CASE Stat(p)
    <3>1. NoUsers \in UserMap
      BY DEF NoUsers, UserMap
    <3>2. data' \in [Writers -> UserMap \union {NoData}]
      BY <2>1, <3>1 DEF Stat, TypeOK, Writers
    <3>3. pc' \in [Writers -> Phases]
      BY <2>1 DEF Stat, TypeOK, Phases
    <3> QED BY <2>1, <3>2, <3>3 DEF Stat, TypeOK
  <2>2. CASE Crash(p)
    BY <2>2 DEF Crash, TypeOK, Phases
  <2> QED BY <1>2, <2>1, <2>2
<1>3. ASSUME NEW c \in Calls, Call(c) \/ Query(c) \/ LockMutex(c) \/ Flock(c) \/ FlockError(c)
             \/ Unflock(c) \/ UnlockMutex(c)
      PROVE  TypeOK'
  <2> USE DEF TypeOK, Phases, Writers
  <2>1. CASE Call(c)
    <3>1. op' \in [Calls -> Ops \union {NoOp}]
      <4>1. OpsOf[c] \subseteq Ops
        BY DEF Ops
      <4> QED BY <2>1, <4>1 DEF Call
    <3> QED BY <2>1, <3>1 DEF Call
  <2>2. CASE Query(c)      BY <2>2 DEF Query
  <2>3. CASE LockMutex(c)
    <3>1. pc' \in [Writers -> Phases]
      BY <2>3 DEF LockMutex
    <3>2. reply' \in [Calls -> {"none", "ok", "yes", "no", "notFound", "exists", "error"}]
      BY <2>3 DEF LockMutex
    <3> QED BY <2>3, <3>1, <3>2 DEF LockMutex
  <2>4. CASE Flock(c)      BY <2>4 DEF Flock
  <2>5. CASE FlockError(c) BY <2>5 DEF FlockError
  <2>6. CASE Unflock(c) \/ UnlockMutex(c) BY <2>6 DEF Unflock, UnlockMutex
  <2> QED BY <1>3, <2>1, <2>2, <2>3, <2>4, <2>5, <2>6
<1>4. ASSUME NEW c \in Calls, Modify(c) PROVE TypeOK'
  <2>1. data' \in [Writers -> UserMap \union {NoData}]
    <3>1. CASE pc' = [pc EXCEPT ![c] = "truncate"]
      BY <1>4, <3>1, ModifyGivesUsers DEF TypeOK
    <3>2. CASE UNCHANGED data
      BY <3>2 DEF TypeOK
    <3> QED BY <1>4, <3>1, <3>2 DEF Modify
  <2>2. pc' \in [Writers -> Phases]
    BY <1>4 DEF Modify, TypeOK, Phases
  <2>3. reply' \in [Calls -> {"none", "ok", "yes", "no", "notFound", "exists", "error"}]
    BY <1>4 DEF Modify, TypeOK
  <2> QED BY <1>4, <2>1, <2>2, <2>3 DEF Modify, TypeOK
<1>5. CASE UNCHANGED vars
  BY <1>5 DEF vars, TypeOK
<1> QED BY <1>1, <1>2, <1>3, <1>4, <1>5 DEF Next, CallStep, Writers

-----------------------------------------------------------------------------
\* The rest of the invariant, one part at a time.

LEMMA NextPhaseOfWriter == LockInv /\ [Next]_vars => PhaseOfWriter'
<1> SUFFICES ASSUME LockInv, [Next]_vars PROVE PhaseOfWriter'
    OBVIOUS
<1> USE FileStoreAssumption DEF Goto, PhaseOfWriter, Writing
<1> PhaseOfWriter /\ TypeOK
  BY DEF LockInv
<1>1. ASSUME NEW w \in Writers, Write(w) PROVE PhaseOfWriter'
  BY <1>1 DEF Write, Truncate, Fill, Rename, RemoveTmp, WriteError, TypeOK, Writers
<1>2. ASSUME NEW p \in Processes, Stat(p) \/ Crash(p) PROVE PhaseOfWriter'
  BY <1>2 DEF Stat, Crash, TypeOK, Writers
<1>3. ASSUME NEW c \in Calls, \/ Call(c) \/ Query(c) \/ LockMutex(c) \/ Flock(c) \/ FlockError(c)
                               \/ Modify(c) \/ Unflock(c) \/ UnlockMutex(c)
      PROVE  PhaseOfWriter'
  BY <1>3 DEF Call, Query, LockMutex, Flock, FlockError, Modify, Unflock, UnlockMutex, TypeOK,
       Writers
<1>4. CASE UNCHANGED vars BY <1>4 DEF vars
<1> QED BY <1>1, <1>2, <1>3, <1>4 DEF Next, CallStep, Writers

\* The file lock passes from a call to no call, and from there to one.
LEMMA NextFlockHeld == LockInv /\ [Next]_vars => FlockHeld'
<1> SUFFICES ASSUME LockInv, [Next]_vars PROVE FlockHeld'
    OBVIOUS
<1> USE FileStoreAssumption DEF Goto, FlockHeld, Writing
<1> FlockHeld /\ PhaseOfWriter /\ TypeOK
  BY DEF LockInv
<1>1. ASSUME NEW w \in Writers, Write(w) PROVE FlockHeld'
  BY <1>1 DEF Write, Truncate, Fill, Rename, RemoveTmp, WriteError, TypeOK, Writers
<1>2. ASSUME NEW p \in Processes, Stat(p) \/ Crash(p) PROVE FlockHeld'
  BY <1>2 DEF Stat, Crash, TypeOK, Writers
<1>3. ASSUME NEW c \in Calls, \/ Call(c) \/ Query(c) \/ LockMutex(c) \/ Flock(c) \/ FlockError(c)
                               \/ Modify(c) \/ Unflock(c) \/ UnlockMutex(c)
      PROVE  FlockHeld'
  <2> USE DEF TypeOK, Writers
  <2>1. CASE Call(c) \/ Query(c) \/ LockMutex(c) \/ FlockError(c) \/ UnlockMutex(c)
    BY <2>1 DEF Call, Query, LockMutex, FlockError, UnlockMutex
  <2>2. CASE Flock(c)   BY <2>2 DEF Flock
  <2>3. CASE Modify(c)  BY <2>3 DEF Modify
  <2>4. CASE Unflock(c) BY <2>4 DEF Unflock
  <2> QED BY <1>3, <2>1, <2>2, <2>3, <2>4
<1>4. CASE UNCHANGED vars BY <1>4 DEF vars
<1> QED BY <1>1, <1>2, <1>3, <1>4 DEF Next, CallStep, Writers

LEMMA NextInUse == LockInv /\ [Next]_vars => InUse'
<1> SUFFICES ASSUME LockInv, [Next]_vars PROVE InUse'
    OBVIOUS
<1> USE FileStoreAssumption DEF Goto, InUse
<1> InUse /\ TypeOK /\ TypeOK'
  BY NextType DEF LockInv
<1>1. ASSUME NEW w \in Writers, Write(w) PROVE InUse'
  BY <1>1 DEF Write, Truncate, Fill, Rename, RemoveTmp, WriteError, TypeOK, Writers
<1>2. ASSUME NEW p \in Processes, Stat(p) \/ Crash(p) PROVE InUse'
  <2>1. CASE Stat(p)
    <3>1. NoUsers \in UserMap
      BY DEF NoUsers, UserMap
    <3> QED BY <2>1, <3>1 DEF Stat, TypeOK, Writers
  <2>2. CASE Crash(p) BY <2>2 DEF Crash, TypeOK, Writers
  <2> QED BY <1>2, <2>1, <2>2
<1>3. ASSUME NEW c \in Calls, \/ Call(c) \/ Query(c) \/ LockMutex(c) \/ Flock(c) \/ FlockError(c)
                               \/ Unflock(c) \/ UnlockMutex(c)
      PROVE  InUse'
  <2> USE DEF TypeOK, Writers
  <2>1. CASE Call(c)
    <3>1. OpsOf[c] \subseteq Ops
      BY DEF Ops
    <3> QED BY <2>1, <3>1 DEF Call
  <2>2. CASE ~Call(c)
    BY <1>3, <2>2 DEF Query, LockMutex, Flock, FlockError, Unflock, UnlockMutex
  <2> QED BY <2>1, <2>2
<1>4. ASSUME NEW c \in Calls, Modify(c) PROVE InUse'
  <2>1. pc'[c] = "truncate" => data'[c] \in UserMap
    <3>1. CASE pc' = [pc EXCEPT ![c] = "truncate"]
      <4>1. PICK users \in UserMap : data' = [data EXCEPT ![c] = users]
        BY <1>4, <3>1, ModifyGivesUsers
      <4> QED BY <4>1 DEF TypeOK, Writers
    <3>2. CASE pc' = [pc EXCEPT ![c] = "unflock"]
      BY <3>2 DEF TypeOK, Writers
    <3> QED BY <1>4, <3>1, <3>2 DEF Modify
  <2>2. /\ \A w \in Writers \ {c} : pc'[w] = pc[w] /\ data'[w] = data[w]
        /\ op' = op /\ pc'[c] \in {"truncate", "unflock"} /\ pc[c] = "modify"
    BY <1>4 DEF Modify, TypeOK, Writers
  <2>3. \A e \in Calls \ {c} : pc'[e] = pc[e]
    BY <2>2 DEF Writers
  <2> QED BY <2>1, <2>2, <2>3
<1>5. CASE UNCHANGED vars BY <1>5 DEF vars
<1> QED BY <1>1, <1>2, <1>3, <1>4, <1>5 DEF Next, CallStep, Writers

LEMMA NextLockInv == LockInv /\ [Next]_vars => LockInv'
BY NextType, NextPhaseOfWriter, NextFlockHeld, NextInUse DEF LockInv

\* Nobody else writes while w does.
LEMMA WritesAlone ==
  ASSUME StoreInv, NEW w \in Writers, NEW x \in Writers, Writing(w), Writing(x)
  PROVE  w = x
BY FileStoreAssumption DEF StoreInv, LockInv, OneWriter, FlockHeld, Writers

LEMMA NextOneWriter ==
  ASSUME ~ConcurrentStart, StoreInv, [Next]_vars
  PROVE  OneWriter'
<1> USE FileStoreAssumption DEF Goto, OneWriter, Writing, fs
<1> OneWriter /\ PhaseOfWriter /\ TypeOK
  BY DEF StoreInv, LockInv
<1>1. ASSUME NEW w \in Writers, Write(w) PROVE OneWriter'
  <2>1. CASE Truncate(w)
    BY <1>1, <2>1 DEF Truncate, WriteError, TypeOK, Writers, Unused
  <2>2. CASE Fill(w) BY <2>2 DEF Fill, WriteError, TypeOK, Writers
  <2>3. CASE Rename(w)
    <3>1. \A x \in Writers : Writing(x) => x = w
      BY <2>3, WritesAlone DEF Rename
    <3> QED BY <2>3, <3>1 DEF Rename, TypeOK, Writers
  <2>4. CASE RemoveTmp(w) BY <2>4 DEF RemoveTmp, WriteError, TypeOK, Writers
  <2> QED BY <1>1, <2>1, <2>2, <2>3, <2>4 DEF Write
<1>2. ASSUME NEW p \in Processes, Stat(p) \/ Crash(p) PROVE OneWriter'
  <2>1. CASE Stat(p)
    <3>1. CASE pc' = [pc EXCEPT ![p] = "truncate"] /\ file = NoInode
      <4>1. \A q \in Processes : ~Writing(q)
        BY <2>1, <3>1 DEF Stat, Creating
      <4> QED BY <2>1, <3>1, <4>1 DEF Stat, TypeOK, Writers
    <3>2. CASE pc' = [pc EXCEPT ![p] = "up"] \/ pc' = [pc EXCEPT ![p] = "failed"]
      BY <2>1, <3>2 DEF Stat, TypeOK, Writers
    <3> QED BY <2>1, <3>1, <3>2 DEF Stat
  <2>2. CASE Crash(p) BY <2>2 DEF Crash, TypeOK, Writers
  <2> QED BY <1>2, <2>1, <2>2
<1>3. ASSUME NEW c \in Calls, \/ Call(c) \/ Query(c) \/ LockMutex(c) \/ Flock(c) \/ FlockError(c)
                               \/ Modify(c) \/ Unflock(c) \/ UnlockMutex(c)
      PROVE  OneWriter'
  <2> USE DEF TypeOK, Writers
  <2>1. CASE Call(c) \/ Query(c) \/ LockMutex(c) \/ FlockError(c) \/ UnlockMutex(c)
    BY <2>1 DEF Call, Query, LockMutex, FlockError, UnlockMutex
  <2>2. CASE Flock(c) \/ Unflock(c) BY <2>2 DEF Flock, Unflock
  <2>3. CASE Modify(c) BY <2>3 DEF Modify, Readable
  <2> QED BY <1>3, <2>1, <2>2, <2>3
<1>4. CASE UNCHANGED vars BY <1>4 DEF vars
<1> QED BY <1>1, <1>2, <1>3, <1>4 DEF Next, CallStep, Writers

\* What is renamed is complete: the temporary file has it from end to end.
LEMMA NextLiveFileParses == StoreInv /\ [Next]_vars => LiveFileParses'
<1> SUFFICES ASSUME StoreInv, [Next]_vars PROVE LiveFileParses'
    OBVIOUS
<1> USE FileStoreAssumption DEF Goto, LiveFileParses, Readable, fs
<1> LiveFileParses /\ TypeOK /\ OneWriter
  BY DEF StoreInv, LockInv
<1>1. ASSUME NEW w \in Writers, Write(w) PROVE LiveFileParses'
  <2>1. CASE Truncate(w)
    BY <2>1 DEF Truncate, TypeOK, Unused, OneWriter
  <2>2. CASE Fill(w)
    <3>1. fd[w] = tmp /\ tmp # NoInode
      BY <2>2 DEF Fill, StoreInv, WritesNew
    <3> QED BY <2>2, <3>1 DEF Fill, TypeOK, OneWriter
  <2>3. CASE Rename(w)
    <3>1. content[tmp] \in UserMap
      BY <2>3, NewType DEF Rename, StoreInv, WritesNew, Prepared
    <3>2. CASE file' = tmp /\ tmp # NoInode
      <4>1. tmp \in Inodes /\ tmp # file
        BY <3>2 DEF TypeOK, OneWriter
      <4>2. content'[tmp] = content[tmp]
        BY <2>3, <3>2, <4>1 DEF Rename
      <4> QED BY <3>1, <3>2, <4>2
    <3>3. CASE UNCHANGED fs BY <3>3
    <3> QED BY <2>3, <3>2, <3>3 DEF Rename
  <2>4. CASE RemoveTmp(w) BY <2>4 DEF RemoveTmp
  <2> QED BY <1>1, <2>1, <2>2, <2>3, <2>4 DEF Write
<1>2. CASE UNCHANGED fs BY <1>2
<1>3. (\E w \in Writers : Write(w)) \/ UNCHANGED fs
  BY DEF Next, CallStep, Writers, Stat, Crash, Call, Query, LockMutex, Flock, FlockError, Modify,
       Unflock, UnlockMutex, vars
<1> QED BY <1>1, <1>2, <1>3

\* The change of a call stays what it is while neither it nor the file changes.
LEMMA NewStays ==
  ASSUME NEW w, w \in Calls => UNCHANGED <<file, content[file], op[w]>>
  PROVE  New(w)' = New(w)
BY DEF New

\* A writer that does not move keeps its promise when the files stay as they are.
LEMMA WritesNewStays ==
  ASSUME NEW w, WritesNew(w), UNCHANGED <<fs, pc[w], data[w], fd[w], op[w]>>
  PROVE  WritesNew(w)'
<1>1. UNCHANGED content[file]
  BY DEF fs
<1> QED BY <1>1, NewStays DEF WritesNew, fs

\* From the change that Modify decides on, through Truncate and Fill, to Rename: what
\* is renamed is the file with that change, as nobody else writes meanwhile.
LEMMA NextWritesNew ==
  ASSUME StoreInv, [Next]_vars
  PROVE  \A x \in Writers : WritesNew(x)'
<1> USE FileStoreAssumption DEF Goto, Writing, fs
<1> TypeOK /\ OneWriter /\ \A x \in Writers : WritesNew(x)
  BY DEF StoreInv, LockInv
<1>0. \A x \in Writers : ~Prepared(x)' => WritesNew(x)'
  BY DEF WritesNew, Prepared
<1>1. ASSUME NEW w \in Writers, Write(w) PROVE \A x \in Writers : WritesNew(x)'
  <2> USE DEF TypeOK
  <2>1. Writing(w)
    BY <1>1 DEF Write, Truncate, Fill, Rename, RemoveTmp
  <2>2. \A x \in Writers \ {w} : ~Prepared(x)'
    <3>1. \A x \in Writers \ {w} : ~Writing(x)
      BY <2>1, WritesAlone
    <3>2. \A x \in Writers \ {w} : pc'[x] = pc[x]
      BY <1>1 DEF Write, Truncate, Fill, Rename, RemoveTmp, WriteError
    <3> QED BY <3>1, <3>2 DEF Prepared
  <2>3. ASSUME NEW i \in IF tmp = NoInode THEN Unused ELSE {tmp}, Truncate(w),
               tmp' = i, content' = [content EXCEPT ![i] = Partial],
               fd' = [fd EXCEPT ![w] = i], pc' = [pc EXCEPT ![w] = "fill"], data' = data
        PROVE  WritesNew(w)'
    <3>1. i \in Inodes /\ i # file
      BY <2>3 DEF Unused, OneWriter
    <3>2. content'[i] = Partial /\ (file \in Inodes => content'[file] = content[file])
      BY <2>3, <3>1
    <3>3. New(w)' = New(w)
      BY <2>1, <2>3, <3>2, NewStays DEF Truncate, OneWriter
    <3>4. data[w] = New(w)
      BY <2>3 DEF Truncate, WritesNew
    <3>5. pc'[w] = "fill" /\ fd'[w] = i
      BY <2>3
    <3> QED BY <2>3, <3>1, <3>2, <3>3, <3>4, <3>5 DEF WritesNew
  <2>4. ASSUME Fill(w), pc'[w] = "rename" PROVE WritesNew(w)'
    <3>1. fd[w] = tmp /\ tmp # NoInode /\ content[tmp] = Partial /\ data[w] = New(w)
      BY <2>4 DEF Fill, WritesNew
    <3>2. content' = [content EXCEPT ![tmp] = New(w)]
      BY <2>4, <3>1 DEF Fill, Overwritten, WriteError
    <3>3. tmp \in Inodes /\ tmp # file
      BY <3>1 DEF OneWriter
    <3>4. content'[tmp] = New(w) /\ (file \in Inodes => content'[file] = content[file])
      BY <3>2, <3>3
    <3>5. New(w)' = New(w)
      BY <2>1, <2>4, <3>4, NewStays DEF Fill, OneWriter
    <3>6. tmp' = tmp /\ pc'[w] = "rename"
      BY <2>4 DEF Fill
    <3> QED BY <3>1, <3>4, <3>5, <3>6 DEF WritesNew
  <2>5. ASSUME ~Prepared(w)' PROVE WritesNew(w)'
    BY <1>0, <2>5
  <2>6. WritesNew(w)'
    BY <1>1, <2>3, <2>4, <2>5 DEF Write, Truncate, Fill, Rename, RemoveTmp, WriteError, Prepared
  <2> QED BY <1>0, <2>2, <2>6
<1>2. ASSUME NEW p \in Processes, Stat(p) \/ Crash(p) PROVE \A x \in Writers : WritesNew(x)'
  <2>1. CASE Stat(p)
    <3>1. \A x \in Writers \ {p} : WritesNew(x)'
      BY <2>1, WritesNewStays DEF Stat, TypeOK
    <3>2. CASE pc' = [pc EXCEPT ![p] = "truncate"] /\ data' = [data EXCEPT ![p] = NoUsers]
      <4>1. data'[p] = NoUsers /\ pc'[p] = "truncate" /\ p \notin Calls
        BY <3>2 DEF TypeOK, Writers
      <4> QED BY <3>1, <4>1 DEF WritesNew, New
    <3>3. CASE pc' = [pc EXCEPT ![p] = "up"] \/ pc' = [pc EXCEPT ![p] = "failed"]
      BY <1>0, <3>1, <3>3 DEF TypeOK, Prepared, Writers
    <3> QED BY <2>1, <3>2, <3>3 DEF Stat
  <2>2. CASE Crash(p)
    <3> DEFINE gone == {p} \union {c \in Calls : ProcessOf[c] = p}
    <3>1. \A x \in Writers \ gone : WritesNew(x)'
      BY <2>2, WritesNewStays DEF Crash, TypeOK
    <3>2. \A x \in Writers : x \in gone => ~Prepared(x)'
      BY <2>2 DEF Crash, Prepared
    <3> QED BY <1>0, <3>1, <3>2
  <2> QED BY <1>2, <2>1, <2>2
<1>3. ASSUME NEW c \in Calls, \/ Call(c) \/ Query(c) \/ LockMutex(c) \/ Flock(c) \/ FlockError(c)
                               \/ Unflock(c) \/ UnlockMutex(c)
      PROVE  \A x \in Writers : WritesNew(x)'
  <2>1. \A x \in Writers \ {c} : pc'[x] = pc[x] /\ (x \in Calls => op'[x] = op[x])
    BY <1>3 DEF Call, Query, LockMutex, Flock, FlockError, Unflock, UnlockMutex, TypeOK
  <2>2. UNCHANGED <<fs, data, fd>>
    BY <1>3 DEF Call, Query, LockMutex, Flock, FlockError, Unflock, UnlockMutex
  <2>3. \A x \in Writers \ {c} : WritesNew(x)'
    BY <2>1, <2>2 DEF WritesNew, New
  <2>4. ~Prepared(c)'
    BY <1>3 DEF Call, Query, LockMutex, Flock, FlockError, Unflock, UnlockMutex, Prepared, TypeOK,
         Writers
  <2> QED BY <1>0, <2>3, <2>4
<1>4. ASSUME NEW c \in Calls, Modify(c) PROVE \A x \in Writers : WritesNew(x)'
  <2>1. \A x \in Writers \ {c} : WritesNew(x)'
    BY <1>4, WritesNewStays DEF Modify, TypeOK
  <2>2. CASE pc' = [pc EXCEPT ![c] = "truncate"]
             /\ data' = [data EXCEPT ![c] = [content[file] EXCEPT ![op[c].user] = Modified(op[c], @)]]
    <3>1. data'[c] = New(c) /\ New(c)' = New(c) /\ pc'[c] = "truncate"
      BY <1>4, <2>2 DEF Modify, New, TypeOK, Writers
    <3> QED BY <2>1, <3>1 DEF WritesNew
  <2>3. CASE pc' = [pc EXCEPT ![c] = "unflock"]
    BY <1>0, <2>1, <2>3 DEF TypeOK, Prepared, Writers
  <2> QED BY <1>4, <2>2, <2>3 DEF Modify
<1>5. CASE UNCHANGED vars
  BY <1>5, WritesNewStays DEF vars
<1> QED BY <1>1, <1>2, <1>3, <1>4, <1>5 DEF Next, CallStep, Writers

\* A call that does not move, and is not in the way of one that writes, stays as it is.
LEMMA CallFitsStays ==
  ASSUME NEW c, CallFits(c), UNCHANGED <<pc[c], op[c], reply[c]>>,
         Writing(c) => UNCHANGED <<file, content[file]>>
  PROVE  CallFits(c)'
BY DEF CallFits, Writing, HasMutex, Applies, account

LEMMA NextCallFits ==
  ASSUME StoreInv, [Next]_vars
  PROVE  \A x \in Calls : CallFits(x)'
<1> USE FileStoreAssumption DEF Goto, Answer, Writing, HasMutex, fs
<1> TypeOK /\ OneWriter /\ \A x \in Calls : CallFits(x)
  BY DEF StoreInv, LockInv
<1>1. ASSUME NEW w \in Writers, Write(w) PROVE \A x \in Calls : CallFits(x)'
  <2> USE DEF TypeOK
  <2>1. Writing(w)
    BY <1>1 DEF Write, Truncate, Fill, Rename, RemoveTmp
  <2>2. \A x \in Calls \ {w} : CallFits(x)'
    <3>1. \A x \in Calls \ {w} : ~Writing(x)
      BY <2>1, WritesAlone DEF Writers
    <3>2. \A x \in Calls \ {w} : UNCHANGED <<pc[x], op[x], reply[x]>>
      BY <1>1 DEF Write, Truncate, Fill, Rename, RemoveTmp, WriteError, Writers
    <3> QED BY <3>1, <3>2, CallFitsStays
  <2>3. ASSUME w \in Calls PROVE CallFits(w)'
    <3>1. CASE ~Writing(w)'
      BY <1>1, <2>1, <2>3, <3>1 DEF Write, Truncate, Fill, Rename, RemoveTmp, WriteError, CallFits
    <3>2. CASE Writing(w)'
      <4>1. UNCHANGED <<file, content[file]>>
        <5>1. CASE Truncate(w)
          <6>1. file \in Inodes
            BY <2>1, <2>3 DEF OneWriter
          <6> QED BY <2>3, <3>2, <5>1, <6>1 DEF Truncate, WriteError, Unused, OneWriter
        <5>2. CASE Fill(w)
          <6>1. fd[w] = tmp /\ tmp # NoInode
            BY <5>2 DEF Fill, StoreInv, WritesNew
          <6>2. file \in Inodes /\ fd[w] # file
            BY <2>1, <2>3, <6>1 DEF OneWriter
          <6>3. content' = [content EXCEPT ![fd[w]] = Overwritten(w)]
            BY <2>3, <3>2, <5>2 DEF Fill, WriteError, Writers
          <6> QED BY <5>2, <6>2, <6>3 DEF Fill
        <5>3. CASE Rename(w)
          BY <2>3, <3>2, <5>3 DEF Rename
        <5>4. CASE RemoveTmp(w) BY <5>4 DEF RemoveTmp
        <5> QED BY <1>1, <5>1, <5>2, <5>3, <5>4 DEF Write
      <4>2. UNCHANGED <<op[w], reply[w]>>
        BY <1>1, <2>3, <3>2 DEF Write, Truncate, Fill, Rename, RemoveTmp, WriteError, Writers
      <4>3. Applies(w) /\ op[w].op \notin Queries /\ reply[w] = "none"
        BY <2>1, <2>3 DEF CallFits
      <4>4. Applies(w)'
        BY <4>1, <4>2, <4>3 DEF Applies, account
      <4> QED BY <3>2, <4>2, <4>3, <4>4 DEF CallFits
    <3> QED BY <3>1, <3>2
  <2> QED BY <2>2, <2>3
<1>2. ASSUME NEW p \in Processes, Stat(p) \/ Crash(p) PROVE \A x \in Calls : CallFits(x)'
  <2>1. CASE Stat(p)
    BY <2>1, CallFitsStays DEF Stat, TypeOK, Writers
  <2>2. CASE Crash(p)
    <3>1. \A x \in Calls : pc'[x] \in {pc[x], "dead"}
      BY <2>2 DEF Crash, Writers
    <3> QED BY <2>2, <3>1 DEF Crash, CallFits, Applies, account
  <2> QED BY <1>2, <2>1, <2>2
<1>3. ASSUME NEW c \in Calls, \/ Call(c) \/ Query(c) \/ LockMutex(c) \/ Flock(c) \/ FlockError(c)
                               \/ Modify(c) \/ Unflock(c) \/ UnlockMutex(c)
      PROVE  \A x \in Calls : CallFits(x)'
  <2> USE DEF TypeOK, Writers
  <2>1. \A x \in Calls \ {c} : CallFits(x)'
    <3>1. \A x \in Calls \ {c} : UNCHANGED <<pc[x], op[x], reply[x]>>
      BY <1>3 DEF Call, Query, LockMutex, Flock, FlockError, Modify, Unflock, UnlockMutex
    <3>2. UNCHANGED fs
      BY <1>3 DEF Call, Query, LockMutex, Flock, FlockError, Modify, Unflock, UnlockMutex
    <3> QED BY <3>1, <3>2, CallFitsStays
  <2>2. CASE Call(c)
    <3>1. pc'[c] = "called" /\ reply'[c] = "none"
      BY <2>2 DEF Call, CallFits
    <3> QED BY <2>1, <3>1 DEF CallFits
  <2>3. CASE Query(c) BY <2>1, <2>3 DEF Query, CallFits
  <2>4. CASE LockMutex(c) \/ FlockError(c)
    BY <2>1, <2>4 DEF LockMutex, FlockError, CallFits
  <2>5. CASE Flock(c) \/ Unflock(c) \/ UnlockMutex(c)
    BY <2>1, <2>5 DEF Flock, Unflock, UnlockMutex, CallFits
  <2>6. CASE Modify(c)
    <3>1. CASE pc' = [pc EXCEPT ![c] = "truncate"]
      <4>1. Applies(c)' /\ reply' = reply /\ op' = op
        BY <2>6, <3>1 DEF Modify, Applies, account
      <4> QED BY <2>1, <2>6, <3>1, <4>1 DEF Modify, CallFits
    <3>2. CASE pc' = [pc EXCEPT ![c] = "unflock"]
      BY <2>1, <2>6, <3>2 DEF Modify, CallFits
    <3> QED BY <2>6, <3>1, <3>2 DEF Modify
  <2> QED BY <1>3, <2>2, <2>3, <2>4, <2>5, <2>6
<1>4. CASE UNCHANGED vars
  BY <1>4, CallFitsStays DEF vars
<1> QED BY <1>1, <1>2, <1>3, <1>4 DEF Next, CallStep, Writers
-----------------------------------------------------------------------------
\* The locks are kept in order even when processes start at once.
THEOREM LockInvariance == Spec => []LockInv
<1>1. Init => LockInv
  BY InitStoreInv DEF StoreInv
<1> QED BY <1>1, NextLockInv, PTL DEF Spec

\* Every variable keeps its type.
THEOREM FileStoreType == Spec => []TypeOK
<1>1. LockInv => TypeOK
  BY DEF LockInv
<1> QED BY <1>1, LockInvariance, PTL

\* Two calls, of whatever processes, are never both between read and replacement:
\* neither an error path nor a crash lets two of them in.
THEOREM UpdatesAreExclusive == Spec => []OneUpdate
<1>1. LockInv => OneUpdate
  BY DEF LockInv, FlockHeld, Writing, OneUpdate
<1> QED BY <1>1, LockInvariance, PTL

\* When processes start one after the other, the whole invariant holds for ever.
THEOREM StoreInvariance ==
  ASSUME ~ConcurrentStart
  PROVE  Spec => []StoreInv
<1>1. StoreInv /\ [Next]_vars => StoreInv'
  BY NextLockInv, NextOneWriter, NextLiveFileParses, NextWritesNew, NextCallFits DEF StoreInv
<1> QED BY <1>1, InitStoreInv, PTL DEF Spec

\* users.json parses whenever it is there, through crashes and failed writes.
THEOREM FileIsWhole ==
  ASSUME ~ConcurrentStart
  PROVE  Spec => []LiveFileParses
<1>1. StoreInv => LiveFileParses
  BY DEF StoreInv
<1> QED BY <1>1, StoreInvariance, PTL

\* No call takes the update of another user with it.
THEOREM NoUpdateIsLost ==
  ASSUME ~ConcurrentStart
  PROVE  Spec => []UpdatesOwnUser
<1>1. StoreInv => UpdatesOwnUser
  <2> SUFFICES ASSUME StoreInv, NEW c \in Calls, Prepared(c)
               PROVE  /\ Readable
                      /\ pc[c] = "rename" => tmp # NoInode
                      /\ \E a \in Account \union {NoAccount} :
                           Proposed(c) = [content[file] EXCEPT ![op[c].user] = a]
    BY DEF UpdatesOwnUser, Prepared
  <2>1. Readable /\ WritesNew(c)
    BY DEF StoreInv, OneWriter, LiveFileParses, Prepared, Writing, Writers
  <2>2. op[c] \in Ops /\ op[c].user \in Users /\ Applies(c)
    BY FileStoreAssumption DEF StoreInv, LockInv, InUse, CallFits, Prepared, Writing
  <2>3. content[file] \in UserMap
    BY <2>1 DEF Readable, StoreInv, LockInv, TypeOK
  <2>4. Modified(op[c], account(c)) \in Account \union {NoAccount}
    BY <2>2, <2>3, ModifiedType DEF Applies, account, UserMap
  <2>5. Proposed(c) = [content[file] EXCEPT ![op[c].user] = Modified(op[c], account(c))]
    BY <2>1 DEF Proposed, WritesNew, New, Prepared, account
  <2> QED BY <2>1, <2>4, <2>5 DEF WritesNew
<1> QED BY <1>1, StoreInvariance, PTL

-----------------------------------------------------------------------------
(***************************************************************************)
(* The locks are given back.                                               *)
(***************************************************************************)
\* Only a call between the two system calls has the file lock, also after a crash.
LEMMA NextFlockInUse ==
  ASSUME LockInv, LocksInUse, [Next]_vars
  PROVE  flock' # NoCall =>
           pc'[flock'] \in {"modify", "truncate", "fill", "rename", "remove", "unflock"}
<1> DEFINE Held == {"modify", "truncate", "fill", "rename", "remove", "unflock"}
           Goal == flock' # NoCall => pc'[flock'] \in Held
<1> USE FileStoreAssumption DEF Goto
<1> PhaseOfWriter /\ FlockHeld /\ TypeOK /\ (flock # NoCall => flock \in Calls /\ pc[flock] \in Held)
  BY DEF LockInv, LocksInUse, TypeOK
<1>1. ASSUME NEW w \in Writers, Write(w) PROVE Goal
  BY <1>1 DEF Write, Truncate, Fill, Rename, RemoveTmp, WriteError, TypeOK, Writers
<1>2. ASSUME NEW p \in Processes, Stat(p) \/ Crash(p) PROVE Goal
  BY <1>2 DEF Stat, Crash, TypeOK, Writers
<1>3. ASSUME NEW c \in Calls, \/ Call(c) \/ Query(c) \/ LockMutex(c) \/ Flock(c) \/ FlockError(c)
                               \/ Modify(c) \/ Unflock(c) \/ UnlockMutex(c)
      PROVE  Goal
  BY <1>3 DEF Call, Query, LockMutex, Flock, FlockError, Modify, Unflock, UnlockMutex, TypeOK,
       Writers
<1>4. CASE UNCHANGED vars BY <1>4 DEF vars
<1> QED BY <1>1, <1>2, <1>3, <1>4 DEF Next, CallStep, Writers

\* A process lets one call at a time past its mutex.
LEMMA NextOneMutex ==
  ASSUME LockInv, LocksInUse, [Next]_vars, NEW c \in Calls, NEW e \in Calls,
         ProcessOf[c] = ProcessOf[e], HasMutex(c)', HasMutex(e)'
  PROVE  c = e
<1> USE FileStoreAssumption DEF Goto, HasMutex
<1> PhaseOfWriter /\ TypeOK /\ (HasMutex(c) /\ HasMutex(e) => c = e)
  BY DEF LockInv, LocksInUse
<1>1. ASSUME NEW w \in Writers, Write(w) PROVE c = e
  BY <1>1 DEF Write, Truncate, Fill, Rename, RemoveTmp, WriteError, TypeOK, Writers
<1>2. ASSUME NEW p \in Processes, Stat(p) \/ Crash(p) PROVE c = e
  BY <1>2 DEF Stat, Crash, TypeOK, Writers
<1>3. ASSUME NEW d \in Calls, \/ Call(d) \/ Query(d) \/ Flock(d) \/ FlockError(d)
                               \/ Modify(d) \/ Unflock(d) \/ UnlockMutex(d)
      PROVE  c = e
  BY <1>3 DEF Call, Query, Flock, FlockError, Modify, Unflock, UnlockMutex, TypeOK, Writers
<1>4. ASSUME NEW d \in Calls, LockMutex(d) PROVE c = e
  BY <1>4 DEF LockMutex, MutexFree, TypeOK, Writers
<1>5. CASE UNCHANGED vars BY <1>5 DEF vars
<1> QED BY <1>1, <1>2, <1>3, <1>4, <1>5 DEF Next, CallStep, Writers

\* Whatever fails and whoever dies, for any number of processes and calls and also when
\* processes start at once: a lock that is held is held by a call that goes on, so that
\* who waits for a mutex waits for the file lock at most, and who has that for nobody.
THEOREM LocksAreInUse == Spec => []LocksInUse
<1>1. Init => LockInv /\ LocksInUse
  BY InitStoreInv, FileStoreAssumption DEF StoreInv, Init, LocksInUse, HasMutex, Writers
<1>2. LockInv /\ LocksInUse /\ [Next]_vars => (LockInv /\ LocksInUse)'
  <2> SUFFICES ASSUME LockInv, LocksInUse, [Next]_vars PROVE LockInv' /\ LocksInUse'
      OBVIOUS
  <2>1. LockInv'
    BY NextLockInv
  <2> QED BY <2>1, NextFlockInUse, NextOneMutex DEF LocksInUse
<1> QED BY <1>1, <1>2, PTL DEF Spec
=============================================================================
