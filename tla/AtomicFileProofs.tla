-------------------------- MODULE AtomicFileProofs --------------------------
(***************************************************************************)
(* When no two writers share a temporary name, the file is never torn and  *)
(* the procedure implements SaveRegister: for any number of writers, any   *)
(* interleaving, failed writes and crashes.                                *)
(***************************************************************************)
EXTENDS AtomicFile, TLAPS

\* What the theorems assume of the code: one temporary name per writer.
OwnTmp == \A v, w \in Writers : TmpOf[v] = TmpOf[w] => v = w

USE DEF NoInode, Name

\* A writer holds a descriptor and a value exactly while it saves.
Busy ==
  \A w \in Writers :
    IF pc[w] = "idle" THEN fd[w] = 0 /\ val[w] = None
                      ELSE fd[w] \in Inodes /\ val[w] \in Values

LEMMA BusyInductive ==
  /\ Init => TypeOK /\ Busy
  /\ TypeOK /\ Busy /\ [Next]_vars => TypeOK' /\ Busy'
<1>1. Init => TypeOK /\ Busy
  BY DEF Init, TypeOK, Busy
<1>2. ASSUME TypeOK, Busy, [Next]_vars PROVE TypeOK' /\ Busy'
  <2> USE FileAssumption DEF TypeOK, Busy
  <2>1. ASSUME NEW w \in Writers, NEW v \in Values, OpenTmp(w, v)
        PROVE TypeOK' /\ Busy'
    BY <1>2, <2>1 DEF OpenTmp
  <2>2. ASSUME NEW w \in Writers, WriteTmp(w) PROVE TypeOK' /\ Busy'
    BY <1>2, <2>2 DEF WriteTmp
  <2>3. ASSUME NEW w \in Writers, WriteFails(w) PROVE TypeOK' /\ Busy'
    BY <1>2, <2>3 DEF WriteFails, Close
  <2>4. ASSUME NEW w \in Writers, Rename(w) PROVE TypeOK' /\ Busy'
    BY <1>2, <2>4 DEF Rename, Close
  <2>5. ASSUME NEW w \in Writers, RenameFails(w) PROVE TypeOK' /\ Busy'
    BY <1>2, <2>5 DEF RenameFails, Close
  <2>6. CASE Crash
    BY <1>2, <2>6 DEF Crash
  <2>7. CASE UNCHANGED vars
    BY <1>2, <2>7 DEF vars
  <2> QED
    BY <1>2, <2>1, <2>2, <2>3, <2>4, <2>5, <2>6, <2>7 DEF Next
<1> QED
  BY <1>1, <1>2

\* Every variable keeps its type, shared temporary names or not.
THEOREM TypeCorrect == Spec => [](TypeOK /\ Busy)
BY BusyInductive, PTL DEF Spec
-----------------------------------------------------------------------------
(* With names of their own, a writer's descriptor is the inode its name    *)
(* stands for, no other name leads to that inode, and the target's inode   *)
(* is one nobody can still write to.                                       *)
Exclusive ==
  /\ \A w \in Writers : pc[w] # "idle" => fd[w] = tmp[TmpOf[w]]
  /\ \A t \in TmpNames : tmp[t] # 0 => tmp[t] # target
  /\ \A t, u \in TmpNames : tmp[t] # 0 /\ tmp[t] = tmp[u] => t = u
  /\ \A w \in Writers : pc[w] = "written" => content[fd[w]] = val[w]
  /\ target # 0 => content[target] \in Values

LEMMA ExclusiveInductive ==
  ASSUME OwnTmp, TypeOK, Busy, Exclusive, [Next]_vars
  PROVE  Exclusive'
<1> USE FileAssumption, OwnTmp DEF OwnTmp, TypeOK, Busy, Exclusive
<1>1. ASSUME NEW w \in Writers, NEW v \in Values, OpenTmp(w, v)
      PROVE Exclusive'
  <2>1. PICK i \in Inodes :
          /\ Opened(TmpOf[w], i)
          /\ tmp' = [tmp EXCEPT ![TmpOf[w]] = i]
          /\ content' = [content EXCEPT ![i] = Torn]
          /\ fd' = [fd EXCEPT ![w] = i]
    BY <1>1 DEF OpenTmp
  <2>2. i # target /\ i # 0
    BY <2>1 DEF Opened, Unused
  <2>3. \A t \in TmpNames : t # TmpOf[w] => tmp[t] # i
    BY <2>1 DEF Opened, Unused
  <2>4. \A x \in Writers : x # w /\ pc[x] # "idle" => fd[x] # i
    BY <2>2, <2>3
  <2>5. pc' = [pc EXCEPT ![w] = "open"] /\ val' = [val EXCEPT ![w] = v]
        /\ target' = target
    BY <1>1 DEF OpenTmp
  <2> QED
    BY <2>1, <2>2, <2>3, <2>4, <2>5
<1>2. ASSUME NEW w \in Writers, WriteTmp(w) PROVE Exclusive'
  <2>1. fd[w] # target
    BY <1>2 DEF WriteTmp
  <2>2. \A x \in Writers : x # w /\ pc[x] # "idle" => fd[x] # fd[w]
    BY <1>2 DEF WriteTmp
  <2> QED
    BY <1>2, <2>1, <2>2 DEF WriteTmp
<1>3. ASSUME NEW w \in Writers, WriteFails(w) \/ RenameFails(w)
      PROVE Exclusive'
  BY <1>3 DEF WriteFails, RenameFails, Close
<1>4. ASSUME NEW w \in Writers, Rename(w) PROVE Exclusive'
  <2>1. content[tmp[TmpOf[w]]] \in Values
    BY <1>4 DEF Rename
  <2>2. \A x \in Writers : x # w => TmpOf[x] # TmpOf[w]
    OBVIOUS
  <2> QED
    BY <1>4, <2>1, <2>2 DEF Rename, Close
<1>5. CASE Crash
  BY <1>5 DEF Crash
<1>6. CASE UNCHANGED vars
  BY <1>6 DEF vars
<1> QED
  BY <1>1, <1>2, <1>3, <1>4, <1>5, <1>6 DEF Next

\* The file is always whole when every writer has a temporary name of its own.
THEOREM WholeFile == ASSUME OwnTmp PROVE Spec => []NeverTorn
<1>1. Init => Exclusive
  BY DEF Init, Exclusive
<1>2. TypeOK /\ Busy /\ Exclusive /\ [Next]_vars => Exclusive'
  BY OwnTmp, ExclusiveInductive
<1>3. Exclusive => NeverTorn
  BY FileAssumption DEF Exclusive, NeverTorn
<1> QED
  BY <1>1, <1>2, <1>3, TypeCorrect, PTL DEF Spec

\* And every save is atomic: the procedure implements SaveRegister.
THEOREM ImplementsRegister == ASSUME OwnTmp PROVE Spec => SavesAtomic
<1> USE DEF ReadValue
<1>1. Init => Register!RegInit
  BY DEF Init, Register!RegInit
<1>2. TypeOK /\ Busy /\ Exclusive /\ [Next]_vars
        => [Register!RegNext]_<<ReadValue, val>>
  <2> SUFFICES ASSUME TypeOK, Busy, Exclusive, [Next]_vars
               PROVE  [Register!RegNext]_<<ReadValue, val>>
    OBVIOUS
  <2> USE FileAssumption, OwnTmp DEF OwnTmp, TypeOK, Busy, Exclusive
  <2>1. ASSUME NEW w \in Writers, NEW v \in Values, OpenTmp(w, v)
        PROVE Register!Begin(w, v)
    <3>1. PICK i \in Inodes :
            Opened(TmpOf[w], i) /\ content' = [content EXCEPT ![i] = Torn]
      BY <2>1 DEF OpenTmp
    <3>2. i # target
      BY <3>1 DEF Opened, Unused
    <3> QED
      BY <2>1, <3>1, <3>2 DEF OpenTmp, Register!Begin
  <2>2. ASSUME NEW w \in Writers, WriteTmp(w) PROVE UNCHANGED <<ReadValue, val>>
    <3>1. fd[w] # target
      BY <2>2 DEF WriteTmp
    <3> QED
      BY <2>2, <3>1 DEF WriteTmp
  <2>3. ASSUME NEW w \in Writers, WriteFails(w) \/ RenameFails(w)
        PROVE Register!Abort(w)
    BY <2>3 DEF WriteFails, RenameFails, Close, Register!Abort
  <2>4. ASSUME NEW w \in Writers, Rename(w) PROVE Register!Commit(w)
    BY <2>4 DEF Rename, Close, Register!Commit
  <2>5. ASSUME Crash PROVE Register!Die
    BY <2>5 DEF Crash, Register!Die
  <2>6. CASE UNCHANGED vars
    BY <2>6 DEF vars
  <2> QED
    BY <2>1, <2>2, <2>3, <2>4, <2>5, <2>6 DEF Next, Register!RegNext
<1>3. Init => Exclusive
  BY DEF Init, Exclusive
<1>4. TypeOK /\ Busy /\ Exclusive /\ [Next]_vars => Exclusive'
  BY OwnTmp, ExclusiveInductive
<1> QED
  BY <1>1, <1>2, <1>3, <1>4, TypeCorrect, PTL
     DEF Spec, SavesAtomic, Register!RegSpec

\* In particular an invalid config never replaces a working one
\* (apply.go:183-184): the target only ever moves on to a file that is written,
\* which nobody can open any more.
THEOREM WorkingConfigStays == ASSUME OwnTmp PROVE Spec => InvalidNeverReplaces
<1>1. Init => Exclusive
  BY DEF Init, Exclusive
<1>2. TypeOK /\ Busy /\ Exclusive /\ [Next]_vars => Exclusive'
  BY OwnTmp, ExclusiveInductive
<1>3. TypeOK /\ Busy /\ Exclusive /\ Exclusive' /\ [Next]_vars
        => (ReadValue \in Values => ReadValue' \in Values)
  <2> SUFFICES ASSUME TypeOK, Exclusive, Exclusive', [Next]_vars, ReadValue \in Values
               PROVE  ReadValue' \in Values
    OBVIOUS
  <2>1. target # 0
    BY FileAssumption DEF ReadValue
  <2>2. target' # 0
    BY <2>1 DEF Next, OpenTmp, WriteTmp, WriteFails, Rename, RenameFails, Crash, vars
  <2> QED
    BY <2>2 DEF Exclusive, ReadValue
<1> QED
  BY <1>1, <1>2, <1>3, TypeCorrect, PTL DEF Spec, InvalidNeverReplaces
=============================================================================
