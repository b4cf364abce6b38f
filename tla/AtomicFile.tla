----------------------------- MODULE AtomicFile -----------------------------
(***************************************************************************)
(* Saving a file: write a temporary one beside it, rename it over the      *)
(* target.  stack.Save, saveJSON in internal/usage, SaveState in           *)
(* internal/failover and internal/xrayinstall and the apply path of        *)
(* internal/xray/apply.go are this procedure; each derives the temporary   *)
(* name from the target alone, so two saves by the same function share it, *)
(* and nothing serialises them.                                            *)
(*                                                                         *)
(* A file is an inode: os.WriteFile opens and truncates the one the        *)
(* temporary name stands for, or creates one, and writes through its       *)
(* descriptor; os.Rename moves the name.  Simplifications: the write is    *)
(* one step after the truncation; only the daemon dies, never the machine, *)
(* so what was written stays written.                                      *)
(***************************************************************************)
EXTENDS Naturals

CONSTANTS
  Writers,    \* goroutines that save the file
  TmpNames,   \* temporary names beside it
  TmpOf,      \* the name each writer uses
  Values,     \* contents to save
  None,       \* no value
  Torn,       \* the content of a file truncated and not yet written
  Inodes      \* inodes of the directory

ASSUME FileAssumption ==
  /\ TmpOf \in [Writers -> TmpNames]
  /\ None \notin Values
  /\ Torn \notin Values
  /\ None # Torn
  /\ Inodes \subseteq Nat \ {0}

VARIABLES
  target,    \* the inode the target name stands for, 0 when absent
  tmp,       \* the inode each temporary name stands for
  content,   \* the content of each inode
  pc,        \* where each save is
  fd,        \* the inode a save has open
  val        \* the value it is saving

vars == <<target, tmp, content, pc, fd, val>>

NoInode == 0
Name == Inodes \cup {NoInode}

TypeOK ==
  /\ target \in Name
  /\ tmp \in [TmpNames -> Name]
  /\ content \in [Inodes -> Values \cup {Torn}]
  /\ pc \in [Writers -> {"idle", "open", "written"}]
  /\ fd \in [Writers -> Name]
  /\ val \in [Writers -> Values \cup {None}]

Init ==
  /\ target = NoInode
  /\ tmp = [t \in TmpNames |-> NoInode]
  /\ content = [i \in Inodes |-> Torn]
  /\ pc = [w \in Writers |-> "idle"]
  /\ fd = [w \in Writers |-> NoInode]
  /\ val = [w \in Writers |-> None]

\* An inode that no name and no descriptor refers to.
Unused(i) ==
  /\ target # i
  /\ \A t \in TmpNames : tmp[t] # i
  /\ \A w \in Writers : fd[w] # i

\* The inode that opening a name for writing yields.
Opened(t, i) == IF tmp[t] = NoInode THEN Unused(i) ELSE i = tmp[t]

Close(w) ==
  /\ pc' = [pc EXCEPT ![w] = "idle"]
  /\ fd' = [fd EXCEPT ![w] = NoInode]
  /\ val' = [val EXCEPT ![w] = None]

\* os.WriteFile opens the temporary name: created, or truncated when an
\* earlier save left it behind or another one is using it.
OpenTmp(w, v) ==
  /\ pc[w] = "idle"
  /\ \E i \in Inodes :
       /\ Opened(TmpOf[w], i)
       /\ tmp' = [tmp EXCEPT ![TmpOf[w]] = i]
       /\ content' = [content EXCEPT ![i] = Torn]
       /\ fd' = [fd EXCEPT ![w] = i]
  /\ pc' = [pc EXCEPT ![w] = "open"]
  /\ val' = [val EXCEPT ![w] = v]
  /\ UNCHANGED target

MutantWriteTmp(w) ==
  /\ pc[w] = "open"
  /\ val' = [val EXCEPT ![w] = None]
  /\ content' = [content EXCEPT ![fd[w]] = val'[w]]
  /\ pc' = [pc EXCEPT ![w] = "written"]
  /\ UNCHANGED <<target, tmp, fd>>

\* os.WriteFile writes the bytes and closes the descriptor.
WriteTmp(w) ==
  /\ pc[w] = "open"
  /\ content' = [content EXCEPT ![fd[w]] = val[w]]
  /\ pc' = [pc EXCEPT ![w] = "written"]
  /\ UNCHANGED <<target, tmp, fd, val>>

\* The write fails (a full disk): the save returns, the temporary file stays.
WriteFails(w) ==
  /\ pc[w] = "open"
  /\ Close(w)
  /\ UNCHANGED <<target, tmp, content>>

MutantRename(w) ==
  /\ pc[w] \in {"open", "written"}
  /\ tmp[TmpOf[w]] # NoInode
  /\ target' = tmp[TmpOf[w]]
  /\ tmp' = [tmp EXCEPT ![TmpOf[w]] = NoInode]
  /\ Close(w)
  /\ UNCHANGED content

\* os.Rename moves whatever the temporary name stands for now.
Rename(w) ==
  /\ pc[w] = "written"
  /\ tmp[TmpOf[w]] # NoInode
  /\ target' = tmp[TmpOf[w]]
  /\ tmp' = [tmp EXCEPT ![TmpOf[w]] = NoInode]
  /\ Close(w)
  /\ UNCHANGED content

\* os.Rename fails: the name is gone, or the system refuses.
RenameFails(w) ==
  /\ pc[w] = "written"
  /\ Close(w)
  /\ UNCHANGED <<target, tmp, content>>

MutantCrash ==
  /\ pc' = [w \in Writers |-> "idle"]
  /\ fd' = [w \in Writers |-> NoInode]
  /\ val' = [w \in Writers |-> None]
  /\ \E t \in TmpNames :
       /\ tmp[t] # NoInode
       /\ target' = tmp[t]
       /\ tmp' = [tmp EXCEPT ![t] = NoInode]
  /\ UNCHANGED content

\* The daemon dies and restarts: saves vanish, files stay as they are.
Crash ==
  /\ pc' = [w \in Writers |-> "idle"]
  /\ fd' = [w \in Writers |-> NoInode]
  /\ val' = [w \in Writers |-> None]
  /\ UNCHANGED <<target, tmp, content>>

Next ==
  \/ \E w \in Writers, v \in Values : OpenTmp(w, v)
  \/ \E w \in Writers :
       WriteTmp(w) \/ WriteFails(w) \/ Rename(w) \/ RenameFails(w)
  \/ Crash

Spec == Init /\ [][Next]_vars
-----------------------------------------------------------------------------
(* Properties.                                                             *)

\* Whoever reads the file finds a whole value, at any moment, across crashes
\* and failed writes (stack.Save, lines 611-627).
NeverTorn == target # NoInode => content[target] # Torn

\* The value a reader of the file finds.
ReadValue == IF target = NoInode THEN None ELSE content[target]

\* Saves are atomic: every change of the file is one writer's save, complete
\* and with the value it meant.
Register == INSTANCE SaveRegister WITH value <- ReadValue, pending <- val
SavesAtomic == Register!RegSpec

\* apply.go:183-184: "an invalid config never replaces a working one".  Once the
\* live file holds a tested config, every later content is a tested one.
InvalidNeverReplaces == [][(ReadValue \in Values) => ReadValue' \in Values]_vars
=============================================================================
