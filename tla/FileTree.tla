------------------------------ MODULE FileTree ------------------------------
(***************************************************************************)
(* cyber/common/file: Copy(), EnsureDirectory() and RemoveAllFiles(), each *)
(* a sequence of system calls on a tree other threads change as well.  A   *)
(* path is a sequence of names; the tree is a function of the paths there  *)
(* may be, the kernel's calls (mkdir, open, unlink) are external and do    *)
(* not fail for want of rights.  Each thread makes one call; no call       *)
(* writes below what another one copies.                                   *)
(***************************************************************************)
EXTENDS Integers, Sequences, FiniteSets, SequencesExt

CONSTANTS
  FileThreads,
  Trees,          \* the trees there may be at the start
  Calls,          \* the calls: [op, from, to]
  MaxShort        \* bound: writes that fall short

VARIABLES
  tree,           \* path -> "none", "dir", "empty" (a file, truncated) or content
  source,         \* history: the tree at the start
  caller          \* each thread: its call, where it is, frames of CopyDir, the
                  \* files it has open, path of EnsureDirectory, the result;
                  \* history: a write of it fell short

fileVars == <<tree, source, caller>>

Paths == DOMAIN tree
PathExists(p) == tree[p] # "none"
DirectoryExists(p) == tree[p] = "dir"
IsFile(p) == PathExists(p) /\ ~DirectoryExists(p)
Parent(p) == SubSeq(p, 1, Len(p) - 1)
\* What readdir() lists, names without the directory.
ListSubPaths(p) ==
  {Last(q) : q \in {x \in Paths : x # <<>> /\ Parent(x) = p /\ PathExists(x)}}
Below(p, q) == IsPrefix(p, q) /\ p # q
Moved(from, to, q) == to \o SubSeq(q, Len(from) + 1, Len(q))

NoCall == [op |-> "none", from |-> <<>>, to |-> <<>>]
Idle == [call |-> NoCall, pc |-> "idle", frames |-> <<>>, file |-> NoCall, making |-> <<>>,
         left |-> {}, ret |-> TRUE, short |-> FALSE]

FileInit ==
  /\ tree \in Trees
  /\ source = tree
  /\ caller = [t \in FileThreads |-> Idle]

At(t, pc) == caller[t].pc = pc
Call(t) == caller[t].call
Set(t, c) == caller' = [caller EXCEPT ![t] = c]
\* A file copied, a directory ended or refused: ret is the conjunction, and
\* the CopyDir() below it, if there is one, goes on.
Returned(c, ok) ==
  [c EXCEPT !.ret = @ /\ ok, !.pc = IF c.frames = <<>> THEN "done" ELSE "entries"]

-----------------------------------------------------------------------------
(* Copy().                                                                 *)
Directory(c, from, to) ==
  IF DirectoryExists(from)
  THEN [c EXCEPT !.pc = "mkdir", !.making = SubSeq(to, 1, 1),
          !.frames = <<[from |-> from, to |-> to, left |-> ListSubPaths(from)]>> \o @]
  ELSE Returned(c, FALSE)
OneFile(c, from, to) ==
  [c EXCEPT !.pc = "open", !.file = [op |-> "copy", from |-> from, to |-> to]]

Copy(t, call) ==
  /\ At(t, "idle") /\ call.op = "copy"
  /\ LET begun == [Idle EXCEPT !.call = call] IN
     Set(t, IF DirectoryExists(call.from) THEN Directory(begun, call.from, call.to)
                                          ELSE OneFile(begun, call.from, call.to))
  /\ UNCHANGED <<tree, source>>

\* CopyFile(): the target is created or truncated ...
CopyFile(t) ==
  LET f == caller[t].file
      opened == IsFile(f.from) /\ DirectoryExists(Parent(f.to)) /\ ~DirectoryExists(f.to)
  IN
  /\ At(t, "open")
  /\ Set(t, IF opened THEN [caller[t] EXCEPT !.pc = "write"] ELSE Returned(caller[t], FALSE))
  /\ tree' = IF opened THEN [tree EXCEPT ![f.to] = "empty"] ELSE tree
  /\ UNCHANGED source

\* ... and written, if it still has its name; nobody asks how the write went.
WriteFile(t) ==
  \E short \in BOOLEAN :
    LET f == caller[t].file IN
    /\ At(t, "write")
    /\ short => Cardinality({u \in FileThreads : caller[u].short}) < MaxShort
    /\ Set(t, [Returned(caller[t], TRUE) EXCEPT !.short = @ \/ short])
    /\ tree' = IF short \/ ~PathExists(f.to) THEN tree
                                             ELSE [tree EXCEPT ![f.to] = tree[f.from]]
    /\ UNCHANGED source

\* CopyDir(): the next entry, in any order; what is no directory by now is
\* copied as a file.
CopyEntry(t) ==
  LET frame == Head(caller[t].frames) IN
  /\ At(t, "entries")
  /\ \E name \in frame.left :
       LET next == [caller[t] EXCEPT !.frames[1].left = @ \ {name}]
           from == Append(frame.from, name)
           to == Append(frame.to, name)
       IN Set(t, IF DirectoryExists(from) THEN Directory(next, from, to)
                                          ELSE OneFile(next, from, to))
  /\ UNCHANGED <<tree, source>>

CopyDir(t) ==
  /\ At(t, "entries") /\ Head(caller[t].frames).left = {}
  /\ Set(t, Returned([caller[t] EXCEPT !.frames = Tail(@)], TRUE))
  /\ UNCHANGED <<tree, source>>

-----------------------------------------------------------------------------
(* EnsureDirectory(), of its own or for CopyDir(): mkdir() of every prefix *)
(* of the path; one that exists, as a directory or not, is passed over.    *)
EnsureDirectory(t, call) ==
  /\ At(t, "idle") /\ call.op = "ensure"
  /\ Set(t, [Idle EXCEPT !.call = call, !.pc = "mkdir", !.making = SubSeq(call.to, 1, 1)])
  /\ UNCHANGED <<tree, source>>

\* CopyDir() returns false without a target, EnsureDirectory() as well.
Unmade(c) == Returned([c EXCEPT !.frames = IF @ = <<>> THEN @ ELSE Tail(@)], FALSE)
Made(c) ==
  LET target == IF c.frames = <<>> THEN c.call.to ELSE Head(c.frames).to IN
  IF c.making = target THEN Returned(c, TRUE)
                       ELSE [c EXCEPT !.making = SubSeq(target, 1, Len(@) + 1)]

\* Fault: a prefix that does not exist when it is looked for, but does when
\* it is made, is an error.
FaultyMkdir(t) ==
  LET path == caller[t].making
      ok == DirectoryExists(Parent(path))
  IN
  /\ \/ /\ At(t, "mkdir") /\ PathExists(path)
        /\ Set(t, Made(caller[t])) /\ UNCHANGED tree
     \/ /\ At(t, "mkdir") /\ ~PathExists(path)
        /\ Set(t, [caller[t] EXCEPT !.pc = "mkdir!"]) /\ UNCHANGED tree
     \/ /\ At(t, "mkdir!")
        /\ Set(t, IF ok /\ ~PathExists(path) THEN Made([caller[t] EXCEPT !.pc = "mkdir"])
                                         ELSE Unmade(caller[t]))
        /\ tree' = IF ok /\ ~PathExists(path) THEN [tree EXCEPT ![path] = "dir"] ELSE tree
  /\ UNCHANGED source

Mkdir(t) ==
  LET path == caller[t].making
      ok == DirectoryExists(Parent(path))
  IN
  /\ At(t, "mkdir")
  /\ Set(t, IF ok THEN Made(caller[t]) ELSE Unmade(caller[t]))
  /\ tree' = IF ok /\ ~PathExists(path) THEN [tree EXCEPT ![path] = "dir"] ELSE tree
  /\ UNCHANGED source

-----------------------------------------------------------------------------
(* RemoveAllFiles(): unlink() of every entry; the first that fails, a      *)
(* directory or a file that has gone, ends it.                             *)
RemoveAllFiles(t, call) ==
  /\ At(t, "idle") /\ call.op = "remove"
  /\ Set(t, IF DirectoryExists(call.to)
              THEN [Idle EXCEPT !.call = call, !.pc = "unlink", !.left = ListSubPaths(call.to)]
              ELSE [Idle EXCEPT !.call = call, !.pc = "done", !.ret = FALSE])
  /\ UNCHANGED <<tree, source>>

Unlink(t) ==
  /\ At(t, "unlink")
  /\ \E name \in caller[t].left :
       LET path == Append(Call(t).to, name) IN
       /\ tree' = IF IsFile(path) THEN [tree EXCEPT ![path] = "none"] ELSE tree
       /\ Set(t, IF IsFile(path) THEN [caller[t] EXCEPT !.left = @ \ {name}]
                 ELSE [caller[t] EXCEPT !.pc = "done", !.ret = FALSE])
  /\ UNCHANGED source
AllRemoved(t) ==
  /\ At(t, "unlink") /\ caller[t].left = {}
  /\ Set(t, [caller[t] EXCEPT !.pc = "done"])
  /\ UNCHANGED <<tree, source>>

FileNext ==
  \E t \in FileThreads :
    \/ \E call \in Calls : Copy(t, call) \/ EnsureDirectory(t, call) \/ RemoveAllFiles(t, call)
    \/ CopyFile(t) \/ WriteFile(t) \/ CopyEntry(t) \/ CopyDir(t)
    \/ Mkdir(t) \/ Unlink(t) \/ AllRemoved(t)

-----------------------------------------------------------------------------
(***************************************************************************)
(* What a return value says, whatever two threads do to one tree:          *)
(*  - a copy that returned true is complete, if no write fell short and    *)
(*    nobody else wrote or removed there; an empty directory may have been *)
(*    "copied" onto a file;                                                *)
(*  - EnsureDirectory() returns true exactly if every parent is a          *)
(*    directory, and then there is something at the path;                  *)
(*  - RemoveAllFiles() that returned true, alone, left no file, and        *)
(*    directories stay.                                                    *)
(***************************************************************************)
Done(t, op) == At(t, "done") /\ Call(t).op = op
\* Nobody else works below p with one of ops.
Alone(t, p, ops) ==
  \A u \in FileThreads \ {t} :
    Call(u).op \in ops => ~IsPrefix(p, Call(u).to) /\ ~IsPrefix(Call(u).to, p)

CopyIsWhole(t) ==
  LET call == Call(t)
      Has(q) == LET copy == Moved(call.from, call.to, q) IN
        IF tree[q] = "dir" THEN PathExists(copy) /\ (ListSubPaths(q) # {} => DirectoryExists(copy))
                           ELSE tree[copy] = tree[q]
  IN caller[t].ret /\ ~caller[t].short =>
       \A q \in Paths : IsPrefix(call.from, q) /\ PathExists(q) => Has(q)

FilesAreExact ==
  /\ \A q \in Paths : source[q] = "dir" => DirectoryExists(q)
  /\ \A t \in FileThreads :
       /\ Done(t, "copy") /\ Alone(t, Call(t).to, {"copy", "remove"}) => CopyIsWhole(t)
       /\ Done(t, "ensure") /\ Alone(t, Call(t).to, {"remove"}) =>
            (caller[t].ret <=> \A n \in 0 .. Len(Call(t).to) - 1 :
                                 DirectoryExists(SubSeq(Call(t).to, 1, n)))
       /\ Done(t, "ensure") /\ caller[t].ret /\ Alone(t, Call(t).to, {"remove"}) =>
            PathExists(Call(t).to)
       /\ Done(t, "remove") /\ caller[t].ret /\ Alone(t, Call(t).to, {"copy"}) =>
            \A name \in ListSubPaths(Call(t).to) : DirectoryExists(Append(Call(t).to, name))
=============================================================================
