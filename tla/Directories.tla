---------------------------- MODULE Directories ----------------------------
(***************************************************************************)
(* write_text_file and append_text_file make sure that the directory of    *)
(* their file exists: mkdir for one prefix of the path after the other,    *)
(* here also while other processes do the same, as callers of these        *)
(* functions may.  A path is a text; the operating system and              *)
(* ensure_directory_recursive do not agree on what separates its names.    *)
(***************************************************************************)
EXTENDS Integers, FiniteSets, SequencesExt

CONSTANTS Proc,       \* the processes
          Path,       \* the paths that are written to, as sequences of characters
          Faults      \* may mkdir and fopen fail for a reason of their own?

ASSUME PathAssumption == \A p \in Path : p \in Seq(Range(p))

VARIABLES dirs,       \* the directories, each as the sequence of names that leads to it
          files,      \* the files, likewise
          pc,         \* process -> "idle", "making", "opening", "done" or "failed"
          path,       \* process -> the path that it writes to
          made        \* process -> length of the prefix that is made

vars == <<dirs, files, pc, path, made>>

Separators == {"/", "\\"}

\* The operating system's reading of a path: the names between slashes.  A path
\* that begins with a slash leads from the root, others from where we are.
Extended(names, p, n) ==
  IF p[n] = "/" THEN IF n = 1 THEN <<<<"/">>>> ELSE names
  ELSE IF n = 1 \/ p[n - 1] = "/" THEN Append(names, <<p[n]>>)
  ELSE [names EXCEPT ![Len(names)] = Append(@, p[n])]

Reading(p) ==
  LET names[n \in 0 .. Len(p)] ==
        IF n = 0 THEN <<>> ELSE Extended(names[n - 1], p, n)
  IN  names[Len(p)]

\* ensure_parent_directory: what is before the last separator of either kind.
HasParent(p) == \E i \in DOMAIN p : p[i] \in Separators

\* Mutant: the whole path is made.
ParentOf_WholePath(p) == p

ParentOf(p) == SubSeq(p, 1, Max({i \in DOMAIN p : p[i] \in Separators}) - 1)

\* ensure_directory_recursive: its copy of the path, and the prefixes it makes;
\* the name of a drive is not one.
Buffer(p)   == [i \in DOMAIN ParentOf(p) |-> IF p[i] = "\\" THEN "/" ELSE p[i]]
\* Mutant: the loop ends before the terminator.
Cuts_NotTheLast(p) ==
  LET b == Buffer(p)
  IN  {i \in DOMAIN b : i < Len(b) /\ b[i + 1] = "/" /\ ~(i = 2 /\ b[2] = ":")}

Cuts(p) ==
  LET b == Buffer(p)
  IN  {i \in DOMAIN b : (i = Len(b) \/ b[i + 1] = "/") /\ ~(i = 2 /\ b[2] = ":")}

\* The readings of all texts that the operating system is given.
Readings == [t \in Path \cup UNION {{SubSeq(Buffer(p), 1, i) : i \in Cuts(p)} : p \in {q \in Path : HasParent(q)}}
               |-> Reading(t)]
Names(t) == Readings[t]

Init ==
  /\ dirs = {<<>>, <<<<"/">>>>}
  /\ files = {}
  /\ pc = [p \in Proc |-> "idle"]
  /\ path = [p \in Proc |-> <<>>]
  /\ made = [p \in Proc |-> 0]

-----------------------------------------------------------------------------
ToMake(p) == {i \in Cuts(path[p]) : i > made[p]}
NextToMake(p) == SubSeq(Buffer(path[p]), 1, Min(ToMake(p)))

Begin(p) ==
  /\ pc[p] = "idle"
  /\ \E new \in Path :
       /\ path' = [path EXCEPT ![p] = new]
       /\ pc' = [pc EXCEPT ![p] = IF HasParent(new) THEN "making" ELSE "opening"]
  /\ UNCHANGED <<dirs, files, made>>

\* Mutant: the loop does not advance.
Advance_Stays(p) == UNCHANGED <<made, files, pc, path>>

Advance(p) ==
  /\ made' = [made EXCEPT ![p] = Min(ToMake(p))]
  /\ UNCHANGED <<files, pc, path>>

\* mkdir makes the directory.
MakeDirectory(p) ==
  LET new == Names(NextToMake(p))
  IN  /\ pc[p] = "making"
      /\ ToMake(p) # {}
      /\ new \notin dirs \cup files
      /\ Front(new) \in dirs
      /\ dirs' = dirs \cup {new}
      /\ Advance(p)

\* EEXIST, which mkdir also says of a file.
DirectoryExists(p) ==
  /\ pc[p] = "making"
  /\ ToMake(p) # {}
  /\ Names(NextToMake(p)) \in dirs \cup files
  /\ Advance(p)
  /\ UNCHANGED dirs

\* Mutant: EEXIST is an error, too.
MakeFails_Exists(p) ==
  /\ pc[p] = "making"
  /\ ToMake(p) # {}
  /\ Front(Names(NextToMake(p))) \in dirs => Faults \/ Names(NextToMake(p)) \in dirs \cup files
  /\ pc' = [pc EXCEPT ![p] = "failed"]
  /\ UNCHANGED <<dirs, files, path, made>>

\* Any other error ends ensure_directory_recursive.
MakeFails(p) ==
  LET new == Names(NextToMake(p))
  IN  /\ pc[p] = "making"
      /\ ToMake(p) # {}
      /\ new \notin dirs \cup files
      /\ Front(new) \in dirs => Faults
      /\ pc' = [pc EXCEPT ![p] = "failed"]
      /\ UNCHANGED <<dirs, files, path, made>>

ParentReady(p) ==
  /\ pc[p] = "making"
  /\ ToMake(p) = {}
  /\ pc' = [pc EXCEPT ![p] = "opening"]
  /\ UNCHANGED <<dirs, files, path, made>>

\* write_mode_file's fopen, which creates the file.
Openable(p) == Front(Names(path[p])) \in dirs /\ Names(path[p]) \notin dirs

OpenFile(p) ==
  /\ pc[p] = "opening"
  /\ Openable(p)
  /\ files' = files \cup {Names(path[p])}
  /\ pc' = [pc EXCEPT ![p] = "done"]
  /\ UNCHANGED <<dirs, path, made>>

OpenFails(p) ==
  /\ pc[p] = "opening"
  /\ Openable(p) => Faults
  /\ pc' = [pc EXCEPT ![p] = "failed"]
  /\ UNCHANGED <<dirs, files, path, made>>

Next ==
  \E p \in Proc :
    \/ Begin(p) \/ MakeDirectory(p) \/ DirectoryExists(p) \/ MakeFails(p)
    \/ ParentReady(p) \/ OpenFile(p) \/ OpenFails(p)

Spec == Init /\ [][Next]_vars
FairSpec == Spec /\ WF_vars(Next)

-----------------------------------------------------------------------------
\* The paths that ensure_directory_recursive and the operating system read alike:
\* no backslash, no drive, and a name after the last slash.
PlainPaths ==
  \A p \in Path :
    /\ p # <<>> /\ p[Len(p)] # "/"
    /\ \A i \in DOMAIN p : p[i] # "\\"
    /\ ~(Len(p) > 2 /\ p[2] = ":" /\ p[3] = "/")

\* The directories that a path leads through.
Above(p) == {SubSeq(Names(p), 1, n) : n \in 0 .. Len(Names(p)) - 1}

\* Once the parent directory is ensured it is there, and every directory on the
\* way, however the path is written and whatever other processes make, unless
\* a file has one of these names.
ParentEnsured ==
  \A p \in Proc :
    pc[p] = "opening" => Above(path[p]) \subseteq dirs \/ Above(path[p]) \cap files # {}

\* Without a fault of the operating system a file is not written only because a
\* file has the name of a directory on its path, or a directory has its name;
\* never because somebody else makes the same directories.
NobodyInTheWay ==
  \A p \in Proc :
    pc[p] = "failed" /\ ~Faults => Above(path[p]) \cap files # {} \/ Names(path[p]) \in dirs

\* No directories are made but those on the way to a file.
NoStrayDirectories ==
  dirs \subseteq {<<>>, <<<<"/">>>>} \cup UNION {Above(path[p]) : p \in {q \in Proc : pc[q] # "idle"}}

\* Whoever has begun ends, with the file or without.
EveryWriterEnds == <>(\A p \in Proc : pc[p] \in {"done", "failed"})
=============================================================================
