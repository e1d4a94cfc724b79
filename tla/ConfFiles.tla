------------------------------ MODULE ConfFiles -----------------------------
(***************************************************************************)
(* How spifconf_parse() of conf.c finds and opens the file it is to parse: *)
(* spifconf_find_file(), the change to the file's directory and back, and  *)
(* spifconf_open_file().  What the lines of the file do is left to         *)
(* SpifConf.tla; none of them changes the directory.                       *)
(***************************************************************************)
EXTENDS Integers, Sequences, SequencesExt

CONSTANTS
  FileNames,      \* conf_name, as a path
  FileDirs,       \* dir, a path or NoPath
  PathLists,      \* path, the directories in it, or NoPath
  Places,         \* where there may be a file
  Homes,          \* where the program may be started
  NoPath          \* a NULL pointer

(* A path as it is written: its names, none of them "." or "..", and the   *)
(* slashes before the first one, 2 for two or more.  A slash twice between *)
(* names, or behind them, changes nothing that is done here.               *)
Path == [slashes : 0..2, names : Seq(STRING)]

ASSUME FilesAssumption ==
  /\ \A file \in FileNames : file \in Path /\ file.names # <<>>
  /\ FileDirs \subseteq Path \cup {NoPath}
  /\ PathLists \subseteq Seq(Path) \cup {NoPath}
  /\ Places \cup Homes \subseteq Seq(STRING)
  /\ NoPath \notin Path \cup Seq(STRING)

VARIABLES
  disk,           \* Places -> "none", "magic" (and its first line says so), "other"
  cwd,            \* the working directory
  parsed          \* history: the last call

fileVars == <<disk, cwd, parsed>>

PathOf(slashes, names) == [slashes |-> IF slashes > 2 THEN 2 ELSE slashes, names |-> names]
Rooted(path) == path.slashes > 0

(* The directory, the slashes put behind it, and the path. *)
Joined(dir, put, path) ==
  PathOf(IF dir.names = <<>> THEN dir.slashes + put + path.slashes ELSE dir.slashes,
         dir.names \o path.names)

(* dir always gets a slash, so that "/" makes //name and "" makes /name; a *)
(* directory of the path list only if it does not end with one.  An empty  *)
(* one is skipped there, which is to try the same name again.              *)
InDir(dir, path) == Joined(dir, 1, path)
InListed(dir, path) == Joined(dir, 0, path)

(* Where the kernel finds it, from directory d. *)
Resolved(d, path) == IF Rooted(path) THEN path.names ELSE d \o path.names
KindOf(place) == IF place \in Places THEN disk[place] ELSE "none"

(* spifconf_find_file(): the name itself, then behind each directory. *)
FindFile(file, dir, pathlist) ==
  LET name == IF dir = NoPath THEN file ELSE InDir(dir, file)
      tried == <<name>> \o [k \in 1..Len(pathlist) |-> InListed(pathlist[k], name)]
      found == {k \in 1..Len(tried) : KindOf(Resolved(cwd, tried[k])) # "none"}
  IN IF found = {} THEN NoPath ELSE tried[CHOOSE k \in found : \A j \in found : k <= j]

(* To what is before the last slash: nothing if there is no slash, nothing *)
(* that chdir(2) takes if it is that of /name, and the root for //name.    *)
DirName(path) == PathOf(path.slashes, Front(path.names))
CutToNothing(path) == path.slashes = 1 /\ Len(path.names) = 1
Chdir(path) ==
  IF CutToNothing(path) THEN cwd ELSE Resolved(cwd, DirName(path))

(* spifconf_open_file(), from directory d; a file without the magic string *)
(* is closed again.                                                        *)
OpenFile(d, path) ==
  IF KindOf(Resolved(d, path)) = "magic" THEN Resolved(d, path) ELSE NoPath

(* Mutant: the directory is left before the file is opened. *)
ParseFileEarly(file, dir, path) ==
  LET found == IF path = NoPath THEN NoPath ELSE FindFile(file, dir, path)
      opened == IF path # NoPath /\ found = NoPath THEN NoPath ELSE OpenFile(cwd, file)
  IN /\ cwd' = cwd
     /\ parsed' = [file |-> file, from |-> cwd, opened |-> opened, by |-> found,
                   found |-> IF found = NoPath THEN NoPath ELSE Resolved(cwd, found)]
     /\ UNCHANGED disk

(* spifconf_parse(): without a path list nothing is searched for; after    *)
(* the last line the program is back where it was.                         *)
ParseFile(file, dir, path) ==
  LET found == IF path = NoPath THEN NoPath ELSE FindFile(file, dir, path)
      there == IF found = NoPath THEN cwd ELSE Chdir(found)
      opened == IF path # NoPath /\ found = NoPath THEN NoPath ELSE OpenFile(there, file)
  IN /\ cwd' = IF opened = NoPath THEN there ELSE cwd
     /\ parsed' = [file |-> file, from |-> cwd, opened |-> opened, by |-> found,
                   found |-> IF found = NoPath THEN NoPath ELSE Resolved(cwd, found)]
     /\ UNCHANGED disk

FilesInit ==
  /\ disk \in [Places -> {"none", "magic", "other"}]
  /\ cwd \in Homes
  /\ parsed = NoPath

FilesNext ==
  \E file \in FileNames, dir \in FileDirs, path \in PathLists : ParseFile(file, dir, path)

FilesSpec == FilesInit /\ [][FilesNext]_fileVars

-----------------------------------------------------------------------------
Folder(place) == Front(place)

(* Whatever calls came before: the file that was found is the one that is  *)
(* opened, provided it has the magic string, unless the caller's name has  *)
(* a directory of its own, which is then looked for below the file's (or,  *)
(* from the root, not in the directories given), or it was found as /name, *)
(* whose directory is cut to nothing (conf.c:961-970; as //name, which dir *)
(* "/" makes, it is not); and the program is back where it was, unless a   *)
(* file it changed the directory for could not be opened (conf.c:971).     *)
DirectoryComesBack ==
  parsed # NoPath =>
    LET p == parsed
        found == p.found # NoPath
        away == IF Rooted(p.file) THEN p.found # p.file.names
                ELSE Len(p.file.names) > 1 \/ (CutToNothing(p.by) /\ p.from # <<>>)
    IN /\ found => IF away THEN p.opened # p.found
                   ELSE p.opened = IF disk[p.found] = "magic" THEN p.found ELSE NoPath
       /\ cwd = IF found /\ p.opened = NoPath /\ ~CutToNothing(p.by)
                 THEN Folder(p.found) ELSE p.from
=============================================================================
