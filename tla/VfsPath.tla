------------------------------ MODULE VfsPath -------------------------------
(***************************************************************************)
(* How VFS::mkdir (src/kernel/filesystem/VFS.cpp) splits the path string  *)
(* it is given into the directory to resolve and the name of the entry to *)
(* create: it drops one trailing '/', then path_minus_base and path_base  *)
(* cut the path at find_last_of('/').  The path is the string object of   *)
(* KString, so any sequence of string operations can build it; made       *)
(* records the split of the last mkdir on it.  VFS::rmdir takes the path  *)
(* by reference: it drops the trailing '/' of the caller's string itself, *)
(* and returns early on the name path_base gives it; rmres records that.  *)
(***************************************************************************)
EXTENDS KString

VARIABLES made, rmres
pathVars == <<len, size, buf, q, made, rmres>>

(* A kstd::string holding s in a buffer of its own. *)
Str(s) == INSTANCE KString
            WITH len <- Len(s), size <- Len(s) + 1, buf <- s \o <<Nul>>,
                 q <- NoQuery

SlashIndex(s) == Str(s)!FindLastOfCharScan("/", Npos)

(* path_base: the whole path without a '/', nothing when the '/' found is *)
(* the last byte, else substr(slash_index, length - slash_index).         *)
PathBase(s) ==
    LET slash == SlashIndex(s)
    IN IF slash = Npos THEN s
       ELSE IF slash = SizeT(Len(s) - 1) THEN <<>>
       ELSE SubSeq(s, slash + 1, Len(s))

PathMinusBaseBeforeSlash(s) ==
    LET slash == SlashIndex(s)
    IN IF slash = Npos THEN <<>> ELSE SubSeq(s, 1, slash - 1)
(* path_minus_base: nothing without a '/', else substr(0, slash_index). *)
PathMinusBase(s) ==
    LET slash == SlashIndex(s)
    IN IF slash = Npos THEN <<>> ELSE SubSeq(s, 1, slash)

(* mkdir's "remove trailing slash if there is one", on its own copy. *)
StripSlash(s) == IF s # <<>> /\ s[Len(s)] = "/" THEN SubSeq(s, 1, Len(s) - 1) ELSE s

NoSplit == [path |-> <<>>, dir |-> <<>>, base |-> <<>>]

NoRemove == [path |-> <<>>, res |-> "none", base |-> <<>>]

PathInit == Init /\ made = NoSplit /\ rmres = NoRemove

(* mkdir(path): resolve path_minus_base(path), create path_base(path). *)
Mkdir == LET s == StripSlash(Content)
         IN /\ made' = [path |-> Content, dir |-> PathMinusBase(s), base |-> PathBase(s)]
            /\ q' = NoQuery
            /\ UNCHANGED <<len, size, buf, rmres>>

(* operator== on a C string, as rmdir's tests of pbase compute it:      *)
(* strcmp(str, _cstring), the kernel's bool strcmp, true when equal.     *)
CStrEq(s, c) == c = s

(* rmdir(path): "path = path.substr(0, length() - 1)" when the last byte  *)
(* is '/', then -EINVAL when pbase == "." and -ENOTEMPTY when            *)
(* pbase == "..", else resolve the path and remove_entry(pbase).          *)
Rmdir ==
    LET s == StripSlash(Content)
        pbase == PathBase(s)
    IN /\ IF s # Content THEN SubstrAssign(0, len - 1)
          ELSE UNCHANGED <<len, size, buf>> /\ q' = NoQuery
       /\ rmres' = [path |-> Content, base |-> pbase,
                    res |-> IF CStrEq(pbase, <<".">>) THEN "EINVAL"
                            ELSE IF CStrEq(pbase, <<".", ".">>) THEN "ENOTEMPTY"
                            ELSE "remove"]
       /\ made' = NoSplit

(* A string operation forgets the last split and the last rmdir, as it    *)
(* forgets the last query.                                                *)
PathNext == (Next /\ made' = NoSplit /\ rmres' = NoRemove) \/ Mkdir \/ Rmdir

PathSpec == PathInit /\ [][PathNext]_pathVars

-----------------------------------------------------------------------------
(* The last component of a path: what follows its last '/'. *)
LastComponent(s) ==
    LET slashes == {i \in 1 .. Len(s) : s[i] = "/"}
    IN IF slashes = {} THEN s ELSE SubSeq(s, Max(slashes) + 1, Len(s))

(* VFS::mkdir resolves path_minus_base(path) and calls create_entry with *)
(* path_base(path), after dropping a trailing '/': the entry it creates  *)
(* is named by the last component of the path, in the directory named by *)
(* what precedes it, and the two put back together give the path again.  *)
(* path_base's own tests say so: "" only when the '/' is the last byte.   *)
MkdirSplitsAtLastSlash ==
    LET s == StripSlash(made.path)
    IN /\ made.base = LastComponent(s)
       /\ made.dir \o made.base = s

(* The split is right for every path whose last component is not a       *)
(* single byte after a '/': find_last_of returns one past the index of    *)
(* the '/', which path_base and path_minus_base use as the start of the   *)
(* name, and only the "== length() - 1" test reads it as the index.       *)
MkdirSplitsUnlessOneByteName ==
    LET s == StripSlash(made.path)
    IN (Len(LastComponent(s)) = 1 /\ LastComponent(s) # s) \/ MkdirSplitsAtLastSlash
=============================================================================
