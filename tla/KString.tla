------------------------------ MODULE KString ------------------------------
(***************************************************************************)
(* One kstd::string object (src/kernel/kstd/string.cpp): its length, the   *)
(* size of its heap buffer and the bytes of that buffer, mutated by        *)
(* assignment, append and "s = s.substr(..)", and queried by find,         *)
(* find_last_of and ==.  Sizes and indices are size_t, kept modulo         *)
(* 2^SizeWidth, so that "_length - len" wraps as it does in the code.      *)
(* Characters are abstracted to the small set Chars; Nul is '\0' and Junk  *)
(* stands for any byte the program never wrote (krealloc's new tail).     *)
(* The last query and its answer are kept in q; a mutation clears it.      *)
(***************************************************************************)
EXTENDS Integers, Sequences, FiniteSetsExt

CONSTANTS Chars, Nul, Junk, MaxLen, MaxPat, SizeWidth

ASSUME KStringAssumption ==
    /\ Nul \notin Chars /\ Junk \notin Chars \cup {Nul}
    /\ MaxLen \in Nat /\ MaxPat \in Nat /\ SizeWidth \in Nat \ {0}
    /\ 2 * (MaxLen + 1) < 2 ^ SizeWidth

Mod == 2 ^ SizeWidth
Npos == Mod - 1                  \* (size_t) -1
SizeT(n) == n % Mod

VARIABLES len, size, buf, q
vars == <<len, size, buf, q>>

Bytes == Chars \cup {Nul, Junk}
Strings == UNION {[1 .. n -> Chars] : n \in 0 .. MaxLen}
Patterns == UNION {[1 .. n -> Chars] : n \in 0 .. MaxPat}
At(i) == buf[i + 1]                          \* _cstring[i]
Content == [i \in 1 .. len |-> IF i <= Len(buf) THEN buf[i] ELSE Junk]
NoQuery == [op |-> "none"]
Record(op, arg, from, res, oob) ==
    /\ q' = [op |-> op, arg |-> arg, from |-> from, res |-> res, oob |-> oob]
    /\ UNCHANGED <<len, size, buf>>

(* string(): a one-byte buffer holding '\0'. *)
Init == /\ len = 0 /\ size = 1 /\ buf = <<Nul>> /\ q = NoQuery

(* operator= and the constructor taking a C string: a fresh buffer of     *)
(* strlen + 1 bytes.                                                      *)
AssignCStr(c) == /\ len' = Len(c) /\ size' = Len(c) + 1
                 /\ buf' = c \o <<Nul>> /\ q' = NoQuery

ExpandToDoubleOnly(min) == IF min <= size THEN size ELSE SizeT(size * 2)
(* expand_to(min_size): the buffer size after the call. *)
ExpandTo(min) == IF min <= size THEN size ELSE SizeT(Max({min, SizeT(size * 2)}))

ReallocFresh(n) == IF n = size THEN buf ELSE [i \in 1 .. n |-> Junk]
(* krealloc(_cstring, n): the first bytes survive, the new tail is junk. *)
Realloc(n) == [i \in 1 .. n |-> IF i <= size THEN buf[i] ELSE Junk]

(* append(str, length), behind operator+=: expand_to(new_length + 1),    *)
(* memcpy at _length, terminator at new_length.  A byte the buffer has no *)
(* room for is lost (it would land past the allocation).                 *)
StringAppend(c) ==
    LET newLength == SizeT(len + Len(c))
        nsize == ExpandTo(SizeT(newLength + 1))
        grown == Realloc(nsize)
    IN /\ len + Len(c) <= MaxLen
       /\ buf' = [i \in 1 .. nsize |->
                    IF i \in len + 1 .. len + Len(c) THEN c[i - len]
                    ELSE IF i = newLength + 1 THEN Nul ELSE grown[i]]
       /\ len' = newLength /\ size' = nsize /\ q' = NoQuery

SubstrAssignNoTerminator(start, length) ==
    /\ start + length <= len
    /\ len' = length /\ size' = length
    /\ buf' = SubSeq(buf, start + 1, start + length) /\ q' = NoQuery
(* "s = s.substr(start, length)": substr copies the bytes into a string   *)
(* of strlen + 1 bytes, and the move assignment takes over its buffer.    *)
(* The callers (VFS) only pass ranges inside the string.                  *)
SubstrAssign(start, length) ==
    /\ start + length <= len
    /\ len' = length /\ size' = length + 1
    /\ buf' = SubSeq(buf, start + 1, start + length) \o <<Nul>> /\ q' = NoQuery

(* string(a, size_a, b, size_b), behind operator+: a fresh buffer of      *)
(* size_a + size_b + 1 bytes holding a, then b, then '\0'.                *)
ConcatOf(a, b) ==
    LET n == SizeT(Len(a) + Len(b))
    IN [len |-> n, size |-> SizeT(n + 1), buf |-> a \o b \o <<Nul>>]

(* operator=(string&&): take over the other string's length, size and     *)
(* buffer (the temporary is left empty and destroyed).                    *)
MoveAssign(t) == len' = t.len /\ size' = t.size /\ buf' = t.buf

(* "s = s + str": operator+ builds the concatenation of the string's      *)
(* bytes and str, and the move assignment takes it over.                  *)
PlusAssign(c) == /\ len + Len(c) <= MaxLen
                 /\ MoveAssign(ConcatOf(Content, c)) /\ q' = NoQuery

(* The sizes a source string holding c may have: strlen + 1 up to the     *)
(* size of a string of MaxLen characters.                                 *)
OtherSizes(c) == Len(c) + 1 .. MaxLen + 1

(* operator=(const string&) from another string holding c in n bytes: a   *)
(* fresh buffer of the other's _size, strcpy copies c and its '\0', and   *)
(* the rest of the buffer is never written.                               *)
CopyAssign(c, n) ==
    /\ len' = Len(c) /\ size' = n
    /\ buf' = [i \in 1 .. n |-> IF i <= Len(c) THEN c[i] ELSE IF i = Len(c) + 1 THEN Nul ELSE Junk]
    /\ q' = NoQuery

FindCharScanFromZero(c, start) ==
    LET hits == {i \in 0 .. len : At(i) = c}
    IN IF hits = {} THEN Npos ELSE Min(hits)
(* find(char c, start): the first i in start.._length with _cstring[i] = c. *)
FindCharScan(c, start) ==
    LET hits == {i \in start .. len : At(i) = c}
    IN IF hits = {} THEN Npos ELSE Min(hits)

FindChar(c, start) == Record("find_char", <<c>>, start, FindCharScan(c, start), FALSE)

(* find(const char* str, start): i runs from start while i <= _length -   *)
(* strlen(str) (size_t), and the first i whose byte equals str[0] is      *)
(* returned whatever the inner loop finds.  When the bound wrapped, the   *)
(* loop reads past the buffer (oob) and what it returns is undefined.     *)
FindScan(p, start) ==
    LET bound == SizeT(len - Len(p))
        first == IF p = <<>> THEN Nul ELSE p[1]
        hits == {i \in start .. Min({bound, size - 1}) : At(i) = first}
    IN IF hits # {} THEN [res |-> Min(hits), oob |-> FALSE, outs |-> {Min(hits)}]
       ELSE [res |-> Npos, oob |-> bound >= size,
             outs |-> IF bound >= size THEN (size .. bound) \cup {Npos} ELSE {Npos}]

Find(p, start) ==
    LET scan == FindScan(p, start)
    IN \E r \in scan.outs : Record("find", p, start, r, scan.oob)

(* find_last_of(char c, end): end = -1 means _length - 1; i runs from     *)
(* end + 1 down to 1 and the first i with _cstring[i - 1] = c is          *)
(* returned, one past the index of the byte.                              *)
FindLastOfCharScan(c, end) ==
    LET top == SizeT((IF end = Npos THEN SizeT(len - 1) ELSE end) + 1)
        hits == {i \in 1 .. top : At(i - 1) = c}
    IN IF hits = {} THEN Npos ELSE Max(hits)

FindLastOfChar(c, end) ==
    Record("find_last_of_char", <<c>>, end, FindLastOfCharScan(c, end), FALSE)

(* find_last_of(const char* str, end): npos for an empty str; otherwise i *)
(* runs down from end - strlen(str) (size_t) to 1, returning the first i  *)
(* with _cstring[i - 1] = str[0].  A wrapped start reads past the buffer. *)
FindLastOfScan(p, end) ==
    LET top == SizeT((IF end = Npos THEN SizeT(len - 1) ELSE end) - Len(p))
        hits == {i \in 1 .. Min({top, size}) : At(i - 1) = p[1]}
        inb == IF hits = {} THEN Npos ELSE Max(hits)
    IN IF p = <<>> THEN [oob |-> FALSE, outs |-> {Npos}]
       ELSE [oob |-> top > size, outs |-> {inb} \cup (size + 1 .. top)]

FindLastOf(p, end) ==
    LET scan == FindLastOfScan(p, end)
    IN \E r \in scan.outs : Record("find_last_of", p, end, r, scan.oob)

(* operator== on a C string returns strcmp(str, _cstring) and operator!=  *)
(* its negation.  The kernel's strcmp (kstd, not among the sources)       *)
(* returns a bool that is true when the strings are equal, which is how   *)
(* VFS uses == ("path == \"/\"", "part == \"..\"").                      *)
Equals(c) == Record("eq", c, 0, c = Content, FALSE)
NotEquals(c) == Record("ne", c, 0, ~(c = Content), FALSE)

Next ==
    \/ \E c \in Strings : AssignCStr(c) \/ StringAppend(c) \/ PlusAssign(c)
                           \/ Equals(c) \/ NotEquals(c)
    \/ \E c \in Strings : \E n \in OtherSizes(c) : CopyAssign(c, n)
    \/ \E start, length \in 0 .. len : SubstrAssign(start, length)
    \/ \E c \in Chars, start \in 0 .. len : FindChar(c, start)
    \/ \E c \in Chars, end \in {Npos} \cup (0 .. len - 1) : FindLastOfChar(c, end)
    \/ \E p \in Patterns, start \in 0 .. len : Find(p, start)
    \/ \E p \in Patterns, end \in {Npos} \cup (0 .. len - 1) : FindLastOf(p, end)

Spec == Init /\ [][Next]_vars

-----------------------------------------------------------------------------
(* What the callers expect: the std::string meaning, 0-based indices.     *)
RefFindChar(c, start) ==
    LET M == {i \in start .. len - 1 : Content[i + 1] = c}
    IN IF M = {} THEN Npos ELSE Min(M)

RefFind(p, start) ==
    LET M == {i \in start .. len - Len(p) : SubSeq(Content, i + 1, i + Len(p)) = p}
    IN IF M = {} THEN Npos ELSE Min(M)

(* The length, size, buffer and last query have their types. *)
TypeOK ==
    /\ len \in 0 .. MaxLen /\ size \in 1 .. Mod - 1
    /\ buf \in Seq(Bytes) /\ Len(buf) = size
    /\ q.op \in {"none", "find_char", "find", "find_last_of_char", "find_last_of", "eq", "ne"}

(* After any sequence of assignments, appends (with expand_to's growth    *)
(* and krealloc) and substr assignments, the string's bytes and its '\0'  *)
(* terminator lie inside the allocated buffer.                            *)
StringWellFormed ==
    /\ len < size
    /\ At(len) = Nul
    /\ \A i \in 0 .. len - 1 : At(i) \in Chars

(* find(char, start) returns the 0-based index of the first occurrence at *)
(* or after start, or npos.                                               *)
FindCharCorrect ==
    q.op = "find_char" => q.res = RefFindChar(q.arg[1], q.from)

Abstract == INSTANCE StringValue WITH val <- Content

(* The object implements a string value: each mutation changes Content as *)
(* assignment, concatenation or a substring would, and queries leave it.  *)
ImplementsStringValue == Abstract!Spec
=============================================================================
