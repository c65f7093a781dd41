--------------------------- MODULE KStringProofs ---------------------------
(***************************************************************************)
(* Proofs about KString for every character set, every MaxLen and every   *)
(* size_t width that leaves room for twice the longest buffer.            *)
(***************************************************************************)
EXTENDS VfsPath, SequenceTheorems, WellFoundedInduction, TLAPS

(* The invariant to prove, inductive as it stands. *)
Inv == TypeOK /\ StringWellFormed

USE KStringAssumption

(* Mod is a positive number above every size the string reaches. *)
LEMMA ModFacts == /\ Mod \in Nat
                  /\ 2 * (MaxLen + 1) < Mod
                  /\ Npos = Mod - 1
  BY DEF Mod, Npos

(* SizeT is the identity on 0 .. Mod - 1. *)
LEMMA SizeTSmall == ASSUME NEW n \in 0 .. Mod - 1 PROVE SizeT(n) = n
  BY ModFacts DEF SizeT

(* A string of the model is a sequence of characters of length MaxLen at most. *)
LEMMA StringsAreSeqs ==
    ASSUME NEW c \in Strings
    PROVE  /\ c \in Seq(Chars) /\ Len(c) \in 0 .. MaxLen
           /\ DOMAIN c = 1 .. Len(c)
  <1>1. PICK n \in 0 .. MaxLen : c \in [1 .. n -> Chars]
    BY DEF Strings
  <1>2. c \in Seq(Chars)
    BY <1>1
  <1>3. Len(c) = n
    BY <1>1, <1>2
  <1>4. QED
    BY <1>1, <1>2, <1>3

(* The larger of two numbers is one of them and at least both. *)
LEMMA MaxOfTwo ==
    ASSUME NEW a \in Int, NEW b \in Int
    PROVE  /\ Max({a, b}) \in {a, b}
           /\ Max({a, b}) >= a /\ Max({a, b}) >= b
  <1>1. \E x \in {a, b} : \A y \in {a, b} : x >= y
    BY SMT
  <1>2. Max({a, b}) \in {a, b} /\ \A y \in {a, b} : Max({a, b}) >= y
    BY <1>1, Zenon DEF Max
  <1>3. QED
    BY <1>2

(* expand_to(m), for m up to MaxLen + 1, gives a size of at least m and   *)
(* of the old size, below Mod: size * 2 does not wrap.                    *)
LEMMA ExpandToFacts ==
    ASSUME NEW m \in 1 .. MaxLen + 1, size \in 1 .. Mod - 1
    PROVE  /\ ExpandTo(m) \in 1 .. Mod - 1
           /\ ExpandTo(m) >= m /\ ExpandTo(m) >= size
  <1>1. CASE m <= size
    BY <1>1 DEF ExpandTo
  <1>2. CASE ~(m <= size)
    <2>1. size * 2 \in 0 .. Mod - 1 /\ m \in 0 .. Mod - 1
      BY <1>2, ModFacts
    <2>2. SizeT(size * 2) = size * 2
      BY <2>1, SizeTSmall
    <2>3. m \in Int /\ size * 2 \in Int
      BY <2>1, ModFacts
    <2>4. /\ Max({m, size * 2}) \in {m, size * 2}
          /\ Max({m, size * 2}) >= m /\ Max({m, size * 2}) >= size * 2
      BY <2>3, MaxOfTwo, Zenon
    <2>5. Max({m, size * 2}) \in 0 .. Mod - 1
      BY <2>1, <2>4
    <2>6. ExpandTo(m) = Max({m, size * 2})
      BY <1>2, <2>2, <2>5, SizeTSmall, Zenon DEF ExpandTo
    <2>7. QED
      BY <1>2, <2>4, <2>5, <2>6
  <1>3. QED
    BY <1>1, <1>2

THEOREM InitInv == Init => Inv
  BY ModFacts DEF Init, Inv, TypeOK, StringWellFormed, At, NoQuery, Bytes

(* A query changes only q, to a record whose op is one TypeOK allows. *)
LEMMA QueryFrame ==
    ASSUME Inv, UNCHANGED <<len, size, buf>>,
           q'.op \in {"find_char", "find", "find_last_of_char", "find_last_of", "eq", "ne"}
    PROVE  Inv'
  BY DEF Inv, TypeOK, StringWellFormed, At

(* Assigning a C string allocates strlen + 1 bytes and ends them with '\0'. *)
LEMMA AssignInv ==
    ASSUME Inv, NEW c \in Strings, AssignCStr(c)
    PROVE  Inv'
  <1>1. c \in Seq(Chars) /\ Len(c) \in 0 .. MaxLen
    BY StringsAreSeqs
  <1>2. /\ c \o <<Nul>> \in Seq(Bytes)
        /\ Len(c \o <<Nul>>) = Len(c) + 1
        /\ \A i \in 1 .. Len(c) + 1 :
              (c \o <<Nul>>)[i] = IF i <= Len(c) THEN c[i] ELSE Nul
    BY <1>1 DEF Bytes
  <1>3. TypeOK'
    BY <1>1, <1>2, ModFacts DEF AssignCStr, TypeOK, NoQuery
  <1>4. StringWellFormed'
    BY <1>1, <1>2 DEF AssignCStr, StringWellFormed, At
  <1>5. QED
    BY <1>3, <1>4 DEF Inv

(* "s = s.substr(start, length)" with an in-range slice. *)
LEMMA SubstrInv ==
    ASSUME Inv, NEW start \in 0 .. len, NEW length \in 0 .. len, SubstrAssign(start, length)
    PROVE  Inv'
  <1>1. /\ buf \in Seq(Bytes) /\ Len(buf) = size /\ len < size /\ len \in 0 .. MaxLen
        /\ \A i \in 0 .. len - 1 : buf[i + 1] \in Chars
    BY DEF Inv, TypeOK, StringWellFormed, At
  <1>2. start + length <= len
    BY DEF SubstrAssign
  <1> DEFINE sub == SubSeq(buf, start + 1, start + length)
  <1>3. /\ sub \in Seq(Chars) /\ Len(sub) = length
        /\ \A i \in 1 .. length : sub[i] = buf[start + i]
    BY <1>1, <1>2
  <1>4. /\ sub \o <<Nul>> \in Seq(Bytes)
        /\ Len(sub \o <<Nul>>) = length + 1
        /\ \A i \in 1 .. length + 1 :
              (sub \o <<Nul>>)[i] = IF i <= length THEN sub[i] ELSE Nul
    BY <1>3 DEF Bytes
  <1>5. TypeOK'
    <2>1. size' = length + 1 /\ len' = length /\ buf' = sub \o <<Nul>> /\ q' = NoQuery
      BY DEF SubstrAssign
    <2>2. length + 1 \in 1 .. Mod - 1 /\ length \in 0 .. MaxLen
      BY <1>1, <1>2, ModFacts
    <2>3. QED
      BY <1>4, <2>1, <2>2 DEF TypeOK, NoQuery
  <1>6. StringWellFormed'
    <2>1. len' = length /\ size' = length + 1 /\ buf' = sub \o <<Nul>>
      BY DEF SubstrAssign
    <2>2. \A i \in 0 .. length - 1 : sub[i + 1] \in Chars
      BY <1>3
    <2>3. (sub \o <<Nul>>)[length + 1] = Nul
      BY <1>4, <1>1
    <2>4. \A i \in 0 .. length - 1 : (sub \o <<Nul>>)[i + 1] \in Chars
      BY <1>4, <2>2
    <2>5. len' < size'
      BY <1>1, <2>1
    <2>6. buf'[len' + 1] = Nul
      BY <2>1, <2>3
    <2>7. \A i \in 0 .. len' - 1 : buf'[i + 1] \in Chars
      BY <2>1, <2>4
    <2>8. QED
      BY <2>5, <2>6, <2>7 DEF StringWellFormed, At
  <1>7. QED
    BY <1>5, <1>6 DEF Inv

(* append: expand_to(new_length + 1) leaves room for the new bytes and    *)
(* the terminator, krealloc keeps the old ones, and memcpy and the store  *)
(* of '\0' fill the rest.                                                 *)
LEMMA AppendInv ==
    ASSUME Inv, NEW c \in Strings, StringAppend(c)
    PROVE  Inv'
  <1> DEFINE L == Len(c)
             nl == len + L
             ns == ExpandTo(nl + 1)
             grown == Realloc(ns)
             nbuf == [i \in 1 .. ns |->
                        IF i \in len + 1 .. len + L THEN c[i - len]
                        ELSE IF i = nl + 1 THEN Nul ELSE grown[i]]
  <1>1. /\ buf \in Seq(Bytes) /\ Len(buf) = size /\ len < size /\ len \in 0 .. MaxLen
        /\ size \in 1 .. Mod - 1
        /\ \A i \in 0 .. len - 1 : buf[i + 1] \in Chars
    BY DEF Inv, TypeOK, StringWellFormed, At
  <1>2. c \in Seq(Chars) /\ L \in 0 .. MaxLen /\ DOMAIN c = 1 .. L
    BY StringsAreSeqs
  <1>3. nl \in 0 .. MaxLen
    BY <1>1, <1>2 DEF StringAppend
  <1>4. \A j \in 1 .. L : c[j] \in Chars
    BY <1>2
  <1>5. SizeT(nl) = nl /\ SizeT(nl + 1) = nl + 1
    BY <1>3, ModFacts, SizeTSmall
  <1>6. ns \in 1 .. Mod - 1 /\ ns >= nl + 1 /\ ns >= size
    BY <1>1, <1>3, ExpandToFacts
  <1>7. len' = nl /\ size' = ns /\ buf' = nbuf /\ q' = NoQuery
    BY <1>5 DEF StringAppend
  <1>8. \A i \in 1 .. ns : grown[i] \in Bytes /\ (i <= size => grown[i] = buf[i])
    BY <1>1, <1>6 DEF Realloc, Bytes
  <1>9. \A i \in 1 .. ns : nbuf[i] \in Bytes
    BY <1>1, <1>2, <1>8, <1>4 DEF Bytes
  <1>10. nbuf \in Seq(Bytes) /\ Len(nbuf) = ns
    BY <1>6, <1>9
  <1>11. TypeOK'
    BY <1>3, <1>6, <1>7, <1>10 DEF TypeOK, NoQuery
  <1>12. nbuf[nl + 1] = Nul
    BY <1>1, <1>2, <1>6
  <1>13. \A i \in 0 .. nl - 1 : nbuf[i + 1] \in Chars
    <2>1. SUFFICES ASSUME NEW i \in 0 .. nl - 1 PROVE nbuf[i + 1] \in Chars
      OBVIOUS
    <2>2. CASE i + 1 <= len
      BY <1>1, <1>6, <1>8, <2>2
    <2>3. CASE ~(i + 1 <= len)
      BY <1>1, <1>2, <1>6, <1>4, <2>3
    <2>4. QED
      BY <2>2, <2>3
  <1>14. StringWellFormed'
    BY <1>6, <1>7, <1>12, <1>13 DEF StringWellFormed, At
  <1>15. QED
    BY <1>11, <1>14 DEF Inv

(* operator=(const string&) allocates the other string's size, which     *)
(* holds its characters and '\0', and copies them.                         *)
LEMMA CopyInv ==
    ASSUME Inv, NEW c \in Strings, NEW n \in OtherSizes(c), CopyAssign(c, n)
    PROVE  Inv'
  <1>1. c \in Seq(Chars) /\ Len(c) \in 0 .. MaxLen
    BY StringsAreSeqs
  <1>2. n \in Len(c) + 1 .. Mod - 1
    BY <1>1, ModFacts DEF OtherSizes
  <1>3. buf' \in Seq(Bytes) /\ Len(buf') = n
    BY <1>1, <1>2 DEF CopyAssign, Bytes
  <1>4. TypeOK'
    BY <1>1, <1>2, <1>3 DEF CopyAssign, TypeOK, NoQuery
  <1>5. StringWellFormed'
    BY <1>1, <1>2 DEF CopyAssign, StringWellFormed, At
  <1>6. QED
    BY <1>4, <1>5 DEF Inv

(* The characters of a well-formed string are a sequence of Chars. *)
LEMMA ContentChars ==
    ASSUME Inv
    PROVE  Content \in Seq(Chars) /\ Len(Content) = len
  <1>1. len \in Nat /\ len < Len(buf) /\ \A i \in 1 .. len : buf[i] \in Chars
    <2>1. \A i \in 1 .. len : i - 1 \in 0 .. len - 1
      BY DEF Inv, TypeOK
    <2>2. QED
      BY <2>1 DEF Inv, TypeOK, StringWellFormed, At
  <1>2. Content \in [1 .. len -> Chars]
    BY <1>1 DEF Content
  <1>3. QED
    BY <1>1, <1>2

(* "s = s + str" takes over a buffer of exactly the characters of both    *)
(* and '\0': no size wraps while the result fits in MaxLen.               *)
LEMMA PlusInv ==
    ASSUME Inv, NEW c \in Strings, PlusAssign(c)
    PROVE  Inv'
  <1> DEFINE t == ConcatOf(Content, c)
  <1>1. c \in Seq(Chars) /\ Len(c) \in 0 .. MaxLen
    BY StringsAreSeqs
  <1>2. Content \in Seq(Chars) /\ Len(Content) = len /\ len + Len(c) <= MaxLen
    BY ContentChars DEF PlusAssign
  <1>3. t.len = len + Len(c) /\ t.size = len + Len(c) + 1
    <2>1. len + Len(c) \in 0 .. Mod - 1 /\ len + Len(c) + 1 \in 0 .. Mod - 1
      BY <1>1, <1>2, ModFacts DEF Inv, TypeOK
    <2>2. QED
      BY <1>2, <2>1, SizeTSmall DEF ConcatOf
  <1>4. /\ t.buf \in Seq(Bytes) /\ Len(t.buf) = len + Len(c) + 1
        /\ \A i \in 1 .. len + Len(c) : t.buf[i] \in Chars
        /\ t.buf[len + Len(c) + 1] = Nul
    <2> DEFINE u == Content \o c
    <2>1. u \in Seq(Chars) /\ Len(u) = len + Len(c)
      BY <1>1, <1>2
    <2>2. t.buf = u \o <<Nul>>
      BY DEF ConcatOf
    <2>3. u \o <<Nul>> \in Seq(Bytes) /\ Len(u \o <<Nul>>) = len + Len(c) + 1
      BY <2>1 DEF Bytes
    <2>4. \A i \in 1 .. len + Len(c) : (u \o <<Nul>>)[i] = u[i] /\ u[i] \in Chars
      BY <2>1
    <2>5. (u \o <<Nul>>)[len + Len(c) + 1] = Nul
      BY <2>1
    <2>6. QED
      BY <2>2, <2>3, <2>4, <2>5
  <1>5. len' = t.len /\ size' = t.size /\ buf' = t.buf /\ q' = NoQuery
    BY DEF PlusAssign, MoveAssign
  <1>6. TypeOK'
    BY <1>1, <1>2, <1>3, <1>4, <1>5, ModFacts DEF TypeOK, NoQuery
  <1>7. StringWellFormed'
    BY <1>1, <1>2, <1>3, <1>4, <1>5 DEF StringWellFormed, At
  <1>8. QED
    BY <1>6, <1>7 DEF Inv

(* Every step of the object keeps Inv. *)
LEMMA StepInv == Inv /\ [Next]_vars => Inv'
  <1> SUFFICES ASSUME Inv, [Next]_vars PROVE Inv'
    OBVIOUS
  <1>1. ASSUME NEW c \in Strings, AssignCStr(c) PROVE Inv'
    BY <1>1, AssignInv
  <1>2. ASSUME NEW c \in Strings, StringAppend(c) PROVE Inv'
    BY <1>2, AppendInv
  <1>10. ASSUME NEW c \in Strings, PlusAssign(c) PROVE Inv'
    BY <1>10, PlusInv
  <1>11. ASSUME NEW c \in Strings, NEW n \in OtherSizes(c), CopyAssign(c, n) PROVE Inv'
    BY <1>11, CopyInv
  <1>3. ASSUME NEW c \in Strings, Equals(c) \/ NotEquals(c) PROVE Inv'
    BY <1>3, QueryFrame DEF Equals, NotEquals, Record
  <1>4. ASSUME NEW start \in 0 .. len, NEW length \in 0 .. len,
               SubstrAssign(start, length)
        PROVE  Inv'
    BY <1>4, SubstrInv
  <1>5. ASSUME NEW c, NEW x, FindChar(c, x) \/ FindLastOfChar(c, x) PROVE Inv'
    BY <1>5, QueryFrame DEF FindChar, FindLastOfChar, Record
  <1>6. ASSUME NEW p, NEW start, Find(p, start) PROVE Inv'
    <2>1. PICK r \in FindScan(p, start).outs :
                 Record("find", p, start, r, FindScan(p, start).oob)
      BY <1>6 DEF Find
    <2>2. QED
      BY <2>1, QueryFrame DEF Record
  <1>7. ASSUME NEW p, NEW end, FindLastOf(p, end) PROVE Inv'
    <2>1. PICK r \in FindLastOfScan(p, end).outs :
                 Record("find_last_of", p, end, r, FindLastOfScan(p, end).oob)
      BY <1>7 DEF FindLastOf
    <2>2. QED
      BY <2>1, QueryFrame DEF Record
  <1>8. CASE UNCHANGED vars
    BY <1>8 DEF vars, Inv, TypeOK, StringWellFormed, At
  <1>9. QED
    BY <1>1, <1>2, <1>3, <1>4, <1>5, <1>6, <1>7, <1>8, <1>10, <1>11 DEF Next

(* Whatever sequence of assignments, appends and substr assignments the   *)
(* kernel performs on a kstd::string, expand_to keeps its bytes and its   *)
(* '\0' terminator inside the buffer it allocated: the run kstring checks *)
(* this on a small instance, the theorem for every width and bound.       *)
THEOREM StringWellFormedHolds == Spec => []StringWellFormed
  <1>1. Init => Inv
    BY InitInv
  <1>2. Inv => StringWellFormed
    BY DEF Inv
  <1>3. QED
    BY <1>1, <1>2, StepInv, PTL DEF Spec

(* The string's length, size and buffer keep their types in every run. *)
THEOREM KStringTypeCorrect == Spec => []TypeOK
  <1>1. Inv => TypeOK
    BY DEF Inv
  <1>2. QED
    BY <1>1, InitInv, StepInv, PTL DEF Spec


-----------------------------------------------------------------------------
(***************************************************************************)
(* Refinement: under the mapping val <- Content the object implements      *)
(* StringValue.  Each mutation is shown to change Content as the matching  *)
(* abstract operation does, using Inv for the types and the terminator.    *)
(***************************************************************************)

(* The string value of the initial one-byte buffer is empty. *)
LEMMA RefInit == Init => Abstract!Init
  BY DEF Init, Abstract!Init, Content

(* The two definitions of the strings of at most MaxLen characters agree. *)
LEMMA SameStrings == Abstract!Strings = Strings
  BY DEF Abstract!Strings, Strings

(* A buffer whose first Len(c) bytes are the characters of c, and that is  *)
(* longer than c, has the characters c when its length is Len(c).          *)
LEMMA ContentIs ==
    ASSUME NEW c \in Seq(Chars), NEW b \in Seq(Bytes), Len(c) < Len(b),
           \A i \in 1 .. Len(c) : b[i] = c[i]
    PROVE  [i \in 1 .. Len(c) |-> IF i <= Len(b) THEN b[i] ELSE Junk] = c
  OBVIOUS

(* Content after a step that sets len to the length of x. *)
LEMMA ContentNext ==
    ASSUME NEW x \in Seq(Chars), len' = Len(x)
    PROVE  Content' = [i \in 1 .. Len(x) |-> IF i <= Len(buf') THEN buf'[i] ELSE Junk]
  BY DEF Content

(* operator= from a C string sets the value to it. *)
LEMMA AssignRef ==
    ASSUME Inv, NEW c \in Strings, AssignCStr(c)
    PROVE  Abstract!Assign(c)
  <1>1. c \in Seq(Chars) /\ Len(c) \in 0 .. MaxLen
    BY StringsAreSeqs
  <1>2. /\ buf' \in Seq(Bytes) /\ Len(buf') = Len(c) + 1
        /\ \A i \in 1 .. Len(c) : buf'[i] = c[i]
    BY <1>1 DEF AssignCStr, Bytes
  <1>3. len' = Len(c)
    BY DEF AssignCStr
  <1>4. QED
    BY <1>1, <1>2, <1>3, ContentIs, ContentNext DEF Abstract!Assign

(* operator= from another string sets the value to its characters. *)
LEMMA CopyRef ==
    ASSUME Inv, NEW c \in Strings, NEW n \in OtherSizes(c), CopyAssign(c, n)
    PROVE  Abstract!Assign(c)
  <1>1. c \in Seq(Chars) /\ Len(c) \in 0 .. MaxLen
    BY StringsAreSeqs
  <1>2. /\ buf' \in Seq(Bytes) /\ Len(buf') = n /\ Len(c) < n
        /\ \A i \in 1 .. Len(c) : buf'[i] = c[i]
    BY <1>1 DEF CopyAssign, OtherSizes, Bytes
  <1>3. len' = Len(c)
    BY DEF CopyAssign
  <1>4. QED
    BY <1>1, <1>2, <1>3, ContentIs, ContentNext DEF Abstract!Assign

(* "s = s.substr(start, length)" cuts the value down to the slice. *)
LEMMA SubstrRef ==
    ASSUME Inv, NEW start \in 0 .. len, NEW length \in 0 .. len,
           SubstrAssign(start, length)
    PROVE  Abstract!Cut(start, length)
  <1>1. /\ buf \in Seq(Bytes) /\ Len(buf) = size /\ len < size /\ len \in 0 .. MaxLen
        /\ \A i \in 0 .. len - 1 : buf[i + 1] \in Chars
    BY DEF Inv, TypeOK, StringWellFormed, At
  <1>2. Content \in Seq(Chars) /\ Len(Content) = len
    BY ContentChars
  <1>3. start + length <= len
    BY DEF SubstrAssign
  <1> DEFINE sub == SubSeq(Content, start + 1, start + length)
  <1>4. sub \in Seq(Chars) /\ Len(sub) = length
        /\ \A i \in 1 .. length : sub[i] = buf[start + i]
    BY <1>1, <1>2, <1>3 DEF Content
  <1>5. /\ buf' = SubSeq(buf, start + 1, start + length) \o <<Nul>>
        /\ len' = length
    BY DEF SubstrAssign
  <1>6. /\ buf' \in Seq(Bytes) /\ Len(buf') = length + 1
        /\ \A i \in 1 .. length : buf'[i] = sub[i]
    <2> DEFINE sl == SubSeq(buf, start + 1, start + length)
    <2>1. /\ sl \in Seq(Bytes) /\ Len(sl) = length
          /\ \A i \in 1 .. length : sl[i] = buf[start + i]
      BY <1>1, <1>3
    <2>2. /\ sl \o <<Nul>> \in Seq(Bytes) /\ Len(sl \o <<Nul>>) = length + 1
          /\ \A i \in 1 .. length : (sl \o <<Nul>>)[i] = sl[i]
      BY <2>1 DEF Bytes
    <2>3. QED
      BY <1>4, <1>5, <2>1, <2>2
  <1>7. Content' = sub
    <2>1. Content' = [i \in 1 .. Len(sub) |-> IF i <= Len(buf') THEN buf'[i] ELSE Junk]
      BY <1>4, <1>5, ContentNext
    <2>2. QED
      BY <1>4, <1>6, <2>1, ContentIs
  <1>8. QED
    BY <1>2, <1>3, <1>7 DEF Abstract!Cut

(* append(str) extends the value by str: the old characters survive the   *)
(* krealloc and the new ones are copied behind them.                      *)
LEMMA AppendRef ==
    ASSUME Inv, NEW c \in Strings, StringAppend(c)
    PROVE  Abstract!AppendTo(c)
  <1> DEFINE L == Len(c)
             nl == len + L
  <1>1. /\ buf \in Seq(Bytes) /\ Len(buf) = size /\ len < size /\ len \in 0 .. MaxLen
        /\ size \in 1 .. Mod - 1
    BY DEF Inv, TypeOK, StringWellFormed, At
  <1>2. c \in Seq(Chars) /\ L \in 0 .. MaxLen
    BY StringsAreSeqs
  <1>3. Content \in Seq(Chars) /\ Len(Content) = len
    BY ContentChars
  <1>4. nl <= MaxLen /\ SizeT(nl) = nl /\ SizeT(nl + 1) = nl + 1
    BY <1>1, <1>2, ModFacts, SizeTSmall DEF StringAppend
  <1>5. ExpandTo(nl + 1) \in 1 .. Mod - 1 /\ ExpandTo(nl + 1) >= nl + 1
        /\ ExpandTo(nl + 1) >= size
    BY <1>1, <1>2, <1>4, ExpandToFacts
  <1> DEFINE ns == ExpandTo(nl + 1)
  <1>6. /\ len' = nl
        /\ buf' = [i \in 1 .. ns |->
                    IF i \in len + 1 .. len + L THEN c[i - len]
                    ELSE IF i = nl + 1 THEN Nul ELSE Realloc(ns)[i]]
    BY <1>4 DEF StringAppend
  <1>7. Inv'
    BY AppendInv
  <1>8. buf' \in Seq(Bytes) /\ Len(buf') = ns
    <2>1. buf' \in Seq(Bytes)
      BY <1>7 DEF Inv, TypeOK
    <2>2. DOMAIN buf' = 1 .. ns
      BY <1>6
    <2>3. QED
      BY <1>5, <2>1, <2>2
  <1>9. \A i \in 1 .. nl : buf'[i] = (Content \o c)[i]
    <2>1. SUFFICES ASSUME NEW i \in 1 .. nl PROVE buf'[i] = (Content \o c)[i]
      OBVIOUS
    <2>2. CASE i <= len
      <3>1. buf'[i] = Realloc(ns)[i] /\ Realloc(ns)[i] = buf[i]
        BY <1>1, <1>5, <1>6, <2>2 DEF Realloc
      <3>2. (Content \o c)[i] = Content[i] /\ Content[i] = buf[i]
        BY <1>1, <1>2, <1>3, <2>2 DEF Content
      <3>3. QED
        BY <3>1, <3>2
    <2>3. CASE ~(i <= len)
      BY <1>1, <1>2, <1>3, <1>5, <1>6, <2>3
    <2>4. QED
      BY <2>2, <2>3
  <1>10. Content \o c \in Seq(Chars) /\ Len(Content \o c) = nl
    BY <1>2, <1>3
  <1>11. Content' = Content \o c
    <2>1. Content' = [i \in 1 .. Len(Content \o c) |-> IF i <= Len(buf') THEN buf'[i] ELSE Junk]
      BY <1>6, <1>10, ContentNext
    <2>2. /\ Content \o c \in Seq(Chars) /\ buf' \in Seq(Bytes)
          /\ Len(Content \o c) < Len(buf')
          /\ \A i \in 1 .. Len(Content \o c) : buf'[i] = (Content \o c)[i]
      BY <1>5, <1>8, <1>9, <1>10
    <2>3. [i \in 1 .. Len(Content \o c) |-> IF i <= Len(buf') THEN buf'[i] ELSE Junk]
            = Content \o c
      BY <2>2, ContentIs
    <2>4. QED
      BY <2>1, <2>3
  <1>12. QED
    BY <1>3, <1>4, <1>11 DEF Abstract!AppendTo

(* "s = s + str" takes over a buffer holding the value and str. *)
LEMMA PlusRef ==
    ASSUME Inv, NEW c \in Strings, PlusAssign(c)
    PROVE  Abstract!AppendTo(c)
  <1>1. c \in Seq(Chars) /\ Len(c) \in 0 .. MaxLen
    BY StringsAreSeqs
  <1>2. Content \in Seq(Chars) /\ Len(Content) = len /\ len + Len(c) <= MaxLen
    BY ContentChars DEF PlusAssign
  <1> DEFINE u == Content \o c
  <1>3. u \in Seq(Chars) /\ Len(u) = len + Len(c)
    BY <1>1, <1>2
  <1>4. len + Len(c) \in 0 .. Mod - 1
    BY <1>1, <1>2, ModFacts DEF Inv, TypeOK
  <1>5. len' = Len(u) /\ buf' = u \o <<Nul>>
    BY <1>3, <1>4, SizeTSmall DEF PlusAssign, MoveAssign, ConcatOf
  <1>6. /\ u \o <<Nul>> \in Seq(Bytes) /\ Len(u \o <<Nul>>) = Len(u) + 1
        /\ \A i \in 1 .. Len(u) : (u \o <<Nul>>)[i] = u[i]
    BY <1>3 DEF Bytes
  <1>7. Content' = u
    <2>1. Content' = [i \in 1 .. Len(u) |-> IF i <= Len(buf') THEN buf'[i] ELSE Junk]
      BY <1>3, <1>5, ContentNext
    <2>2. /\ u \in Seq(Chars) /\ buf' \in Seq(Bytes) /\ Len(u) < Len(buf')
          /\ \A i \in 1 .. Len(u) : buf'[i] = u[i]
      BY <1>3, <1>5, <1>6
    <2>3. [i \in 1 .. Len(u) |-> IF i <= Len(buf') THEN buf'[i] ELSE Junk] = u
      BY <2>2, ContentIs
    <2>4. QED
      BY <2>1, <2>3
  <1>8. QED
    BY <1>2, <1>7 DEF Abstract!AppendTo

(* A query leaves the value alone. *)
LEMMA QueryRef ==
    ASSUME UNCHANGED <<len, size, buf>>
    PROVE  UNCHANGED Content
  BY DEF Content

(* Every step of the object is a step of StringValue or leaves Content.   *)
LEMMA RefStep == Inv /\ [Next]_vars => [Abstract!Next]_Content
  <1> SUFFICES ASSUME Inv, [Next]_vars PROVE [Abstract!Next]_Content
    OBVIOUS
  <1>1. ASSUME NEW c \in Strings, AssignCStr(c) \/ \E n \in OtherSizes(c) : CopyAssign(c, n)
        PROVE  Abstract!Next
    <2>1. Abstract!Assign(c)
      <3>1. CASE AssignCStr(c)
        BY <3>1, AssignRef
      <3>2. CASE \E n \in OtherSizes(c) : CopyAssign(c, n)
        BY <3>2, CopyRef
      <3>3. QED
        BY <1>1, <3>1, <3>2
    <2>2. QED
      BY <2>1, SameStrings DEF Abstract!Next
  <1>2. ASSUME NEW c \in Strings, StringAppend(c) \/ PlusAssign(c)
        PROVE  Abstract!Next
    <2>1. Abstract!AppendTo(c)
      BY <1>2, AppendRef, PlusRef
    <2>2. QED
      BY <2>1, SameStrings DEF Abstract!Next
  <1>3. ASSUME NEW start \in 0 .. len, NEW length \in 0 .. len,
               SubstrAssign(start, length)
        PROVE  Abstract!Next
    <2>1. Abstract!Cut(start, length)
      BY <1>3, SubstrRef
    <2>2. start \in 0 .. MaxLen /\ length \in 0 .. MaxLen
      BY DEF Inv, TypeOK
    <2>3. QED
      BY <2>1, <2>2 DEF Abstract!Next
  <1>4. ASSUME UNCHANGED <<len, size, buf>> PROVE UNCHANGED Content
    BY <1>4, QueryRef
  <1>5. QED
    <2>1. CASE UNCHANGED vars
      BY <2>1, <1>4 DEF vars
    <2>2. CASE Next
      <3>1. CASE \E c \in Strings : AssignCStr(c) \/ \E n \in OtherSizes(c) : CopyAssign(c, n)
        BY <3>1, <1>1
      <3>2. CASE \E c \in Strings : StringAppend(c) \/ PlusAssign(c)
        BY <3>2, <1>2
      <3>3. CASE \E start, length \in 0 .. len : SubstrAssign(start, length)
        BY <3>3, <1>3
      <3>4. CASE \E c \in Strings : Equals(c) \/ NotEquals(c)
        BY <3>4, <1>4 DEF Equals, NotEquals, Record
      <3>5. CASE \/ \E c \in Chars, start \in 0 .. len : FindChar(c, start)
                 \/ \E c \in Chars, end \in {Npos} \cup (0 .. len - 1) : FindLastOfChar(c, end)
        BY <3>5, <1>4 DEF FindChar, FindLastOfChar, Record
      <3>6. CASE \E p \in Patterns, start \in 0 .. len : Find(p, start)
        BY <3>6, <1>4 DEF Find, Record
      <3>7. CASE \E p \in Patterns, end \in {Npos} \cup (0 .. len - 1) : FindLastOf(p, end)
        BY <3>7, <1>4 DEF FindLastOf, Record
      <3>8. QED
        BY <2>2, <3>1, <3>2, <3>3, <3>4, <3>5, <3>6, <3>7 DEF Next
    <2>3. QED
      BY <2>1, <2>2

(* Every behaviour of a kstd::string object, seen through Content, is a   *)
(* behaviour of a plain string value: assignments, copies, appends,       *)
(* "s = s + str" and substr assignments change the characters exactly as  *)
(* their std::string counterparts, and find, find_last_of and == change   *)
(* nothing.  The run kstring checks this on a small instance.             *)
THEOREM KStringImplementsStringValue == Spec => ImplementsStringValue
  <1>1. Spec => []Inv
    BY InitInv, StepInv, PTL DEF Spec
  <1>2. [][Next]_vars /\ []Inv => [][Abstract!Next]_Content
    BY RefStep, PTL
  <1>3. QED
    BY <1>1, <1>2, RefInit, PTL DEF Spec, ImplementsStringValue, Abstract!Spec


-----------------------------------------------------------------------------
(***************************************************************************)
(* find(char c, start).  The scan runs up to and including index _length,  *)
(* one past the characters; FindCharCorrect holds because that byte is the *)
(* terminator, which no character equals.  A mutation clears the recorded  *)
(* query, so the answer is compared with the string it was computed on.    *)
(***************************************************************************)
(* The inductive invariant: Inv and the recorded find(char) answer.      *)
FindInv == Inv /\ FindCharCorrect

(* The scan over start .. _length meets c exactly where Content does. *)
LEMMA FindCharScanRef ==
    ASSUME Inv, NEW c \in Chars, NEW start \in 0 .. len
    PROVE  FindCharScan(c, start) = RefFindChar(c, start)
  <1>1. /\ len \in 0 .. MaxLen /\ Len(buf) = size /\ len < size /\ At(len) = Nul
    BY DEF Inv, TypeOK, StringWellFormed
  <1>2. c # Nul
    BY KStringAssumption
  <1>3. \A i \in start .. len - 1 : At(i) = Content[i + 1]
    BY <1>1 DEF At, Content
  <1>4. {i \in start .. len : At(i) = c} = {i \in start .. len - 1 : Content[i + 1] = c}
    BY <1>1, <1>2, <1>3
  <1>5. QED
    BY <1>4 DEF FindCharScan, RefFindChar

(* The fresh string has no recorded query. *)
LEMMA FindInvInit == Init => FindInv
  BY InitInv DEF Init, FindInv, FindCharCorrect, NoQuery

(* A find(char) records the answer RefFindChar gives; any other step      *)
(* records a different query or clears it.                                 *)
LEMMA FindInvStep == FindInv /\ [Next]_vars => FindInv'
  <1> SUFFICES ASSUME FindInv, [Next]_vars PROVE FindInv'
    OBVIOUS
  <1>1. Inv'
    BY StepInv DEF FindInv
  <1>2. CASE \E c \in Chars, start \in 0 .. len : FindChar(c, start)
    <2>1. PICK c \in Chars, start \in 0 .. len : FindChar(c, start)
      BY <1>2
    <2>2. /\ q' = [op |-> "find_char", arg |-> <<c>>, from |-> start,
                   res |-> FindCharScan(c, start), oob |-> FALSE]
          /\ UNCHANGED <<len, size, buf>>
      BY <2>1 DEF FindChar, Record
    <2>3. FindCharScan(c, start) = RefFindChar(c, start)
      BY FindCharScanRef DEF FindInv
    <2>4. RefFindChar(c, start)' = RefFindChar(c, start)
      BY <2>2 DEF RefFindChar, Content
    <2>5. FindCharCorrect'
      BY <2>2, <2>3, <2>4 DEF FindCharCorrect
    <2>6. QED
      BY <1>1, <2>5 DEF FindInv
  <1>3. CASE ~\E c \in Chars, start \in 0 .. len : FindChar(c, start)
    <2>1. CASE UNCHANGED vars
      <3>1. RefFindChar(q.arg[1], q.from)' = RefFindChar(q.arg[1], q.from)
        BY <2>1 DEF vars, RefFindChar, Content
      <3>2. QED
        BY <1>1, <2>1, <3>1 DEF vars, FindInv, FindCharCorrect
    <2>2. CASE Next
      <3>1. q'.op # "find_char"
        <4>1. CASE \E c \in Strings : AssignCStr(c) \/ StringAppend(c) \/ PlusAssign(c)
                                      \/ Equals(c) \/ NotEquals(c)
          BY <4>1 DEF AssignCStr, StringAppend, PlusAssign, Equals, NotEquals,
                      Record, NoQuery
        <4>2. CASE \E c \in Strings : \E n \in OtherSizes(c) : CopyAssign(c, n)
          BY <4>2 DEF CopyAssign, NoQuery
        <4>3. CASE \E start, length \in 0 .. len : SubstrAssign(start, length)
          BY <4>3 DEF SubstrAssign, NoQuery
        <4>4. CASE \E c \in Chars, end \in {Npos} \cup (0 .. len - 1) : FindLastOfChar(c, end)
          BY <4>4 DEF FindLastOfChar, Record
        <4>5. CASE \E p \in Patterns, start \in 0 .. len : Find(p, start)
          BY <4>5 DEF Find, Record
        <4>6. CASE \E p \in Patterns, end \in {Npos} \cup (0 .. len - 1) : FindLastOf(p, end)
          BY <4>6 DEF FindLastOf, Record
        <4>7. QED
          BY <1>3, <2>2, <4>1, <4>2, <4>3, <4>4, <4>5, <4>6 DEF Next
      <3>2. QED
        BY <1>1, <3>1 DEF FindInv, FindCharCorrect
    <2>3. QED
      BY <2>1, <2>2
  <1>4. QED
    BY <1>2, <1>3

(* find(char c, start) on a kstd::string returns the 0-based index of the  *)
(* first c at or after start, or npos, whatever assignments, appends and  *)
(* substr assignments came before: its scan reaches index _length but the *)
(* '\0' kept there never matches.  The run kstring checks this on a small *)
(* instance, the theorem for every width and bound.                       *)
THEOREM FindCharCorrectHolds == Spec => []FindCharCorrect
  <1>1. FindInv => FindCharCorrect
    BY DEF FindInv
  <1>2. QED
    BY <1>1, FindInvInit, FindInvStep, PTL DEF Spec


-----------------------------------------------------------------------------
(***************************************************************************)
(* VFS::mkdir's split of its path, for every path a kstd::string reaches.  *)
(* The split is a function of the path alone; the argument is about        *)
(* find_last_of('/') on a string buffer, which returns one past the index  *)
(* of the last '/', the Max of the 1-based positions of the slashes.       *)
(***************************************************************************)

(* The 1-based positions of the slashes of s. *)
Slashes(s) == {i \in 1 .. Len(s) : s[i] = "/"}

(* A nonempty set of numbers in 1 .. n has a largest element, found as the *)
(* least distance from n by the well-foundedness of < on Nat.             *)
LEMMA MaxExists ==
    ASSUME NEW n \in Nat, NEW S \in SUBSET (1 .. n), S # {}
    PROVE  Max(S) \in S /\ \A y \in S : Max(S) >= y
  <1> DEFINE T == {n - x : x \in S}
  <1>1. T \subseteq Nat /\ T # {}
    <2>1. \A x \in S : n - x \in Nat
      OBVIOUS
    <2>2. PICK x0 \in S : TRUE
      OBVIOUS
    <2>3. n - x0 \in T
      OBVIOUS
    <2>4. QED
      BY <2>1, <2>3
  <1>2. \E y \in T : \A z \in T : ~(<<z, y>> \in OpToRel(<, Nat))
    BY <1>1, NatLessThanWellFounded, WFMin
  <1>3. PICK y \in T : \A z \in T : ~(z < y)
    BY <1>1, <1>2 DEF OpToRel
  <1>4. \E x \in S : \A w \in S : x >= w
    <2>1. PICK x \in S : y = n - x
      OBVIOUS
    <2>2. \A w \in S : n - w \in T
      OBVIOUS
    <2>3. \A w \in S : x >= w
      <3>1. SUFFICES ASSUME NEW w \in S PROVE x >= w
        OBVIOUS
      <3>2. ~(n - w < y)
        BY <1>3, <2>2
      <3>3. QED
        BY <2>1, <3>2
    <2>4. QED
      BY <2>3
  <1>5. QED
    BY <1>4 DEF Max

(* find_last_of('/') on the string buffer holding s returns npos without a *)
(* '/', else one past the index of the last one: a wrapped _length - 1     *)
(* makes the scan empty for the empty string.                             *)
LEMMA SlashIndexIs ==
    ASSUME NEW s \in Seq(Chars), Len(s) <= MaxLen
    PROVE  SlashIndex(s) = IF Slashes(s) = {} THEN Npos ELSE Max(Slashes(s))
  <1> DEFINE n == Len(s)
             top == SizeT(SizeT(n - 1) + 1)
  <1>1. top = n
    <2>1. CASE n = 0
      <3>0. (0 - 1) % Mod = Mod - 1
        BY ModFacts
      <3>1. SizeT(n - 1) = Mod - 1
        BY <2>1, <3>0 DEF SizeT
      <3>2. SizeT(Mod) = 0
        BY ModFacts DEF SizeT
      <3>3. QED
        BY <2>1, <3>1, <3>2, ModFacts
    <2>2. CASE n # 0
      BY <2>2, ModFacts, SizeTSmall
    <2>3. QED
      BY <2>1, <2>2
  <1> DEFINE hits == {i \in 1 .. top : (s \o <<Nul>>)[i - 1 + 1] = "/"}
  <1>2. hits = Slashes(s)
    <2>1. \A i \in 1 .. n : (s \o <<Nul>>)[i - 1 + 1] = s[i]
      OBVIOUS
    <2>2. QED
      BY <1>1, <2>1 DEF Slashes
  <1>3. SlashIndex(s) = IF hits = {} THEN Npos ELSE Max(hits)
    BY DEF SlashIndex, Str!FindLastOfCharScan, Str!At, Str!SizeT, Str!Npos, Str!Mod,
           Str!Max, SizeT, Npos, Mod, Max
  <1>4. QED
    BY <1>2, <1>3

(* The split of a path s, after its trailing '/' is dropped: the name is   *)
(* the last component and the directory and name give s back, unless the   *)
(* name is one byte after a '/'.                                          *)
SplitOK(s) ==
    \/ Len(LastComponent(s)) = 1 /\ LastComponent(s) # s
    \/ PathBase(s) = LastComponent(s) /\ PathMinusBase(s) \o PathBase(s) = s

(* path_minus_base and path_base split every string that way. *)
LEMMA SplitCorrect ==
    ASSUME NEW s \in Seq(Chars), Len(s) <= MaxLen
    PROVE  SplitOK(s)
  <1> DEFINE n == Len(s)
  <1>1. CASE Slashes(s) = {}
    <2>1. SlashIndex(s) = Npos
      BY <1>1, SlashIndexIs
    <2>2. LastComponent(s) = s
      BY <1>1 DEF LastComponent, Slashes
    <2>3. PathBase(s) = s /\ PathMinusBase(s) = <<>>
      BY <2>1 DEF PathBase, PathMinusBase
    <2>4. QED
      BY <2>2, <2>3 DEF SplitOK
  <1>2. CASE Slashes(s) # {}
    <2> DEFINE m == Max(Slashes(s))
    <2>1. m \in 1 .. n /\ s[m] = "/"
      <3>1. n \in Nat /\ Slashes(s) \in SUBSET (1 .. n)
        BY DEF Slashes
      <3>2. m \in Slashes(s)
        BY <1>2, <3>1, MaxExists
      <3>3. QED
        BY <3>2 DEF Slashes
    <2>2. SlashIndex(s) = m
      BY <1>2, SlashIndexIs
    <2>3. m # Npos /\ SizeT(n - 1) = n - 1
      BY <2>1, ModFacts, SizeTSmall
    <2>4. LastComponent(s) = SubSeq(s, m + 1, n)
      BY <1>2 DEF LastComponent, Slashes
    <2>5. CASE m = n - 1
      <3>1. Len(SubSeq(s, m + 1, n)) = 1
        BY <2>1, <2>5
      <3>2. SubSeq(s, m + 1, n) # s
        BY <2>1, <2>5, <3>1
      <3>3. QED
        BY <2>4, <3>1, <3>2 DEF SplitOK
    <2>6. CASE m # n - 1
      <3>1. PathBase(s) = SubSeq(s, m + 1, n)
        BY <2>2, <2>3, <2>6 DEF PathBase
      <3>2. PathMinusBase(s) = SubSeq(s, 1, m)
        BY <2>2, <2>3 DEF PathMinusBase
      <3>3. SubSeq(s, 1, m) \o SubSeq(s, m + 1, n) = s
        <4>0. 1 \in 1 .. Len(s) + 1 /\ m \in 1 - 1 .. Len(s) /\ n \in m .. Len(s)
          BY <2>1
        <4>1. SubSeq(s, 1, m) \o SubSeq(s, m + 1, n) = SubSeq(s, 1, n)
          BY <4>0, ConcatAdjacentSubSeq, Zenon
        <4>2. QED
          BY <4>1, SubSeqFull
      <3>4. QED
        BY <2>4, <3>1, <3>2, <3>3 DEF SplitOK
    <2>7. QED
      BY <2>5, <2>6
  <1>3. QED
    BY <1>1, <1>2


(* What mkdir last recorded: nothing, or the split of a path the string   *)
(* held, computed by path_minus_base and path_base.                       *)
MadeOK ==
    \/ made = NoSplit
    \/ \E p \in Strings :
          made = [path |-> p, dir |-> PathMinusBase(StripSlash(p)),
                  base |-> PathBase(StripSlash(p))]

(* The inductive invariant of the path specification. *)
PInv == Inv /\ MadeOK

(* The characters of a well-formed string are one of the model's strings. *)
LEMMA ContentInStrings == Inv => Content \in Strings
  <1> SUFFICES ASSUME Inv PROVE Content \in Strings
    OBVIOUS
  <1>1. Content \in Seq(Chars) /\ Len(Content) = len /\ len \in 0 .. MaxLen
    BY ContentChars DEF Inv, TypeOK
  <1>2. Content \in [1 .. len -> Chars]
    BY <1>1
  <1>3. QED
    BY <1>1, <1>2 DEF Strings

(* A prefix of a sequence is a sequence of the same elements. *)
LEMMA PrefixType ==
    ASSUME NEW S, NEW x \in Seq(S), NEW k \in 0 .. Len(x)
    PROVE  SubSeq(x, 1, k) \in Seq(S) /\ Len(SubSeq(x, 1, k)) = k
  OBVIOUS

(* Dropping one trailing '/' keeps a string of at most MaxLen characters. *)
LEMMA StripSlashType ==
    ASSUME NEW p \in Strings
    PROVE  StripSlash(p) \in Seq(Chars) /\ Len(StripSlash(p)) <= MaxLen
  <1>1. p \in Seq(Chars) /\ Len(p) \in 0 .. MaxLen
    BY StringsAreSeqs
  <1>2. CASE p # <<>> /\ p[Len(p)] = "/"
    <2>0. Len(p) # 0
      BY <1>1, <1>2, EmptySeq
    <2>1. SubSeq(p, 1, Len(p) - 1) \in Seq(Chars) /\ Len(SubSeq(p, 1, Len(p) - 1)) = Len(p) - 1
      <3>1. Len(p) - 1 \in 0 .. Len(p)
        BY <1>1, <2>0
      <3>2. QED
        BY <1>1, <3>1, PrefixType
    <2>2. QED
      BY <1>1, <1>2, <2>1 DEF StripSlash
  <1>3. CASE ~(p # <<>> /\ p[Len(p)] = "/")
    BY <1>1, <1>3 DEF StripSlash
  <1>4. QED
    BY <1>2, <1>3

(* A mutation or query of the string clears what mkdir recorded. *)
LEMMA PInvInit == PathInit => PInv
  BY InitInv DEF PathInit, PInv, MadeOK

(* mkdir, rmdir and the string operations keep PInv: mkdir records the    *)
(* split of the current characters, and rmdir's substr assignment is an    *)
(* in-range one.                                                          *)
LEMMA PInvStep == PInv /\ [PathNext]_pathVars => PInv'
  <1> SUFFICES ASSUME PInv, [PathNext]_pathVars PROVE PInv'
    OBVIOUS
  <1>1. Inv
    BY DEF PInv
  <1>2. CASE Next /\ made' = NoSplit /\ rmres' = NoRemove
    BY <1>1, <1>2, StepInv DEF PInv, MadeOK
  <1>3. CASE Mkdir
    <2>1. UNCHANGED <<len, size, buf>> /\ q' = NoQuery
      BY <1>3 DEF Mkdir
    <2>2. Inv'
      BY <1>1, <2>1 DEF Inv, TypeOK, StringWellFormed, At, NoQuery
    <2>3. Content \in Strings
      BY <1>1, ContentInStrings
    <2>4. made' = [path |-> Content, dir |-> PathMinusBase(StripSlash(Content)),
                   base |-> PathBase(StripSlash(Content))]
      BY <1>3 DEF Mkdir
    <2>5. MadeOK'
      BY <2>3, <2>4 DEF MadeOK
    <2>6. QED
      BY <2>2, <2>5 DEF PInv
  <1>4. CASE Rmdir
    <2>1. made' = NoSplit
      BY <1>4 DEF Rmdir
    <2>2. CASE StripSlash(Content) # Content
      <3>1. Content # <<>>
        BY <2>2 DEF StripSlash
      <3>2. Content \in Seq(Chars) /\ Len(Content) = len
        BY <1>1, ContentChars
      <3>3. 0 \in 0 .. len /\ len - 1 \in 0 .. len
        BY <3>1, <3>2
      <3>4. SubstrAssign(0, len - 1)
        BY <1>4, <2>2 DEF Rmdir
      <3>5. Inv'
        BY <1>1, <3>3, <3>4, SubstrInv
      <3>6. QED
        BY <2>1, <3>5 DEF PInv, MadeOK
    <2>3. CASE StripSlash(Content) = Content
      <3>1. UNCHANGED <<len, size, buf>> /\ q' = NoQuery
        BY <1>4, <2>3 DEF Rmdir
      <3>2. Inv'
        BY <1>1, <3>1 DEF Inv, TypeOK, StringWellFormed, At, NoQuery
      <3>3. QED
        BY <2>1, <3>2 DEF PInv, MadeOK
    <2>4. QED
      BY <2>2, <2>3
  <1>5. CASE UNCHANGED pathVars
    <2>1. Inv'
      BY <1>1, <1>5 DEF pathVars, Inv, TypeOK, StringWellFormed, At
    <2>2. MadeOK'
      BY <1>5 DEF pathVars, PInv, MadeOK
    <2>3. QED
      BY <2>1, <2>2 DEF PInv
  <1>6. QED
    BY <1>2, <1>3, <1>4, <1>5 DEF PathNext

(* VFS::mkdir, on a path string built by any sequence of kstd::string     *)
(* operations, creates the entry named by the last component of the path  *)
(* in the directory named by what precedes it, unless that name is a      *)
(* single byte after a '/', where path_base's "== length() - 1" test      *)
(* reads find_last_of's one-past index as the index of the '/'.  The run   *)
(* kstring checks this on a small instance, the theorem for every width,  *)
(* character set and bound.                                               *)
THEOREM MkdirSplitsUnlessOneByteNameHolds == PathSpec => []MkdirSplitsUnlessOneByteName
  <1>1. MadeOK => MkdirSplitsUnlessOneByteName
    <2>1. CASE made = NoSplit
      <3>1. StripSlash(<<>>) = <<>> /\ LastComponent(<<>>) = <<>>
        BY DEF StripSlash, LastComponent
      <3>2. QED
        BY <2>1, <3>1 DEF NoSplit, MkdirSplitsUnlessOneByteName, MkdirSplitsAtLastSlash
    <2>2. ASSUME NEW p \in Strings,
                 made = [path |-> p, dir |-> PathMinusBase(StripSlash(p)),
                         base |-> PathBase(StripSlash(p))]
          PROVE  MkdirSplitsUnlessOneByteName
      <3>1. SplitOK(StripSlash(p))
        BY StripSlashType, SplitCorrect
      <3>2. QED
        BY <2>2, <3>1 DEF SplitOK, MkdirSplitsUnlessOneByteName, MkdirSplitsAtLastSlash
    <2>3. QED
      BY <2>1, <2>2 DEF MadeOK
  <1>2. QED
    BY <1>1, PInvInit, PInvStep, PTL DEF PathSpec, PInv

=============================================================================
